---------------------------- MODULE TaskAnalyser ----------------------------
(***************************************************************************)
(* The life of a task between the application threads, the Access          *)
(* Processor and the Task Dispatcher of the COMPSs runtime.                *)
(*                                                                         *)
(* An application thread submits tasks without waiting, and blocks on a    *)
(* semaphore when it asks for a barrier, for the end of its application or *)
(* for a datum. The Access Processor (AP) is one thread that takes its     *)
(* requests in order: it finds the dependencies of new tasks from the last *)
(* writer of each datum, hands the tasks to the Task Dispatcher (TD), and  *)
(* releases the waiting threads as the ends of tasks are notified. The TD  *)
(* is another thread, with its own queue: it turns a task into executions  *)
(* that wait for the pending executions of the predecessors. How it places *)
(* executions on workers and retries them is left to other modules: here   *)
(* an execution without predecessors starts, and completes or fails.       *)
(*                                                                         *)
(* Task, AccessProcessor and TaskDispatcher share the task objects: the TD *)
(* changes the status and the execution count of a task while the AP reads *)
(* them, and both reads and writes are modelled where the code does them.  *)
(***************************************************************************)
EXTENDS Integers, Sequences, FiniteSets

CONSTANTS
    NumTasks,    \* bound: tasks submitted, identified 1 .. NumTasks
    Threads,     \* application threads
    Apps,        \* application identifiers
    AppOf,       \* the application a thread works for
    Data,        \* files and objects
    Objects,     \* the data that are objects; the others are files
    Signatures,  \* the accesses a task may have: functions from data to modes
    TaskData,    \* data that the tasks of a thread may access
    MainData,    \* data that the thread itself may access
    Executions,  \* executions of a task: 1, or one per worker if replicated
    None         \* no task, no thread

Tasks     == 1 .. NumTasks
Modes     == {"R", "W", "RW"}
Reads(m)  == m \in {"R", "RW"}
Writes(m) == m \in {"W", "RW"}

ASSUME NumTasksAssumption == NumTasks \in Nat
ASSUME AppOfAssumption == AppOf \in [Threads -> Apps]
ASSUME DataAssumption ==
    /\ Objects \subseteq Data
    /\ Signatures \subseteq [Data -> Modes \cup {"none"}]
    /\ TaskData \in [Threads -> SUBSET Data]
    /\ MainData \in [Threads -> SUBSET Data]
ASSUME ExecutionsAssumption == Executions \in [Tasks -> Nat \ {0}]
ASSUME NoneAssumption == None \notin Tasks /\ None \notin Threads

\* The objects that a main program accesses are used by the tasks of that program
\* only, as references that threads do not exchange. (Files have no such restriction:
\* a name is enough to share one.)
PrivateObjects ==
    \A h, g \in Threads : Objects \cap MainData[h] \cap TaskData[g] # {} => g = h

VARIABLES
    \* application threads
    pc,           \* what a thread is doing
    target,       \* the datum, and the mode, of the thread's main access
    nextTask,     \* identifier of the next task
    \* queues
    apQueue,      \* requests to the AP
    tdQueue,      \* tasks in the ExecuteTasksRequests to the TD
    \* Task objects
    owner, signature, status, executionCount, predecessors,
    \* executions in the TD
    pending,      \* executions created and not ended
    running,      \* those of them that have started
    waitsFor,     \* tasks with pending executions that an execution waits for
    failed,       \* tasks with a failed execution
    \* TaskAnalyser
    writers, taskCount, counted, semaphore, barrierFlags, waitedTasks,
    halt,         \* shutdown after the failure of a task
    \* history: who really produces what is read
    producer,     \* the task that writes the current version of a datum
    needs,        \* the producers of the versions that a task reads
    mainNeeds,    \* the producers of the version that a thread reads
    ended         \* times that the end of a task has been treated

threadVars  == <<pc, target, nextTask>>
callVars    == <<pc, target, mainNeeds>>
taskVars    == <<owner, signature, predecessors>>
stateVars   == <<status, executionCount>>
execVars    == <<pending, running, waitsFor, failed>>
countVars   == <<taskCount, counted, semaphore, barrierFlags>>
historyVars == <<producer, needs, mainNeeds>>
vars == <<threadVars, apQueue, tdQueue, taskVars, stateVars, execVars, writers,
          countVars, waitedTasks, halt, historyVars, ended>>

NoTarget == [data |-> None, mode |-> "none"]

Request(type, task, thread) == [type |-> type, task |-> task, thread |-> thread]

\* The threads go on with their programs, or have ended them: the call returns.
Return(threads) ==
    /\ pc' = [h \in Threads |->
                IF h \notin threads THEN pc[h]
                ELSE IF pc[h] = "endOfApp" THEN "ended" ELSE "running"]
    /\ target' = [h \in Threads |-> IF h \in threads THEN NoTarget ELSE target[h]]
    /\ mainNeeds' = [h \in Threads |-> IF h \in threads THEN {} ELSE mainNeeds[h]]

-----------------------------------------------------------------------------
Init ==
    /\ pc = [h \in Threads |-> "running"]
    /\ target = [h \in Threads |-> NoTarget]
    /\ nextTask = 1
    /\ apQueue = << >>
    /\ tdQueue = << >>
    /\ owner = [t \in Tasks |-> None]
    /\ signature = [t \in Tasks |-> [d \in Data |-> "none"]]
    /\ status = [t \in Tasks |-> "TO_ANALYSE"]
    /\ executionCount = [t \in Tasks |-> 0]
    /\ predecessors = [t \in Tasks |-> {}]
    /\ pending = [t \in Tasks |-> 0]
    /\ running = [t \in Tasks |-> 0]
    /\ waitsFor = [t \in Tasks |-> {}]
    /\ failed = {}
    /\ writers = [d \in Data |-> None]
    /\ taskCount = [a \in Apps |-> 0]
    /\ counted = {}
    /\ semaphore = [a \in Apps |-> None]
    /\ barrierFlags = {}
    /\ waitedTasks = [t \in Tasks |-> {}]
    /\ halt = "no"
    /\ producer = [d \in Data |-> None]
    /\ needs = [t \in Tasks |-> {}]
    /\ mainNeeds = [h \in Threads |-> {}]
    /\ ended = [t \in Tasks |-> 0]

-----------------------------------------------------------------------------
(* Application threads: COMPSsRuntimeImpl and the requesting side of the AP *)

\* COMPSsRuntimeImpl.executeTask, AccessProcessor.newTask: does not wait.
ExecuteTask(h, sig) ==
    /\ pc[h] = "running"
    /\ nextTask \in Tasks
    /\ \A d \in Data : sig[d] # "none" => d \in TaskData[h]
    /\ nextTask' = nextTask + 1
    /\ owner' = [owner EXCEPT ![nextTask] = h]
    /\ signature' = [signature EXCEPT ![nextTask] = sig]
    /\ apQueue' = Append(apQueue, Request("analyse", nextTask, h))
    /\ UNCHANGED <<pc, target, tdQueue, predecessors, stateVars, execVars, writers,
                   countVars, waitedTasks, halt, historyVars, ended>>

\* A request that the thread waits for on a semaphore.
Ask(h, type) ==
    /\ apQueue' = Append(apQueue, Request(type, None, h))
    /\ pc' = [pc EXCEPT ![h] = type]
    /\ UNCHANGED <<nextTask, tdQueue, taskVars, stateVars, execVars, writers,
                   countVars, waitedTasks, halt, historyVars, ended>>

Barrier(h) == pc[h] = "running" /\ Ask(h, "barrier") /\ UNCHANGED target

NoMoreTasks(h) == pc[h] = "running" /\ Ask(h, "endOfApp") /\ UNCHANGED target

\* mainAccessToFile, mainAcessToObject: first the access is registered.
MainAccess(h, d, m) ==
    /\ pc[h] = "running"
    /\ d \in MainData[h]
    /\ d \in Objects => m = "RW"
    /\ target' = [target EXCEPT ![h] = [data |-> d, mode |-> m]]
    /\ Ask(h, "register")

\* ... then, in a second request, the thread waits for the last writer, unless
\* it only writes. A file is waited for in mode R whatever the access.
WaitForTask(h) ==
    /\ pc[h] = "registered"
    /\ IF Reads(target[h].mode)
       THEN Ask(h, "wait") /\ UNCHANGED target
       ELSE /\ Return({h})
            /\ UNCHANGED <<nextTask, apQueue, tdQueue, taskVars, stateVars, execVars,
                           writers, countVars, waitedTasks, halt, producer, needs, ended>>

-----------------------------------------------------------------------------
(* The AP thread: TaskAnalyser *)

\* The AP takes the first request of its queue.
Takes(type) ==
    /\ halt # "done"
    /\ apQueue # << >>
    /\ Head(apQueue).type = type

ReadData(t)    == {d \in Data : Reads(signature[t][d])}
WrittenData(t) == {d \in Data : Writes(signature[t][d])}

\* Mutants: a datum without a writer is not told apart; a parameter that is read
\* and written is treated as a written one.
LastWritersOrNone(t) == {writers[d] : d \in ReadData(t)}
LastWritersOfInputs(t) == {writers[d] : d \in ReadData(t) \ WrittenData(t)} \ {None}

\* checkDependencyForRead: the last writers of the data that the task reads. (A
\* datum is accessed by one parameter, so a task is never its own predecessor.)
LastWriters(t) == {writers[d] : d \in ReadData(t)} \ {None}

\* processTask, then taskDispatcher.executeTask.
ProcessTask ==
    LET t == Head(apQueue).task
        a == AppOf[owner[t]]
    IN  /\ Takes("analyse")
        /\ taskCount' = [taskCount EXCEPT ![a] = @ + 1]
        /\ counted' = counted \cup {a}
        /\ predecessors' = [predecessors EXCEPT ![t] = LastWriters(t)]
        /\ writers' = [d \in Data |-> IF d \in WrittenData(t) THEN t ELSE writers[d]]
        /\ needs' = [needs EXCEPT ![t] = {producer[d] : d \in ReadData(t)} \ {None}]
        /\ producer' = [d \in Data |-> IF d \in WrittenData(t) THEN t ELSE producer[d]]
        /\ tdQueue' = Append(tdQueue, t)
        /\ apQueue' = Tail(apQueue)
        /\ UNCHANGED <<threadVars, owner, signature, stateVars, execVars, semaphore,
                       barrierFlags, waitedTasks, halt, mainNeeds, ended>>

\* Mutants: the last task of the application is missed, or anticipated; the
\* threads that wait for this task are not released.
ReleasedTooLate(t, a) ==
    waitedTasks[t] \cup (IF taskCount[a] = 0 THEN {semaphore[a]} \ {None} ELSE {})
ReleasedTooEarly(t, a) ==
    waitedTasks[t] \cup (IF taskCount[a] <= 2 THEN {semaphore[a]} \ {None} ELSE {})
ReleasedForApp(t, a) ==
    IF taskCount[a] = 1 THEN {semaphore[a]} \ {None} ELSE {}

\* Threads whose semaphores endTask releases: the one synchronised on the last
\* task of the application, and the ones that wait for this task.
Released(t, a) ==
    waitedTasks[t] \cup (IF taskCount[a] = 1 THEN {semaphore[a]} \ {None} ELSE {})

\* Mutant: the count of the application is decreased only while it is waited for.
TreatEndUncounted(t, a) ==
    /\ taskCount' = IF semaphore[a] = None THEN taskCount ELSE [taskCount EXCEPT ![a] = @ - 1]
    /\ Return(Released(t, a))
    /\ waitedTasks' = [waitedTasks EXCEPT ![t] = {}]
    /\ predecessors' = [u \in Tasks |-> predecessors[u] \ {t}]
    /\ ended' = [ended EXCEPT ![t] = @ + 1]
    /\ UNCHANGED <<counted, semaphore, barrierFlags, halt>>

\* endTask of a task that is free and has not failed.
TreatEnd(t, a) ==
    /\ taskCount' = [taskCount EXCEPT ![a] = @ - 1]
    /\ counted' = IF taskCount[a] = 1 /\ semaphore[a] # None THEN counted \ {a} ELSE counted
    /\ barrierFlags' = IF taskCount[a] = 1 THEN barrierFlags \ {a} ELSE barrierFlags
    /\ semaphore' = IF taskCount[a] = 1 THEN [semaphore EXCEPT ![a] = None] ELSE semaphore
    /\ Return(Released(t, a))
    /\ waitedTasks' = [waitedTasks EXCEPT ![t] = {}]
    /\ predecessors' = [u \in Tasks |-> predecessors[u] \ {t}]
    /\ ended' = [ended EXCEPT ![t] = @ + 1]
    /\ UNCHANGED halt

\* TaskEndNotification. The status and the execution count are those that the
\* task has now, not those it had when the notification was sent. The count of an
\* application that was removed from the map is null, and decreasing it throws.
EndTask ==
    LET t == Head(apQueue).task
        a == AppOf[owner[t]]
    IN  /\ Takes("end")
        /\ apQueue' = Tail(apQueue)
        /\ \/ /\ executionCount[t] # 0 \/ (status[t] # "FAILED" /\ a \notin counted)
              /\ UNCHANGED <<callVars, predecessors, countVars, waitedTasks, halt, ended>>
           \/ /\ executionCount[t] = 0 /\ status[t] = "FAILED"
              /\ halt' = "requested"
              /\ UNCHANGED <<callVars, predecessors, countVars, waitedTasks, ended>>
           \/ /\ executionCount[t] = 0 /\ status[t] # "FAILED" /\ a \in counted
              /\ TreatEnd(t, a)
        /\ UNCHANGED <<nextTask, tdQueue, owner, signature, stateVars, execVars, writers,
                       producer, needs>>

\* barrier and noMoreTasks: nothing to wait for, or the semaphore is kept.
Synchronise(type) ==
    LET h == Head(apQueue).thread
        a == AppOf[h]
    IN  /\ Takes(type)
        /\ apQueue' = Tail(apQueue)
        /\ \/ /\ taskCount[a] = 0
              /\ Return({h})
              /\ counted' = IF type = "endOfApp" THEN counted \ {a} ELSE counted
              /\ UNCHANGED <<semaphore, barrierFlags>>
           \/ /\ taskCount[a] # 0
              /\ semaphore' = [semaphore EXCEPT ![a] = h]
              /\ barrierFlags' = IF type = "barrier" THEN barrierFlags \cup {a} ELSE barrierFlags
              /\ UNCHANGED <<callVars, counted>>
        /\ UNCHANGED <<nextTask, tdQueue, taskVars, stateVars, execVars, writers,
                       taskCount, waitedTasks, halt, producer, needs, ended>>

BarrierRequest  == Synchronise("barrier")
EndOfAppRequest == Synchronise("endOfApp")

\* RegisterDataAccessRequest: the version that the thread reads is fixed here.
RegisterDataAccess ==
    LET h == Head(apQueue).thread
        d == target[h].data
    IN  /\ Takes("register")
        /\ apQueue' = Tail(apQueue)
        /\ pc' = [pc EXCEPT ![h] = "registered"]
        /\ mainNeeds' = [mainNeeds EXCEPT
                            ![h] = IF Reads(target[h].mode) THEN {producer[d]} \ {None} ELSE {}]
        /\ producer' = IF Writes(target[h].mode)
                       THEN [producer EXCEPT ![d] = None] ELSE producer
        /\ UNCHANGED <<target, nextTask, tdQueue, taskVars, stateVars, execVars, writers,
                       countVars, waitedTasks, halt, needs, ended>>

\* findWaitedTask: an object that the main takes for writing has no last writer
\* any more.
FindWaitedTask ==
    LET h == Head(apQueue).thread
        d == target[h].data
        w == writers[d]
    IN  /\ Takes("wait")
        /\ apQueue' = Tail(apQueue)
        /\ writers' = IF d \in Objects THEN [writers EXCEPT ![d] = None] ELSE writers
        /\ \/ /\ w = None
              /\ Return({h})
              /\ UNCHANGED waitedTasks
           \/ /\ w # None
              /\ IF status[w] = "FINISHED"
                 THEN Return({h}) /\ UNCHANGED waitedTasks
                 ELSE /\ waitedTasks' = [waitedTasks EXCEPT ![w] = @ \cup {h}]
                      /\ UNCHANGED callVars
        /\ UNCHANGED <<nextTask, tdQueue, taskVars, stateVars, execVars, countVars,
                       halt, producer, needs, ended>>

\* ErrorManager.error stops the runtime and exits from a thread of its own: the AP
\* may treat more requests before its queue yields the ShutdownRequest. A thread
\* that goes on until the exit sends requests that nobody takes.
Shutdown ==
    /\ halt = "requested"
    /\ halt' = "done"
    /\ UNCHANGED <<threadVars, apQueue, tdQueue, taskVars, stateVars, execVars, writers,
                   countVars, waitedTasks, historyVars, ended>>

-----------------------------------------------------------------------------
(* The TD thread *)

\* ExecuteTasksRequest and the constructor of ExecutionAction: an execution
\* waits for the executions of the predecessors that are pending now.
SubmitExecutions ==
    LET t == Head(tdQueue)
    IN  /\ halt # "done"
        /\ tdQueue # << >>
        /\ tdQueue' = Tail(tdQueue)
        /\ status' = [status EXCEPT ![t] = "TO_EXECUTE"]
        /\ executionCount' = [executionCount EXCEPT ![t] = Executions[t]]
        /\ pending' = [pending EXCEPT ![t] = Executions[t]]
        /\ waitsFor' = [waitsFor EXCEPT ![t] = {p \in predecessors[t] : pending[p] > 0}]
        /\ UNCHANGED <<threadVars, apQueue, taskVars, running, failed, writers, countVars,
                       waitedTasks, halt, historyVars, ended>>

\* AllocatableAction.tryToLaunch: only without data predecessors.
StartExecution(t) ==
    /\ halt # "done"
    /\ running[t] < pending[t]
    /\ waitsFor[t] = {}
    /\ running' = [running EXCEPT ![t] = @ + 1]
    /\ UNCHANGED <<threadVars, apQueue, tdQueue, taskVars, stateVars, pending, waitsFor,
                   failed, writers, countVars, waitedTasks, halt, historyVars, ended>>

\* Mutant: a failure is not notified.
EndExecutionSilently(t, result) ==
    /\ halt # "done"
    /\ running[t] > 0
    /\ running' = [running EXCEPT ![t] = @ - 1]
    /\ pending' = [pending EXCEPT ![t] = @ - 1]
    /\ executionCount' = [executionCount EXCEPT ![t] = @ - 1]
    /\ status' = [status EXCEPT ![t] = result]
    /\ apQueue' = IF result = "FAILED" THEN apQueue
                  ELSE Append(apQueue, Request("end", t, None))
    /\ UNCHANGED <<threadVars, tdQueue, taskVars, writers, countVars, waitedTasks, halt,
                   historyVars, ended>>

\* The end of an execution, notified to the AP: ExecutionAction.doCompleted and
\* doFailed. It is the last one that leaves its status in the task.
EndExecution(t, result) ==
    /\ halt # "done"
    /\ running[t] > 0
    /\ running' = [running EXCEPT ![t] = @ - 1]
    /\ pending' = [pending EXCEPT ![t] = @ - 1]
    /\ executionCount' = [executionCount EXCEPT ![t] = @ - 1]
    /\ status' = [status EXCEPT ![t] = result]
    /\ apQueue' = Append(apQueue, Request("end", t, None))
    /\ UNCHANGED <<threadVars, tdQueue, taskVars, writers, countVars, waitedTasks, halt,
                   historyVars, ended>>

\* The executions that wait for a task start when its last one completes; those
\* that wait for a failed one never do.
CompleteExecution(t) ==
    /\ EndExecution(t, "FINISHED")
    /\ waitsFor' = IF pending[t] = 1 /\ t \notin failed
                   THEN [u \in Tasks |-> waitsFor[u] \ {t}] ELSE waitsFor
    /\ UNCHANGED failed

FailExecution(t) ==
    /\ EndExecution(t, "FAILED")
    /\ failed' = failed \cup {t}
    /\ UNCHANGED waitsFor

-----------------------------------------------------------------------------
ThreadStep(h) ==
    \/ \E sig \in Signatures : ExecuteTask(h, sig)
    \/ Barrier(h)
    \/ NoMoreTasks(h)
    \/ \E d \in Data, m \in Modes : MainAccess(h, d, m)
    \/ WaitForTask(h)

APStep ==
    \/ ProcessTask
    \/ EndTask
    \/ BarrierRequest
    \/ EndOfAppRequest
    \/ RegisterDataAccess
    \/ FindWaitedTask

Next ==
    \/ \E h \in Threads : ThreadStep(h)
    \/ APStep
    \/ Shutdown
    \/ SubmitExecutions
    \/ \E t \in Tasks : StartExecution(t)
    \/ \E t \in Tasks : CompleteExecution(t)
    \/ \E t \in Tasks : FailExecution(t)

Spec == Init /\ [][Next]_vars

\* The AP and the TD are threads that loop over blocking queues, executions end
\* (a worker that does not answer is not part of this module), and a thread that
\* has its access registered goes on to wait. Programs promise nothing else.
Fairness ==
    /\ WF_vars(APStep)
    /\ WF_vars(SubmitExecutions)
    /\ WF_vars(Shutdown)
    /\ \A h \in Threads : WF_vars(WaitForTask(h))
    /\ \A t \in Tasks : WF_vars(StartExecution(t))
    /\ \A t \in Tasks : WF_vars(CompleteExecution(t) \/ FailExecution(t))

FairSpec == Spec /\ Fairness

-----------------------------------------------------------------------------
(* Properties *)

States   == {"TO_ANALYSE", "TO_EXECUTE", "FINISHED", "FAILED"}
Blocking == {"barrier", "endOfApp", "register", "wait"}
Requests == [type : {"analyse", "end"} \cup Blocking,
             task : Tasks \cup {None}, thread : Threads \cup {None}]

\* The types of the queues, of the Task objects and of the maps of TaskAnalyser: the
\* executions of a task never end more often than they were created, and the
\* predecessors and the last writers of the data are tasks.
TypeOK ==
    /\ pc \in [Threads -> {"running", "registered", "ended"} \cup Blocking]
    /\ target \in [Threads -> [data : Data, mode : Modes] \cup {NoTarget}]
    /\ nextTask \in 1 .. NumTasks + 1
    /\ apQueue \in Seq(Requests)
    /\ tdQueue \in Seq(Tasks)
    /\ owner \in [Tasks -> Threads \cup {None}]
    /\ signature \in [Tasks -> [Data -> Modes \cup {"none"}]]
    /\ status \in [Tasks -> States]
    /\ executionCount \in [Tasks -> Nat]
    /\ predecessors \in [Tasks -> SUBSET Tasks]
    /\ pending \in [Tasks -> Nat]
    /\ running \in [Tasks -> Nat]
    /\ waitsFor \in [Tasks -> SUBSET Tasks]
    /\ failed \in SUBSET Tasks
    /\ writers \in [Data -> Tasks \cup {None}]
    /\ taskCount \in [Apps -> Int]
    /\ counted \in SUBSET Apps
    /\ semaphore \in [Apps -> Threads \cup {None}]
    /\ barrierFlags \in SUBSET Apps
    /\ waitedTasks \in [Tasks -> SUBSET Threads]
    /\ halt \in {"no", "requested", "done"}
    /\ producer \in [Data -> Tasks \cup {None}]
    /\ needs \in [Tasks -> SUBSET Tasks]
    /\ mainNeeds \in [Threads -> SUBSET Tasks]
    /\ ended \in [Tasks -> Nat]

InQueue(q, x) == \E i \in 1 .. Len(q) : q[i] = x

\* All the executions of the task have ended; all of them have, with success.
Done(t) == pending[t] = 0 /\ status[t] \in {"FINISHED", "FAILED"}
Finished(t) == pending[t] = 0 /\ status[t] = "FINISHED"

\* An execution starts only when every task that produces a version it reads has
\* ended, although the dependencies are kept in three places that three threads
\* change (the writers of the AP, the predecessors of the task, the predecessors
\* of its executions).
DependenciesRespected ==
    \A t \in Tasks : running[t] > 0 => \A p \in needs[t] : Done(p)

\* An execution that starts with an input that was never produced, because the
\* producer failed before the execution was created, does so in a runtime that is
\* going to stop: the AP has the failure in its queue, or has treated it.
FailuresStopTheRuntime ==
    \A p \in failed : halt # "no" \/ InQueue(apQueue, Request("end", p, None))

Unended(a) ==
    {t \in Tasks : /\ owner[t] # None
                   /\ AppOf[owner[t]] = a
                   /\ ended[t] = 0
                   /\ ~ InQueue(apQueue, Request("analyse", t, owner[t]))}

\* appIdToTaskCount is the number of tasks of the application that have been
\* analysed and whose end has not been treated, and the end of a task is treated once:
\* its versions are not released twice either.
CountExact ==
    /\ \A a \in Apps : taskCount[a] = Cardinality(Unended(a))
    /\ \A t \in Tasks : ended[t] <= 1

\* A thread that is blocked is never forgotten: its request is on its way, or its
\* semaphore is kept for a task whose end has still to be treated.
NoLostWakeup ==
    \A h \in Threads :
        /\ pc[h] \in {"barrier", "endOfApp"} =>
              \/ InQueue(apQueue, Request(pc[h], None, h))
              \/ semaphore[AppOf[h]] = h /\ Unended(AppOf[h]) # {}
        /\ pc[h] = "wait" =>
              \/ InQueue(apQueue, Request("wait", None, h))
              \/ \E t \in Tasks : h \in waitedTasks[t] /\ ended[t] = 0

\* barrier and noMoreTasks release a thread only if all its tasks have finished.
BarrierWaitsForTasks ==
    [][\A h \in Threads :
          /\ pc[h] \in {"barrier", "endOfApp"}
          /\ pc'[h] \in {"running", "ended"}
          => \A t \in Tasks : owner[t] = h => Finished(t)]_vars

\* Every blocked thread is eventually released, unless a task fails and the
\* runtime stops.
ThreadsReleased ==
    \A h \in Threads : pc[h] \in Blocking ~> (pc[h] \notin Blocking \/ halt = "done")
=============================================================================
