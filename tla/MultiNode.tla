----------------------------- MODULE MultiNode -----------------------------
(***************************************************************************)
(* Multi-node tasks (MPI, Decaf): a task with several computing nodes has   *)
(* one execution per node (MultiNodeExecutionAction), which the scheduler   *)
(* places one by one. As they get their resources they register in their    *)
(* MultiNodeGroup. The last one becomes the master: it alone has a job,     *)
(* which runs on the nodes of all. The others, the slaves, only hold their  *)
(* resources until the master tells them how the job ended.                 *)
(*                                                                         *)
(* The Task Dispatcher (TD) treats one request after the other; the thread  *)
(* that is told of the end of a job adds one request for each slave and     *)
(* then one for the master, while the TD is already treating them, so that  *)
(* a retry may cut it short; the Access Processor (AP) reads the Task       *)
(* object when it treats its end.                                           *)
(*                                                                         *)
(* Executions need one unit of a worker and have no data dependencies or    *)
(* priorities (see Scheduler); transfers and resubmissions of a job to the  *)
(* same worker are part of its run (see JobExecution). Tasks that are       *)
(* replicated on all the workers are not part of this module.               *)
(***************************************************************************)
EXTENDS Integers, Sequences, FiniteSets, FiniteSetsExt

CONSTANTS
    NumTasks,            \* bound: tasks, submitted in the order 1 .. NumTasks
    Size,                \* computing nodes of a task; 1 for a plain execution
    Workers,
    Capacity,            \* executions that a worker runs at the same time
    SCHEDULING_CHANCES,  \* workers that an execution is tried on
    MaxErrors,           \* bound: errors of jobs
    None                 \* no worker, no execution

Tasks == 1 .. NumTasks

ASSUME SizeAssumption == NumTasks \in Nat /\ Size \in [Tasks -> Nat \ {0}]
ASSUME CapacityAssumption == IsFiniteSet(Workers) /\ Capacity \in [Workers -> Nat \ {0}]
ASSUME ErrorsAssumption == SCHEDULING_CHANCES \in Nat \ {0} /\ MaxErrors \in Nat
ASSUME ChancesAssumption == SCHEDULING_CHANCES <= Cardinality(Workers)

Actions    == UNION {{t} \X (1 .. Size[t]) : t \in Tasks}
TaskOf(a)  == a[1]
Members(t) == {a \in Actions : TaskOf(a) = t}

ASSUME NoneAssumption == None \notin Actions \cup Workers

MASTER_GROUP_ID == 1
UNASSIGNED_ID   == -1

VARIABLES
    state,           \* State of an action; "NEW" before it is submitted
    resource,        \* selectedResource
    executing,       \* executingResources: where execute launched the action
    free,            \* units of a worker that are not in use
    waiting,         \* ResourceScheduler.blocked
    multiNodeId,     \* identifier of an action in its group
    nextProcessId,   \* of the group of a task
    slaves,          \* registeredSlaves of the group of a task
    job,             \* the action whose job runs for a task
    callback,        \* what the thread that was told of the end of a job has to do
    tdQueue,         \* ActionUpdate requests for the TD
    status,          \* of the Task object
    executionCount,  \* of the Task object
    notices,         \* TaskEndNotifications for the AP, of a task
    ended,           \* how often the AP has treated the end of a task
    halted,          \* a task has failed for good: ErrorManager stops the runtime
    errors,          \* errors so far
    erred            \* history: tasks whose job has raised an error

schedVars == <<state, resource, executing, free, waiting>>
groupVars == <<multiNodeId, nextProcessId, slaves>>
taskVars  == <<status, executionCount, notices>>
vars == <<schedVars, groupVars, taskVars, job, callback, tdQueue, ended, halted, errors, erred>>

NoCallback == [kind |-> "none", left |-> {}, master |-> None]

Init ==
    /\ state = [a \in Actions |-> "NEW"]
    /\ resource = [a \in Actions |-> None]
    /\ executing = [a \in Actions |-> {}]
    /\ free = Capacity
    /\ waiting = [w \in Workers |-> {}]
    /\ multiNodeId = [a \in Actions |-> UNASSIGNED_ID]
    /\ nextProcessId = Size
    /\ slaves = [t \in Tasks |-> {}]
    /\ job = [t \in Tasks |-> None]
    /\ callback = [t \in Tasks |-> NoCallback]
    /\ tdQueue = << >>
    /\ status = [t \in Tasks |-> "TO_ANALYSE"]
    /\ executionCount = [t \in Tasks |-> 0]
    /\ notices = [t \in Tasks |-> 0]
    /\ ended = [t \in Tasks |-> 0]
    /\ halted = FALSE
    /\ errors = 0
    /\ erred = {}

-----------------------------------------------------------------------------
(* Launching executions *)

Multi(t) == Size[t] > 1

\* A plain ExecutionAction does by itself what a master does.
IsMaster(a) == ~ Multi(TaskOf(a)) \/ multiNodeId[a] = MASTER_GROUP_ID

\* The actions that a step launches, one after the other: the domain of order, which gives
\* the position of each.
EarlierInGroup(order, a) ==
    Cardinality({b \in DOMAIN order : TaskOf(b) = TaskOf(a) /\ order[b] < order[a]})

\* A mutant: the identifiers count up, as far as the size of the group.
RegisteredIdUpwards(order, a) ==
    LET t == TaskOf(a) IN Size[t] + 1 - (nextProcessId[t] - EarlierInGroup(order, a))

\* registerProcess: the identifiers count down.
RegisteredId(order, a) == nextProcessId[TaskOf(a)] - EarlierInGroup(order, a)

\* doAction of the actions of order: a member of a group registers, and the one that
\* becomes the master, or a plain execution, has its job submitted.
DoAction(order) ==
    LET Launched(t)   == {a \in DOMAIN order : TaskOf(a) = t}
        Id(a)         == IF Multi(TaskOf(a)) THEN RegisteredId(order, a) ELSE MASTER_GROUP_ID
        NewMasters(t) == {a \in Launched(t) : Id(a) = MASTER_GROUP_ID}
    IN  /\ multiNodeId' = [a \in Actions |-> IF Multi(TaskOf(a)) /\ a \in DOMAIN order
                                             THEN Id(a) ELSE multiNodeId[a]]
        /\ nextProcessId' = [t \in Tasks |-> nextProcessId[t] -
                                IF Multi(t) THEN Cardinality(Launched(t)) ELSE 0]
        /\ slaves' = [t \in Tasks |-> slaves[t] \cup (Launched(t) \ NewMasters(t))]
        /\ job' = [t \in Tasks |-> IF NewMasters(t) # {} THEN CHOOSE a \in NewMasters(t) : TRUE
                                   ELSE job[t]]

\* ExecuteTasksRequest: the executions of a task are created and scheduled one after
\* the other, each on any worker. On a worker where nothing waits they run as long as
\* there are free units; the rest waits there.
SubmitTask(t, choice) ==
    LET Earlier(i) == {j \in 1 .. i - 1 : choice[j] = choice[i]}
        runs == {i \in 1 .. Size[t] : /\ waiting[choice[i]] = {}
                                      /\ Cardinality(Earlier(i)) < free[choice[i]]}
        On(S, w) == {<<t, i>> : i \in {j \in S : choice[j] = w}}
        rest == (1 .. Size[t]) \ runs
    IN  /\ status[t] = "TO_ANALYSE"
        /\ \A u \in Tasks : u < t => status[u] # "TO_ANALYSE"
        /\ status' = [status EXCEPT ![t] = "TO_EXECUTE"]
        /\ executionCount' = [executionCount EXCEPT ![t] = Size[t]]
        /\ state' = [a \in Actions |-> IF TaskOf(a) # t THEN state[a]
                                       ELSE IF a[2] \in runs THEN "RUNNING" ELSE "WAITING"]
        /\ resource' = [a \in Actions |-> IF TaskOf(a) = t THEN choice[a[2]] ELSE resource[a]]
        /\ executing' = [a \in Actions |-> IF TaskOf(a) = t /\ a[2] \in runs THEN {choice[a[2]]}
                                           ELSE executing[a]]
        /\ free' = [w \in Workers |-> free[w] - Cardinality(On(runs, w))]
        /\ waiting' = [w \in Workers |-> waiting[w] \cup On(rest, w)]
        /\ DoAction([a \in {<<t, i>> : i \in runs} |-> a[2]])
        /\ UNCHANGED <<notices, callback, tdQueue, ended, halted, errors, erred>>

-----------------------------------------------------------------------------
(* The end of a job *)

\* A mutant: the master is the first that is told.
EndOfJobMasterFirst(t, kind) ==
    /\ tdQueue' = Append(tdQueue, [kind |-> kind, action |-> job[t]])
    /\ callback' = [callback EXCEPT ![t] = [kind |-> kind, left |-> slaves[t], master |-> None]]

EndOfJob(t, kind) ==
    /\ callback' = [callback EXCEPT ![t] = [kind |-> kind, left |-> slaves[t], master |-> job[t]]]
    /\ UNCHANGED tdQueue

\* The job of a task ends: notifyCompleted or notifyError of the master starts.
JobCompleted(t) ==
    /\ job[t] # None
    /\ EndOfJob(t, "COMPLETED")
    /\ job' = [job EXCEPT ![t] = None]
    /\ UNCHANGED <<schedVars, groupVars, taskVars, ended, halted, errors, erred>>

JobError(t) ==
    /\ job[t] # None
    /\ errors < MaxErrors
    /\ errors' = errors + 1
    /\ erred' = erred \cup {t}
    /\ EndOfJob(t, "ERROR")
    /\ job' = [job EXCEPT ![t] = None]
    /\ UNCHANGED <<schedVars, groupVars, taskVars, ended, halted>>

\* MultiNodeGroup.actionError goes through the live map registeredSlaves: when an execution
\* of the group that the TD has scheduled again registers meanwhile, the next step of the
\* iteration may throw a ConcurrentModificationException, and the thread stops there.
MayBeCut(t) == IF nextProcessId[t] < 0 THEN BOOLEAN ELSE {FALSE}

\* actionCompletion, actionError: the thread adds the request of one slave for the TD, or is
\* cut short.
NotifySlave(t) ==
    \E s \in callback[t].left, cut \in MayBeCut(t) :
        /\ tdQueue' = IF cut THEN tdQueue
                      ELSE Append(tdQueue, [kind |-> callback[t].kind, action |-> s])
        /\ callback' = IF cut THEN [callback EXCEPT ![t] = NoCallback]
                       ELSE [callback EXCEPT ![t].left = @ \ {s}]
        /\ UNCHANGED <<schedVars, groupVars, taskVars, job, ended, halted, errors, erred>>

\* The last request is the one of the master.
NotifyMaster(t) ==
    /\ callback[t].left = {} /\ callback[t].master # None
    /\ tdQueue' = Append(tdQueue, [kind |-> callback[t].kind, action |-> callback[t].master])
    /\ callback' = [callback EXCEPT ![t] = NoCallback]
    /\ UNCHANGED <<schedVars, groupVars, taskVars, job, ended, halted, errors, erred>>

-----------------------------------------------------------------------------
(* Requests of the TD *)

Treats(kind) ==
    /\ tdQueue # << >>
    /\ Head(tdQueue).kind = kind
    /\ tdQueue' = Tail(tdQueue)

\* releaseResources and tryToLaunchBlockedActions: one of the actions that wait on the
\* worker, if any, takes the unit of the action that ended.
Resumed(a) ==
    IF waiting[resource[a]] = {} THEN {{}} ELSE {{b} : b \in waiting[resource[a]]}

\* The units, the queues and the states after the end of a, those of r being resumed.
FreeAfter(a, r) == IF r = {} THEN [free EXCEPT ![resource[a]] = @ + 1] ELSE free

\* A mutant: an action that is resumed stays in the queue.
WaitingKept(a, r) == waiting

WaitingAfter(a, r) == [waiting EXCEPT ![resource[a]] = @ \ r]

StateAfter(a, r, st) ==
    [x \in Actions |-> IF x = a THEN st ELSE IF x \in r THEN "RUNNING" ELSE state[x]]

\* A mutant: a slave does not count down.
NotifyEndOfMaster(a, st) ==
    /\ executionCount' = [executionCount EXCEPT ![TaskOf(a)] = IF IsMaster(a) THEN @ - 1 ELSE @]
    /\ status' = [status EXCEPT ![TaskOf(a)] = IF IsMaster(a) THEN st ELSE @]
    /\ notices' = [notices EXCEPT ![TaskOf(a)] = IF IsMaster(a) THEN @ + 1 ELSE @]

\* doCompleted and doFailed: only a master notifies the AP, a slave counts down.
NotifyEnd(a, st) ==
    /\ executionCount' = [executionCount EXCEPT ![TaskOf(a)] = @ - 1]
    /\ status' = [status EXCEPT ![TaskOf(a)] = IF IsMaster(a) \/ st = "FAILED" THEN st ELSE @]
    /\ notices' = [notices EXCEPT ![TaskOf(a)] = IF IsMaster(a) THEN @ + 1 ELSE @]

\* actionCompleted.
ActionCompleted ==
    LET a == Head(tdQueue).action
    IN  /\ Treats("COMPLETED")
        /\ NotifyEnd(a, "FINISHED")
        /\ \E r \in Resumed(a) :
              /\ state' = StateAfter(a, r, "FINISHED")
              /\ free' = FreeAfter(a, r)
              /\ waiting' = WaitingAfter(a, r)
              /\ DoAction([b \in r |-> 1])
        /\ UNCHANGED <<resource, executing, callback, ended, halted, errors, erred>>

\* errorOnAction of an action that doError lets try again, on a worker where execute
\* has not launched it. There is one, by ChancesAssumption; an action without one is
\* blocked, which Scheduler models.
RetryAction ==
    LET a == Head(tdQueue).action
    IN  /\ Treats("ERROR")
        /\ Cardinality(executing[a]) < SCHEDULING_CHANCES
        /\ \E r \in Resumed(a), w \in Workers \ executing[a] :
              LET fr  == FreeAfter(a, r)
                  wt  == WaitingAfter(a, r)
                  now == wt[w] = {} /\ fr[w] > 0
              IN  /\ resource' = [resource EXCEPT ![a] = w]
                  /\ state' = StateAfter(a, r, IF now THEN "RUNNING" ELSE "WAITING")
                  /\ executing' = [executing EXCEPT ![a] = @ \cup IF now THEN {w} ELSE {}]
                  /\ free' = [fr EXCEPT ![w] = @ - IF now THEN 1 ELSE 0]
                  /\ waiting' = [wt EXCEPT ![w] = @ \cup IF now THEN {} ELSE {a}]
                  /\ DoAction([b \in r \cup (IF now THEN {a} ELSE {}) |-> IF b = a THEN 2 ELSE 1])
        /\ UNCHANGED <<taskVars, callback, ended, halted, errors, erred>>

\* errorOnAction of an action that has had its chances.
FailAction ==
    LET a == Head(tdQueue).action
    IN  /\ Treats("ERROR")
        /\ Cardinality(executing[a]) >= SCHEDULING_CHANCES
        /\ NotifyEnd(a, "FAILED")
        /\ \E r \in Resumed(a) :
              /\ state' = StateAfter(a, r, "FAILED")
              /\ free' = FreeAfter(a, r)
              /\ waiting' = WaitingAfter(a, r)
              /\ DoAction([b \in r |-> 1])
        /\ UNCHANGED <<resource, executing, callback, ended, halted, errors, erred>>

\* TaskAnalyser.endTask: nothing happens while the task has other executions; a failed
\* task stops the runtime.
EndTask(t) ==
    /\ notices[t] > 0
    /\ notices' = [notices EXCEPT ![t] = @ - 1]
    /\ ended' = [ended EXCEPT ![t] = IF executionCount[t] = 0 /\ status[t] = "FINISHED"
                                     THEN @ + 1 ELSE @]
    /\ halted' = (halted \/ (executionCount[t] = 0 /\ status[t] = "FAILED"))
    /\ UNCHANGED <<schedVars, groupVars, status, executionCount, job, callback, tdQueue, errors, erred>>

-----------------------------------------------------------------------------
TDStep == ActionCompleted \/ RetryAction \/ FailAction

Next ==
    \/ \E t \in Tasks : \E choice \in [1 .. Size[t] -> Workers] : SubmitTask(t, choice)
    \/ \E t \in Tasks : JobCompleted(t)
    \/ \E t \in Tasks : JobError(t)
    \/ \E t \in Tasks : NotifySlave(t)
    \/ \E t \in Tasks : NotifyMaster(t)
    \/ TDStep
    \/ \E t \in Tasks : EndTask(t)

Spec == Init /\ [][Next]_vars

\* The TD and the AP take the requests of their queues, a job ends, and the thread that
\* is told of its end goes on. Nothing promises that tasks are submitted.
Fairness ==
    /\ WF_vars(TDStep)
    /\ WF_vars(\E t \in Tasks : EndTask(t))
    /\ \A t \in Tasks : /\ WF_vars(JobCompleted(t) \/ JobError(t))
                        /\ WF_vars(NotifySlave(t) \/ NotifyMaster(t))

FairSpec == Spec /\ Fairness

-----------------------------------------------------------------------------
(* Properties *)

\* The types of the groups, of the executions and of the Task objects: the units of a
\* worker and the count of executions of a task never become negative, and the
\* identifiers of a group go at most once more below its master.
TypeOK ==
    /\ state \in [Actions -> {"NEW", "RUNNABLE", "WAITING", "RUNNING", "FINISHED", "FAILED"}]
    /\ resource \in [Actions -> Workers \cup {None}]
    /\ executing \in [Actions -> SUBSET Workers]
    /\ free \in [Workers -> Nat]
    /\ waiting \in [Workers -> SUBSET Actions]
    /\ \A a \in Actions : multiNodeId[a] \in 1 - Size[TaskOf(a)] .. Size[TaskOf(a)] \cup {UNASSIGNED_ID}
    /\ \A t \in Tasks : nextProcessId[t] \in - Size[t] .. Size[t]
    /\ slaves \in [Tasks -> SUBSET Actions]
    /\ job \in [Tasks -> Actions \cup {None}]
    /\ callback \in [Tasks -> [kind : {"none", "COMPLETED", "ERROR"}, left : SUBSET Actions,
                               master : Actions \cup {None}]]
    /\ tdQueue \in Seq([kind : {"COMPLETED", "ERROR"}, action : Actions])
    /\ status \in [Tasks -> {"TO_ANALYSE", "TO_EXECUTE", "FINISHED", "FAILED"}]
    /\ executionCount \in [Tasks -> Nat] /\ notices \in [Tasks -> Nat] /\ ended \in [Tasks -> Nat]
    /\ halted \in BOOLEAN /\ errors \in 0 .. MaxErrors /\ erred \in SUBSET Tasks

\* A job runs only when every node of its task is held: all the executions of the group
\* run, each under its own identifier, and those that are not the master are its slaves,
\* whose workers submitJob passes to the job.
JobHasItsNodes ==
    \A t \in Tasks : job[t] # None =>
        /\ \A a \in Members(t) : state[a] = "RUNNING"
        /\ Multi(t) => /\ {multiNodeId[a] : a \in Members(t)} = 1 .. Size[t]
                       /\ slaves[t] = Members(t) \ {job[t]}

\* The AP is told of the end of a multi-node task once, when no execution of it is left:
\* the requests of the slaves are before the one of the master, whatever the TD resumes
\* meanwhile. A notification that came too early would be dropped as "not registered as
\* free", and the task would never end.
EndsWhenFree ==
    \A t \in Tasks :
        /\ notices[t] + ended[t] <= 1
        /\ notices[t] > 0 \/ ended[t] > 0 => /\ executionCount[t] = 0
                                              /\ \A a \in Members(t) : state[a] \in {"FINISHED", "FAILED"}

\* A group that waits for its master holds all its other units. If they do not fill a
\* worker, whatever the groups, there is a unit left for the last one.
EnoughSlots ==
    \A w \in Workers : Capacity[w] > MapThenSumSet(LAMBDA t : Size[t] - 1, Tasks)

\* With enough units the groups do not wait for each other for ever: every task that is
\* submitted ends, unless a task fails and the runtime stops, or the job of a group
\* raises an error. The executions of a group that are scheduled again register under
\* identifiers below the one of the master: all are slaves, and the group waits for ever.
TasksEnd ==
    \A t \in Tasks :
        (status[t] = "TO_EXECUTE" /\ EnoughSlots) ~>
            (ended[t] = 1 \/ halted \/ \E g \in erred : Multi(g))
=============================================================================
