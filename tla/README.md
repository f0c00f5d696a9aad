# A TLA+ model of the COMPSs runtime

COMPSs runs sequential programs in parallel: calls to some methods become
*tasks*, the runtime finds the data dependencies between them and executes them
on remote workers, while the main program goes on and only blocks when it needs
a result. This project models the core of the runtime: on the master
(`src/compss/runtime`), the part that decides when a task may run, which version
of a datum it reads, where and how often it is tried, and when the main program
may continue; on a worker, the persistent C worker (`src/compss/runtime/adaptors/nio`
and `src/compss/programming_model/bindings/c`), which executes the tasks of C and C++
programs and keeps their objects in memory.

Paths below are relative to `src/compss/`; Java packages are shortened.

## The system

| Component | State | Operations | Interacts through |
|---|---|---|---|
| `COMPSsRuntimeImpl` (engine) | identifiers | `executeTask`, `barrier`, `noMoreTasks`, `openFile`, `closeFile`, `deleteFile`, `getObject` | requests to the Access Processor; blocks on semaphores |
| `AccessProcessor` (AP) | one queue, one thread | one `process` per request, in order of arrival | calls `TaskAnalyser`, `DataInfoProvider`, `TaskDispatcher` |
| `TaskAnalyser` | last writer of each datum, task count, semaphore and barrier flag of each application, waited tasks | `processTask`, `endTask`, `findWaitedTask`, `barrier`, `noMoreTasks` | `Task` objects shared with the TD |
| `DataInfoProvider`, `DataInfo`, `DataVersion` | versions of each datum with readers, writers, deletion marks, blocks, deferred deletions | `willAccess`, `dataHasBeenAccessed`, `finishFileAccess`, `deleteData`, `blockDataAndGetResultFile`, `unblockDataId` | registers and removes the data in `Comm` |
| `TaskDispatcher` (TD) | one queue, one thread | `ExecuteTasksRequest`, completions and errors of executions, updates of workers | calls the scheduler; notifies the AP |
| `ExecutionAction`, `AllocatableAction` | state, worker, predecessors and successors, workers tried | `tryToLaunch`, `completed`, `error`, `failed` | with its `Task` and its `ResourceScheduler` |
| `TaskScheduler`, `ResourceScheduler` | workers, blocked executions, ready counts; running and waiting executions of a worker | `newAllocatableAction`, `actionCompleted`, `errorOnAction`, `updateWorker` | `ResourceOptimizer` reads the ready counts |
| schedulers on top of it (ready, fifo, lifo, data, load balancing, full graph, multi-objective) | unassigned executions, plans | the same, refined | |
| `ResourceManager`, `CloudManager`, `ResourceOptimizer` | pool of workers, cloud instances | creation and destruction of resources | updates of workers to the TD |
| `JobTransfersListener`, `ImmediateCopy`, `DataOperation`, `LogicalData`, `JobDispatcher` | open transfers and errors of a launch, copies in progress and their listeners, locations of data, jobs to submit | order the transfers, perform or join a copy, call back, submit, resubmit | threads of a pool that continue in `ExecutionAction` |
| `MultiNodeGroup`, `MultiNodeExecutionAction` | next identifier, slaves and master of a group | register, notify slaves and master | requests to the TD |
| NIO worker: `JobsThreadPool`, `ExternalExecutor`, `TaskResultReader`, `bindings_piper.sh`, `persistent_worker_c.cc` | queue of jobs, results and waiters of a reader, named pipes | execute a job, read a result, stop | one pipe to, and one pipe from, each compute thread |
| object cache: code generated by `compssgen`, `NIOWorker`, `CThreadPool` | objects by version, files of the working directory | treat an argument, `removeData`, `serializeData`, transfers, obsolete data | a map under a lock; a data pipe; files |
| loader, bindings of the main program, storage, agent, monitor, tracing, adaptors' connections | | | front ends, external libraries and output |

What is hard here is that *three* kinds of threads (application, AP, TD) share
objects and exchange requests through queues, so that the decisions of one are
based on what another one knew some requests ago:

* a dependency is kept in three places in turn: the last writers (AP), the
  predecessors of the `Task` (written by the AP, read by the TD), the data
  predecessors of the execution (TD);
* the end of a task is decided by the AP from counters that the TD changes;
* a thread sends two requests for one access, and others come in between;
* the versions of a datum are reference counted by requests of tasks, of the
  main program and of result transfers, in any order, with deletions between;
* an execution can be launched, resumed, retried on another worker, blocked
  until a worker joins, or failed together with those that depend on it;
* the transfers of a launch end in other threads, before or after the thread that
  ordered them has finished ordering, and may be shared with other executions;
* the executions of a group hold their units while they wait for each other;
* the two sides of a named pipe open and close it for every message, and the kernel
  drops what is unread when the last end closes;
* the compute threads share objects, and the master decides from reference counts
  which of them may be changed in place, or deleted.

`PROJECT.json` lists these hazards at the lines where they bite, with the
properties that cover each of them, and every component, modelled or not.

## Modules

### DataInfo: the versions of a file

`di` is the Java object `DataInfo` with its `DataVersion`s; the methods are
operators from one such record to the next (`WillBeRead`,
`VersionHasBeenWritten`, `Delete`, `UnblockDeletions`, ...), and a request is
their composition. `di.exc` says that the last request was left by an exception
(a version that is no longer in the map is dereferenced): `AccessProcessor.run`
logs it and goes on, and the rest of the handler is skipped. The other variables
are what the users of the file hold: the access of each task parameter and of
the main program (`held`, `open`), the version that the result transfer of an
application copies (`transfer`), whether the program deleted the file, and the version
that the last analysed writer writes (`lastWritten`, for the entry of the file in
`TaskAnalyser.writers`, which accesses of the main program do not change).

Actions: a parameter is analysed (`ProcessParam`) and its task ends (`EndTask`,
with the result transfer after the end of the application), the main program
opens and closes the file, deletes it, and applications retrieve and unblock it.

`Rules` are the usage rules that the programs respect. The code relies on them
and does not check them:

* `exclusive_open`: while the main program has the file open, a task may only read
  it, and only if the open registered an access of the main program, which it does
  not do before the first access of a task. Without the rule, closing the file ends an
  access to another version, because `finishFileAccess` computes the access from the
  version that is current when the file is closed, or an access that was never
  registered.
* `no_read_after_delete`: a deleted file is written before it is read again
  (`DeleteFileRequest` says that a deleted file is not expected to be used).
* `deferred_delete_is_last`: a file that is deleted while its result is being
  transferred is neither used nor deleted again. `pendingDeletions` is never
  cleared, so that a second round goes over versions that are gone.
* `no_delete_of_pending_result`: a file is not deleted between `noMoreTasks`
  and the end of its last writer. `checkResultFileTransfer` unblocks
  unconditionally, also what was not blocked.

The copy that `checkResultFileTransfer` orders when the last writer ends after
`noMoreTasks` is not in `transfer`: the file is unblocked as soon as the copy is ordered,
so that a deletion may remove the version while it is copied. No property speaks of that
copy.

Objects use the same counts. PSCOs, external objects and the renamings of the
versions are left out.

### TaskAnalyser: the life of a task

The threads of applications (`pc`, `target`), the queues of the AP and of the
TD, the shared `Task` objects (`status`, `executionCount`, `predecessors`), the
executions (`pending`, `running`, `waitsFor`, `failed`) and the maps of
`TaskAnalyser` (`writers`, `taskCount` with `counted` for the keys of
`appIdToTaskCount`, `semaphore`, `barrierFlags`, `waitedTasks`). The history
variables `producer`, `needs`, `mainNeeds` and `ended` record who really writes
the version that is read, independently of `writers`.

An action is one request for the AP or the TD, one call for a thread, one start
or end of an execution. The AP reads the status and the count of a task when it
treats a notification, as the code does. `EndTask` on a failed task asks for the
shutdown, which `ErrorManager` carries out in a thread of its own (`Shutdown`).

Abstractions. How a worker is chosen and how an execution is retried is left to
`Scheduler`: here an execution without predecessors starts, and completes or
fails for good. A datum is accessed by one parameter of a task, and a main access
always waits as if the value was not already in the memory of the main program
(the case in which `mainAcessToObject` and `mainAccessToFile` send both
requests). `EndExecution` is atomic, although the code decreases the count
before it sets the status; only replicated tasks can show the difference. The
executions that fail because a predecessor failed are not notified one by one:
the first failure stops the runtime. `TaskAnalyser.deleteFile` and the drawing of
the graph are left out.

Assumption on programs: a datum that a main program accesses is written by tasks of
its own thread only (`MainData`, `TaskData`). `mainAccessToFile` registers its access
in one request and waits in another; a task of another application in between
becomes the last writer, and the thread waits for that one instead.

### Dataflow and TaskAnalyserRefinement: what the runtime promises

`Dataflow` is the contract without queues, counters or semaphores. A task is created,
then ordered (in the order in which its thread created it), and reads of each datum
what the last task before it in that order writes; it starts when those producers have
ended. A call of a main program returns when what it waits for has finished.
`TaskAnalyserRefinement` maps `TaskAnalyser` to it: the phase of a task is read from
the queue of the AP (`created` while its analysis is there) and from its execution,
the call of a thread from its `pc`. A refinement step is a whole request of the AP;
everything else stutters. Tasks with two executions do not refine it (see
`replicated_tasks`).

### Scheduler: executions on workers

The state of `AllocatableAction` (`state`, `resource` for `selectedResource`,
`executing` for `executingResources`, `preds`, `succs`), of `ResourceScheduler`
(`waiting`, `free`) and of `TaskScheduler` (`workers`, `blockedActions`,
`readyCount`). Every action is a request of the TD, with everything it calls:
`ActionCompleted` releases the resources, resumes what waits on the worker,
releases the successors and launches them; `RetryAction` and `FailAction` are the
two outcomes of `errorOnAction`; `AddWorker` reconsiders the blocked executions.

`Launches` describes the loops that launch executions in the order of a queue
until one does not fit; equal priorities may go in any order, as in a Java
`PriorityQueue`. `execute` goes from the highest priority down (`ObjectValue.compareTo`),
the queue of a worker from the lowest up (`Score.compareTo`), so that an execution that
would fit may wait behind one that does not. `NoLostAction` therefore does not say that
nothing that waits would fit. It says that something in the queue does not, and that an
execution runs on the worker, whose end tries the queue again.
`FailAction` translates what the iteration over
`dataSuccessors` does while the elements remove themselves from the list. That list is
a set here: executions are numbered as they are submitted, so that its first element is
the least.

Abstractions. The choice of the worker by scores is free among the candidates.
Resources are one number. One core, so one ready count. Workers that shrink,
grow or leave, and executions that are constrained to the worker of another one,
are left out.

Two more things the module shows of the code: `resumeExecution`
does not record the worker (only `execute` does), so that an execution that was resumed
from a queue may be retried on the same worker; and an execution that is blocked while
it still has predecessors is taken from the ready count that it never entered. The run
`scheduler` starts from the large worker, where every execution has a candidate, so that
the second does not happen; with `InitialWorkers = {w2}`, the small one, `ReadyCountExact`
fails.

### JobExecution: transfers, submissions and retries of one launch

What happens while `Scheduler` calls an execution running. `action` are the fields of
`ExecutionAction`, `listener` those of the `JobTransfersListener` that
`doInputTransfers` creates for each round of transfers. `runner` is the thread that is
ordering transfers, `doing` the reaction (`doReady`, `doFailures`) that a thread runs
after it has left the lock of a listener. The copies follow `ImmediateCopy.perform`
step by step: found in place, joined to one in progress, or performed; then the
`finally` block, and the listeners one by one. `located` is what `LogicalData` says,
`present` is what is true. A retry of the transfers is run by the thread of the pool
that notified the last failure, in the middle of its notifications, as in the code.

Abstractions. Inputs that are read (`R`) are shared copies, those that are updated
(`RW`) are copies of their own. A launch chooses any worker; the choice and the units
are `Scheduler`'s. Output transfers and the NIO adaptor, whose copies are deferred to
the worker, are left out. A job completes only if what it reads is present.

### MultiNode: groups of executions

The executions of a multi-node task are placed one by one, register in their group as
they get their units, and the last one to register (identifier 1) is the master and
has the job. `DoAction` registers what one step launches in the order that it is given, a
function from executions to positions. `callback` is the thread that is told of the end of the job: it adds one
request per slave and then its own, while the TD treats them. The AP reads the count
and the status of the task when it treats the notification. Priorities, dependencies
and requirements are `Scheduler`'s; transfers are `JobExecution`'s.

`registeredSlaves` is a live map: the thread of the callback goes over it without a lock,
and an execution that the TD has scheduled again after the first error may register
meanwhile. The iteration may then end with an exception (`MayBeCut`), and the slaves that
are left are never told. This takes a group of three nodes, and the run has groups of two:
the cut is part of what is proved, for groups of any size.

Two limits of the code are part of the model and are left out of `TasksEnd`: groups
that compete for too few units wait for each other for ever (`EnoughSlots` says how many
are enough), and a group whose job raised an error registers again below
identifier 1, so that no execution is the master. Without the exception for groups in
`TasksEnd` the run finds the second one.

### Fifo and TaskPipes: executors of the persistent C worker

`Fifo` is a named pipe as the operating system implements it (external: modelled from
how both sides use it): opens that wait for the other end, reads that return all there
is or the end of file, writes that fail without a reader, and unread data that are
dropped with the last close.

`TaskPipes` has the executors (`pc`, `job`), the pool and its stop (`queue`,
`stopper`), a `TaskResultReader` per executor (`reader`, `jobIdsToStatus`,
`jobIdsToWaiters`, `mustStop`, `stopSem`), the compute threads (`compute`), and the
script that waits for the C process and cleans up (`process`). Every blocking call and
every synchronized block is an action. `answers` is what the master is told. The
functions of tasks may return an error, and may abort the process at any time.

The code relies on its timing, and the module names what it relies on; each run says
in which environments a property holds:

* `slow_jobs`: a job takes longer than its executor needs to register as its waiter.
  `askForTaskEnd` looks for the status and registers in two critical sections, and a
  result that arrives in between releases nobody.
* `prompt_reader`: a reader is back at its pipe before anybody writes to it again.
  Otherwise what is written between its read and its close is lost, and `shutdown`,
  which raises the flag before it sets the semaphore, may find the reader gone.

`AnswersTrue` and `StopIsClean` hold under any timing. The second part of `NoMissedResult`
holds with slow jobs, and `StopEnds` in a timely environment without a crash; the windows
that these assumptions exclude are in the code, and each property fails without its own.

### WorkerCache: objects of the persistent C worker

A program is a list of tasks on one object: `in`, `inout`, `out`, or `remote` (a task
of another node, which gets the object from this one). `cache` maps a version to an
object, `heap` says which version an object holds, `file` which version is in the file
of each version. A compute thread goes through the argument treatment that
`c-backend.c` generates; the main thread of the C process (`server`) serves the data
commands; the Java thread (`comm`) receives tasks with obsolete versions, removes and
moves files, and sends data. An abort (a broken file, a deleted object) sets `fault`.
The two parts meet in `isPreserveSourceData`, which the master computes from the
readers that are left when the job is sent: it decides whether an `inout` task may
change the cached object in place. An `inout` task that may not writes the object to the
file of its source and reads it back: the pointer is fetched under the lock of the map
(`FetchSource`, `oData`) and followed after its release (`WriteSource`).

`AskForFile` is the part of `askForFile` for a file or an object that is at this node. The
requests to other nodes, and the job that waits for their answers, are left out: in the
programs considered every version is produced here, or was here from the start.

Assumptions: `exclusive_rewrite` (while an `inout` task copies its source through the
file of the source, nobody else uses that file; without it a reader may find half a
file) and `paced_commands` (a data command is sent when the C process is back at the
data pipe; without it the second of two commands may be lost). The safety properties
about arguments hold without the second one; `ObsoleteDropped` and `TasksEnd` need it.
`VersionKept` speaks of readers whose job has not arrived and of transfers that have not
started; what happens while a reader obtains its argument is the matter of `NoFault` and
`RightArguments`.

## Runs

| Run | Config | Expected | What it shows |
|---|---|---|---|
| `data_versions` | `DataInfo.cfg` | pass | counts are exact, used and transferred versions stay, deleted versions go, no handler is cut short |
| `task_life` | `TaskAnalyser.cfg` | pass | dependencies, end of tasks, counts, wake-ups, barriers, over all interleavings |
| `task_release` | `TaskAnalyserLive.cfg` | pass | `TaskAnalyser` implements `Dataflow`; every blocked thread is released |
| `replicated_tasks` | `ReplicatedTasks.cfg` | violation of `BarrierWaitsForTasks` | both notifications of a task with two executions find it free; its end is treated twice |
| `scheduler` | `Scheduler.cfg` | pass | capacity, queues, dependencies, ready count, failures, termination |
| `scheduler_failure` | `SchedulerFailure.cfg` | violation of `FailurePropagated` | of two successors of a failed execution one is skipped |
| `job_execution` | `JobExecution.cfg` | pass | each launch is decided exactly once, listeners count what will notify them, jobs start after their transfers, retries end |
| `failed_copy` | `FailedCopy.cfg` | violation of `SubmittedWithInputs` | a failed copy leaves its location behind; the retry submits the job without its input |
| `multi_node` | `MultiNode.cfg` | pass | a job holds all its nodes, the end is notified once and last, groups end |
| `worker_pipes` | `TaskPipes.cfg` | pass | answers are true and single, no result is missed, the pool stops cleanly |
| `worker_crash` | `WorkerCrash.cfg` | violation of `AnsweredDespiteCrash` | nobody is told that the C process died; its executor waits for ever |
| `object_cache` | `WorkerCache.cfg` | pass | tasks and other nodes get the right version, nothing is lost or used after its removal, tasks end |

The findings in `PROJECT.json` quote the line of the repository that each violation
disagrees with.

### Bounds

* `DataInfo`: two parameters, the main program and two applications are the
  least with which accesses, transfers and deletions overlap in every order of
  two; four versions allow a version that is read, one that is written and
  deleted ones before them; two deferred deletions.
* `TaskAnalyser`: three tasks give chains, joins and a bystander; two threads of
  two applications; a file and an object, because the main program takes
  objects and files differently; the signatures produce reads after writes,
  updates and independent tasks. `task_release` uses two tasks because it checks
  liveness, and one thread owns the data.
* `Scheduler`: four executions, one of which needs a whole large worker, and two of
  which have higher priorities, so that the large one is launched before and resumed
  after others; one worker from the start and a smaller one that
  may join at any time; three errors, so that an execution fails
  (`SCHEDULING_CHANCES` is 2 in the code) and another one is retried. With
  `InitialWorkers = {w1}` every execution has a candidate when it is submitted.
* `JobExecution`: either two executions that read the same datum, or one that reads one
  and updates another, or one without inputs; one worker and two threads in the pool, so
  that a copy is joined while it runs, ends or fails; two chances of each kind, as in
  the code (`TRANSFER_CHANCES`, `SUBMISSION_CHANCES`, `SCHEDULING_CHANCES`).
* `MultiNode`: groups of two nodes before and after a plain task, on two workers of three
  units, so that groups interleave, wait in queues and are resumed; two errors. A
  plain task is there because only plain executions fail for good: those of a group whose
  job raised an error never get a second job.
* `TaskPipes`: two executors share the queue and the process; one job under any
  timing, and two when the timing is as assumed, so that results of successive jobs meet
  in one reader; three attempts to write, as in the code.
* `WorkerCache`: all programs of three tasks, and three longer ones in which a version is
  read here and elsewhere while a task changes it; two compute threads.

The programs may stop at any point (`CHECK_DEADLOCK FALSE`): when every thread
has ended or waits, when the runtime has shut down, or when the C process has died,
there is no step left. That nobody waits for ever is stated by the temporal properties.

### Fairness

`TaskAnalyser`: weak fairness of the AP (`APStep`) and of the TD
(`SubmitExecutions`, `StartExecution`), which loop over blocking queues; of the
end of a running execution, whichever it is; of the thread started by
`ErrorManager`; and of the second request of a main access, which the thread
sends unconditionally. Programs promise nothing: they may stop submitting tasks.
`Scheduler`: weak fairness of the end of each running execution. New executions
and new workers may never come, hence the alternative "an execution is blocked"
in `ActionsFinish`.
`MultiNode`: weak fairness of the TD, of the AP, of the end of each job and of the
thread that is told of it; nothing promises that tasks are submitted.
`JobExecution`, `TaskPipes`, `WorkerCache`: some thread that can take a step takes
one (weak fairness of the disjunction of all the steps of threads), which is less than
fairness of each thread. In `TaskPipes` the arrival of jobs, the stop and crashes are
not in it; in `WorkerCache` the deletion of the object is not.

## Proofs

The theorems hold for every value of the constants that satisfies the assumptions of the
modules (`...Assumption`, which TLC evaluates in the runs) and the hypotheses below. A
theorem without a hypothesis in the table has none.

| Module | Theorems (property of a run) | Hypothesis |
|---|---|---|
| `TaskAnalyser_proofs` | `TypeCorrect` (`TypeOK`) | |
| | `ExecutionsWaitForProducers` (`DependenciesRespected`) | `PrivateObjects` |
| `TaskAnalyserLife_proofs` | `FailuresReachTheRuntime` (`FailuresStopTheRuntime`), `CountsAreExact` (`CountExact`), `BarriersWaitForTasks` (`BarrierWaitsForTasks`) | `SingleExecution` |
| | `BlockedThreadsAreKept` (`NoLostWakeup`) | `SingleExecution`, `OneThreadPerApp` |
| | `RuntimeImplementsDataflow` (`ImplementsDataflow`) | `SingleExecution`, `OwnData` |
| `DataInfo_proofs` | `TypeCorrect` (`TypeOK`) | |
| | `CountsAreExact` (`CountsExact`), `UsedVersionsAreLive` (`UsedVersionsLive`), `DeletedVersionsAreDropped` (`DeletedVersionsDropped`), `HandlersAreComplete` (`HandlersComplete`) | `RulesRespected` |
| `Scheduler_proofs` | `TypeCorrect` (`TypeOK`), `CapacityIsRespected` (`CapacityRespected`), `NoActionIsLost` (`NoLostAction`), `DependenciesAreHonoured` (`DependenciesHonoured`), `FailuresAreNotified` (`FailureNotified`) | |
| | `ReadyCountIsExact` (`ReadyCountExact`) | `EveryActionFits` |
| `TaskPipes_proofs` | `TypeCorrect` (`TypeOK`), `AnswersAreTrue` (`AnswersTrue`), `ResultsAreNotMissed` (`NoMissedResult`), `StopsCleanly` (`StopIsClean`) | |
| `JobExecution_proofs` | `TypeCorrect` (`TypeOK`), `OneCarrierAlways` (`OneCarrier`), `ListenersCountedAlways` (`ListenersCounted`), `SubmittedAfterTransfersAlways` (`SubmittedAfterTransfers`) | |
| `WorkerCache_proofs` | `TypeCorrect` (`TypeOK`) | |
| | `NeverFaults` (`NoFault`), `ArgumentsAreRight` (`RightArguments`), `VersionsAreKept` (`VersionKept`) | `exclusive_rewrite` |
| | `ObsoleteIsDropped` (`ObsoleteDropped`) | `paced_commands` |
| `MultiNode_proofs` | `TypeCorrect` (`TypeOK`), `JobsHaveTheirNodes` (`JobHasItsNodes`), `MasterEndsLast` (`EndsWhenFree`) | |

The hypotheses are needed, each for a reason of the code:

* `PrivateObjects`: the objects that a main program takes back are used by its own tasks
  only. Files need no such assumption for the dependencies.
* `SingleExecution`: tasks are not replicated. The run `replicated_tasks` shows what
  happens otherwise: the end of a task is treated twice.
* `OneThreadPerApp`: `appIdToSemaphore` keeps one semaphore per application; a second
  thread of the application that blocks overwrites the first.
* `OwnData`: tasks of other threads do not access the data of a main program (see
  `MainData` above), and no other main program accesses its objects.
* `RulesRespected`: the programs follow all the usage rules of `DataInfo`. None of the
  rules can be dropped: TLC finds a violation of one of the properties without each.
* `EveryActionFits`: an execution that no worker can run when it is submitted is taken
  from a ready count that it may never have entered.
* `exclusive_rewrite` and `paced_commands` are assumptions on the timing that a behaviour
  of `WorkerCache` fixes at its start (`env`). Without the first, the file that an `inout` task
  rewrites may be read half written; without the second, a command that is
  written while the C process closes the pipe is lost, and its object stays in the cache.

### The life of a task

*Types.* `TypeOK` of `TaskAnalyser` is not inductive. That a count of executions stays natural
needs `ExecutionsOK` (no more executions run than are pending, and the count of
the task is the number of the pending ones), and that the AP finds a thread and a datum in its
requests needs `QueueOK`, `OneRequest`, `TargetsOK` and the facts on kept
semaphores (`SemaphoresOK`, `WaitedOK`): a thread has at most one request under
way. That is `TypeInv`. A task is created in the TD only once, so that its
executions are not started over: `PhaseInv` says in which phase a task is (its
analysis in the queue of the AP, its submission in the queue of the TD,
submitted), each at most once, and what its state is in each of them.
`TypeInv /\ PhaseInv` is inductive.

*Dependencies.* `DependencyInv` is inductive relative to `TypeInv /\ PhaseInv`:

* for every datum whose current version a task produces, that task has been
  analysed and is the recorded last writer, or has ended (`WritersOK`); for an object that a
  thread has registered and not yet taken, `TakenObjects` and `AnalysedFirst`
  give that no task can become its writer in between, because the thread that
  could submit one is the one that is waiting;
* the producers of a task that is analysed but not submitted are its
  predecessors or have ended (`NeedsAnalysed`); an ended task is removed from the
  predecessors only when all its executions have ended;
* the producers of a submitted task are waited for or have ended
  (`NeedsSubmitted`), and what runs waits for nothing (`NothingToWaitFor`).

A producer is submitted before its consumers since both queues are FIFO; without
`PhaseInv` a producer that has no executions *yet* could not be told from one
that has none *any more*, and the step that creates an execution would lose
the dependency.

*Ends, counts and barriers.* `RequestsInv` describes the queue of the AP: no request twice, and
the analyses of the tasks of a thread in the order of the tasks and ahead of the request
that the thread is blocked on. `LifeInv` follows a task from the end of its execution
to the treatment of that end, and says that the count of an application is the
cardinality of a set of tasks. A barrier is released by a count that has become zero;
that no task of the thread is then unanalysed, and so uncounted, is what `RequestsInv`
is for. `WakeupInv` is inductive relative to all of them.

*Refinement.* `AccessInv` says that the last writer kept by the AP is the producer of the current
version, and that a thread waits for the producer of the version it registered. With it
and the invariants above every step is a step of `Dataflow` under the mapping of
`TaskAnalyserRefinement`: the analysis of a task is `Order`, the start and the end of an execution and the
requests that release a thread are their counterparts, and everything else changes nothing that
`Dataflow` sees. The fairness is not part of the theorem.

### Versions of a file

`DataInv` is a conjunction of `ObjectInv` (types, counts equal to the held accesses, a
version with readers or writers or without a deletion mark is in the map, what is held
is in the map, no exception), of `DeletionInv` (`blocks` is the number of transfers, the
pending deletions are those of a deleted file) and of what the main program holds. The
lemmas say what each method of the Java object does to them, and a request is their
composition. `TypeCorrect` needs none of this and no rule: it also covers the handlers
that an exception cuts short.

### The scheduler

`SchedulerInv` has three parts. `QueuesInv` is about workers: the queue of a worker is
what waits on it, its free resources are its capacity less what runs, one of a queue
does not fit, and what is on a worker could ever run there. It is stated of any values of
`state`, `resource`, `waiting` and `free`, because a completion first resumes what waits
(`QueuesAfterResume`) and then launches the successors (`QueuesAfterExecute`), and the
invariant holds in between. That something runs where something waits follows by
arithmetic: the one that does not fit would fit in an empty worker. `DependenciesOK`
relates `preds` and `succs` to the dependencies that an execution was created with.
`FailureOK` is `FailureNotified` itself; its step over `FailAction` needs that the chain of the failure ends
in an execution without successors (`ChainFacts`: identifiers grow along the chain, and the
recursive function that computes it exists, built one element at a time). The resources
need that requirements of disjoint sets add up; `Total` is a fold of the community
modules, and `TotalIsUnits` proves that it is the number of units of the set, by a least
counterexample. `ReadyInv` adds what the ready count needs: an execution is blocked only
after it was launched.

### The executors of the C worker

`PipesInv` follows a job through an executor, its reader, its compute thread and their
two pipes (`ExecutorInv`): what has not been executed belongs to the executor that waits
for it, a result carries the exit value of its job wherever it is, and with slow jobs
there is no result before its executor waits. `OnePlace` and `NoneLost` say that a job
is in exactly one of: not sent, queued, held by one executor, answered.

### Transfers and submissions of a launch

None of the four properties is inductive, and neither half of `JobInv` is without the other.
`CopyInv` is about the copies: each one is in one place (still to be ordered, in the
queue, or with one thread), what nobody has touched has its own listener only, and a
listener is at most once among those of a copy and in no other copy of the datum; hence
a copy that is joined adds exactly one notification, and `ListenersCounted` is kept.
`LaunchInv` is about the executions: the listener of the last round is enabled exactly
when nobody orders transfers any more, those of earlier rounds count nothing, a thread that orders
transfers runs no reaction, the number of rounds is bounded by the launches and the
transfer errors, and one thing carries a running execution. The halves meet where a listener is notified: `CopyInv`
says that it still counts an operation, `LaunchInv` that it is then the listener of the
last round, so that its last operation and `enable` decide the launch once
(`TransfersGoOn`). The only assumptions are that the data and the threads are finitely
many, that the chances are positive, and that `None` is not one of the other values. `SubmittedWithInputs` is
false of the code (run `failed_copy`) and is not among the theorems.

### The cache of the C worker

*Whatever the timing*, `BaseInv` is inductive. It follows the commands (`CommInv`, `FlightInv`):
what the Java thread holds, what is in the pipe and what the C process carries
out is the removal of a version that the master has reported, or the one
serialization that a task of another node waits for. `AccessInv` is about the
program: a task does not start before the writer of its source has ended; an
`inout` task that does not preserve its source is the last one to read it,
which `isPreserveSourceData` decides by a count of readers (`LastReader` proves from
the count, by cardinalities, that no other is left); nobody
accesses what was reported. That versions are numbered in the order of
their writers, one writer each, is proved of `Source` and `Dest` by least
counterexamples (`VersionFacts`).

*With exclusive rewriting*, `DataInv` is inductive relative to `BaseInv`. One half is about the
objects: an object is the own one of a task until it enters the cache (`PublicObjects`); it is in
the cache under one version, which it holds once the writer of that version has
ended (`CachedObjects`); what a task holds is the object of its source
(`Arguments`); what the C process deletes is unknown to the others, and what it
serializes does not change meanwhile (`ServedObject`), nor does an object that a task has fetched
and not yet written, for as long as the lock does not protect it (`FetchedObjects`). The other half is about the
files: the file of a version holds it, or is being rewritten by one that we
know (`FinalFiles`), or is a copy of the source for the task that will produce it
(`EarlyFiles`); each task finds its argument where it will look for it (`Sources`); what is
serialized is in the cache and nobody uses its file (`Serialized`). The halves need each other: a
missing file is allowed since the object is in the cache, and the other way
round. Where an object changes in place (`CallData`) every other task that holds a pointer is shown
to hold another object, by the step that it is at. The parts take the variables as parameters, so that
a step is shown to preserve a part by stating it of the next values (`DataNext`).

*With paced commands*, `DropInv` is inductive relative to `BaseInv`: a command is written only when the C
process waits for it, alone (`PaceInv`), and so what was reported is gone or its
removal is in one of the places it passes (`GoneInv`). It does not need
exclusive rewriting.

Besides the assumptions on the constants that the runs evaluate, the proofs use only that
`Null` is not a command (`NullAssumption`).

### Groups of executions

`GroupInv` is inductive and gives the types and `JobHasItsNodes`. A group is in one of
three phases: it forms (`Forming`), its job runs (`Working`), or its job is over (`Over`).
In the first two the next identifier is given by the number of executions that run and
whose end nobody has been told of (`Settled`): the size of the group less that number, and
0. In the third it lies between 0 less that number and 0, which is what makes an execution
that is launched again after an error a slave and never a second master; it is only a
bound, because a thread that is cut short (`NotificationCut`, one of the two outcomes of
`NotifySlave`) leaves executions that nobody tells of the error. Around the phases are the queues of the workers
(`PlacesOK`), the count of a task, which is the cardinality of what has not ended
(`CountsOK`), and the requests (`RequestsOK`): an end is told once, while the execution
runs and its task has no job.

One step may launch several executions of a group. `DoAction` takes their order as a
function to positions; an identifier is the next one less the rank of the execution in
that order. Ranks of different positions differ and fill an initial segment (by a least
element), so the identifiers of one step are different and exactly one of them is 1 when
the last execution is launched (`Registered`).

`EndsWhenFree` needs `MasterLast`, which is inductive relative to `GroupInv` and
`EndsWhenFree` itself: whenever
the request of a master, added or still to be added, is going to end it for good, each of
the others has ended or has such a request before it. After an error this holds because the
master was launched no more often than any of the others, so that none of them has a
chance left when it has none.

### Only model-checked

Liveness under fairness is out of the prover's reach: `ThreadsReleased`,
`ActionsFinish`, `ActionsEnd`, `StopEnds`, `TasksEnd`, and the fairness of
`ImplementsDataflow`. Every safety property of a passing run is a theorem. The properties
of the runs that end in a violation are false of the code; of them, `BarrierWaitsForTasks`
holds when tasks are not replicated.

What the assumptions exclude is not checked elsewhere: the usage rules of `DataInfo`, one
thread per application and the data of other threads in `TaskAnalyser`, executions without a
candidate in the ready count of `Scheduler`, the timing of pipes in `TaskPipes`, that of
files and commands in `WorkerCache`, and groups after an error in `TasksEnd`. The hazards of
`PROJECT.json` that they exclude list no property, or say in their note which part of
it is left, and which assumption it is.

## Not modelled

* The schedulers built on the base one (ready, data, load balancing, full graph,
  multi-objective) and the optimisation of resources: they decide by floating point
  scores, estimated times and costs; which executions they may launch is `Scheduler`.
* Workers that leave, grow or shrink; descriptions of resources other than a number.
* The connections of the NIO adaptor and its deferred copies: they live in an external
  communication library. The web services adaptor.
* The main-program side of the C and Python bindings: it forwards calls to the Java
  virtual machine and keeps no state besides the JNI environment.
* `compssgen`'s parser and the code it generates for primitive and file arguments;
  compssbuilder's scripts: code generation and formatting.
* The loader (byte-code instrumentation), storage and PSCOs, the agent, monitoring,
  graphs and tracing: front ends, external services and output.
* Vendored code under `src/dependencies`, above all the tracing library extrae. Most of
  the C and C++ in the repository is extrae (and tests and examples of it); the native
  code of COMPSs itself is a few thousand lines, of which the persistent C worker and
  the argument treatment of `compssgen` carry the concurrency and are modelled. The
  runtime proper is written in Java.

`PROJECT.json` has a reason for each component.

## Plan

1. Done: `DataInfo`, `TaskAnalyser`, `Scheduler`, their runs, the types and the
   dependencies of `TaskAnalyser` proved.
2. Done: `Dataflow` and the refinement; `JobExecution`, `MultiNode`, `TaskPipes`,
   `WorkerCache` and their runs.
3. Done: the theorems above, on `TaskAnalyser`, its refinement, `DataInfo`, `Scheduler`,
   `TaskPipes`, `JobExecution`, `WorkerCache` and `MultiNode`.
4. Next: workers that leave (`workerRemoved`) in `Scheduler`; `canRunNow` as an operator
   against its intended reading; `TaskAnalyser.deleteFile`; the window between count and
   status in `EndExecution`.

## How to run

    tlc -config TaskAnalyser.cfg MCTaskAnalyser
    tlapm TaskAnalyser_proofs.tla

Every module whose name ends in `_proofs` is checked in the same way.
