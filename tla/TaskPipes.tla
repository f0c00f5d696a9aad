----------------------------- MODULE TaskPipes -----------------------------
(***************************************************************************)
(* The execution of jobs by the persistent C worker of a node. The Java    *)
(* worker has a pool of executors (JobsThreadPool, Executor,               *)
(* ExternalExecutor); each of them sends its jobs through a named pipe to  *)
(* one compute thread of the C process (persistent_worker_c.cc), and a     *)
(* TaskResultReader thread of its own reads the results from another pipe. *)
(* bindings_piper.sh starts the C process, waits for it and removes the    *)
(* pipes.                                                                  *)
(*                                                                         *)
(* Every blocking call (open, read, write, close of a pipe, acquire of a   *)
(* semaphore) and every section under a lock is an action of its own.      *)
(***************************************************************************)
EXTENDS Integers, Sequences, FiniteSets, Fifo

CONSTANTS
    Executors,    \* executors of the pool, each with its reader and its compute thread
    Null,         \* the null request that stops an executor; also "no line", "no job"
    Quit,         \* QUIT_TAG
    MAX_RETRIES,  \* attempts to write to a pipe
    Environments, \* sets of assumptions on the timing and the tasks under which it runs
    Load          \* bound: number of jobs that the master sends in each environment

\* slow_jobs: a job takes longer than its executor needs to register as its waiter.
\* prompt_reader: a reader that released its executor is back at the pipe before this
\*   executor, or its compute thread, touches a pipe again.
\* no_crash: the functions of the tasks do not abort the C process.
AllAssumptions == {"slow_jobs", "prompt_reader", "no_crash"}

ASSUME ExecutorsAssumption == IsFiniteSet(Executors) /\ Executors # {}
ASSUME MaxRetriesAssumption == MAX_RETRIES \in Nat \ {0}
ASSUME EnvironmentsAssumption == Environments \subseteq SUBSET AllAssumptions
ASSUME LoadAssumption == Load \in [Environments -> Nat]

VARIABLES
    assumed,   \* what holds of this environment, fixed at the start
    sent,      \* number of jobs that the master has sent
    queue,     \* RequestQueue of the pool
    stopper,   \* thread in stopThreads: "none", "waiting", "piper", "done", "error"
    pc,        \* step of each executor
    job,       \* job that each executor treats
    retries,   \* failed writes in the current loop
    writePipe, \* pipe of each executor to its compute thread
    readPipe,  \* pipe of each compute thread to its reader
    reader,    \* step of each TaskResultReader
    line,      \* line that each reader has read
    jobIdsToStatus,  \* exit values that each reader keeps, a set of <<job, value>>
    jobIdsToWaiters, \* jobs whose executor is registered in each reader
    sem,       \* permits of the semaphore on which an executor waits for its job
    mustStop,  \* each reader has been told to stop
    stopSem,   \* semaphore of the shutdown: "null", "set", "released"
    compute,   \* step of each compute thread
    command,   \* command that each compute thread has read
    process,   \* the C process: "up", "quit", "exited", "crashed", "cleaned"
    exitValue, \* what the execution of each job returned, or Null
    answers    \* answers sent to the master for each job: the sequence of their success

javaVars   == <<assumed, sent, queue, stopper, answers>>
execVars   == <<pc, job, retries, sem>>
readerVars == <<reader, line, jobIdsToStatus, jobIdsToWaiters, mustStop, stopSem>>
cVars      == <<compute, command, process, exitValue>>
pipeVars   == <<writePipe, readPipe>>
vars == <<javaVars, execVars, readerVars, cVars, pipeVars>>

Jobs       == UNION {1 .. Load[env] : env \in Environments}
ExitValues == {0, -1}
Dead       == {"crashed", "cleaned"}
EndTask(j, v) == <<j, v>>
Results    == Jobs \X ExitValues

\* No job, no exit value and no result looks like one of the tags.
ASSUME TagsAssumption ==
    /\ Null # Quit
    /\ \A tag \in {Null, Quit} : tag \notin Jobs \cup Results \cup ExitValues

-----------------------------------------------------------------------------
(* Initial state: startThreads has returned, and both sides wait for a line *)

Init ==
    /\ assumed \in Environments
    /\ sent = 0 /\ queue = <<>> /\ stopper = "none"
    /\ answers = [j \in Jobs |-> <<>>]
    /\ pc = [e \in Executors |-> "dequeue"]
    /\ job = [e \in Executors |-> Null]
    /\ retries = [e \in Executors |-> 0]
    /\ sem = [e \in Executors |-> 0]
    /\ reader = [e \in Executors |-> "read"]
    /\ line = [e \in Executors |-> Null]
    /\ jobIdsToStatus = [e \in Executors |-> {}]
    /\ jobIdsToWaiters = [e \in Executors |-> {}]
    /\ mustStop = [e \in Executors |-> FALSE]
    /\ stopSem = [e \in Executors |-> "null"]
    /\ compute = [e \in Executors |-> "read"]
    /\ command = [e \in Executors |-> Null]
    /\ process = "up"
    /\ exitValue = [j \in Jobs |-> Null]
    /\ writePipe = [e \in Executors |-> OpenRead(EmptyFifo)]
    /\ readPipe = [e \in Executors |-> OpenRead(EmptyFifo)]

Goto(e, step) == pc' = [pc EXCEPT ![e] = step]

\* Once bindings_piper.sh has removed the pipes, a FileOutputStream creates a plain file
\* of that name: the write succeeds and nobody reads it.
PipesGone == process = "cleaned"

\* The reader of e waits in the open of its pipe.
ReaderBack(e) == reader[e] = "read" /\ ~ readPipe[e].met
Prompt(e)     == "prompt_reader" \in assumed => ReaderBack(e) \/ process \in Dead

-----------------------------------------------------------------------------
(* JobsThreadPool *)

EnqueueJob ==
    /\ sent < Load[assumed] /\ stopper = "none"
    /\ sent' = sent + 1
    /\ queue' = Append(queue, sent')
    /\ UNCHANGED <<assumed, stopper, answers, execVars, readerVars, cVars, pipeVars>>

\* A mutant: a single null for all the executors.
StopThreadsOnce ==
    /\ stopper = "none"
    /\ queue' = <<Null>> \o queue
    /\ stopper' = "waiting"
    /\ UNCHANGED <<assumed, sent, answers, execVars, readerVars, cVars, pipeVars>>

\* stopThreads puts one null per executor at the front of the queue.
StopThreads ==
    /\ stopper = "none"
    /\ queue' = [i \in 1 .. Cardinality(Executors) |-> Null] \o queue
    /\ stopper' = "waiting"
    /\ UNCHANGED <<assumed, sent, answers, execVars, readerVars, cVars, pipeVars>>

\* A mutant: the first threadEnd is enough.
SpecificStopEarly ==
    /\ stopper = "waiting"
    /\ \E e \in Executors : pc[e] = "ended"
    /\ process \in {"up", "cleaned"}
    /\ stopper' = "piper"
    /\ process' = IF process = "up" THEN "quit" ELSE process
    /\ UNCHANGED <<assumed, sent, queue, answers, execVars, readerVars, compute, command,
                   exitValue, pipeVars>>

\* All the executors have called threadEnd: specificStop writes quit to the data pipe,
\* where the main thread of the C process reads.
SpecificStop ==
    /\ stopper = "waiting"
    /\ \A e \in Executors : pc[e] = "ended"
    /\ process \in {"up", "cleaned"}
    /\ stopper' = "piper"
    /\ process' = IF process = "up" THEN "quit" ELSE process
    /\ UNCHANGED <<assumed, sent, queue, answers, execVars, readerVars, compute, command,
                   exitValue, pipeVars>>

\* The script that runs the C process has ended, piper.waitFor returns. An exit value
\* other than zero ends the worker with an error.
PiperEnded ==
    /\ stopper = "piper" /\ process \in {"exited", "cleaned"}
    /\ stopper' = IF process = "exited" THEN "done" ELSE "error"
    /\ UNCHANGED <<assumed, sent, queue, answers, execVars, readerVars, cVars, pipeVars>>

-----------------------------------------------------------------------------
(* Executor and ExternalExecutor *)

Dequeue(e) ==
    /\ pc[e] = "dequeue" /\ queue # <<>>
    /\ queue' = Tail(queue)
    /\ job' = [job EXCEPT ![e] = Head(queue)]
    /\ Goto(e, IF Head(queue) = Null THEN "quit_open" ELSE "prepare")
    /\ retries' = [retries EXCEPT ![e] = 0]
    /\ UNCHANGED <<assumed, sent, stopper, answers, sem, readerVars, cVars, pipeVars>>

\* nw.sendTaskDone, and the executor goes for its next request.
SendTaskDone(e, success) ==
    /\ answers' = [answers EXCEPT ![job[e]] = Append(@, success)]
    /\ job' = [job EXCEPT ![e] = Null]
    /\ Goto(e, "dequeue")
    /\ UNCHANGED <<assumed, sent, queue, stopper>>

\* The sandbox, the binding of the computing units or the arguments may fail: the
\* exception becomes an answer without any execution.
Prepare(e) ==
    /\ pc[e] = "prepare"
    /\ \/ Goto(e, "task_open") /\ UNCHANGED <<javaVars, job>>
       \/ SendTaskDone(e, FALSE)
    /\ UNCHANGED <<retries, sem, readerVars, cVars, pipeVars>>

\* The open of the pipe for writing waits for the compute thread.
OpenTaskPipe(e, step, next) ==
    /\ pc[e] = step
    /\ Prompt(e)
    /\ PipesGone \/ CanOpenWrite(writePipe[e])
    /\ writePipe' = [writePipe EXCEPT
                       ![e] = IF PipesGone THEN @ ELSE OpenWrite(@, e)]
    /\ Goto(e, next)
    /\ UNCHANGED <<javaVars, job, retries, sem, readerVars, cVars, readPipe>>

\* executeExternal: the command is written, or the write fails and is tried again.
WriteTask(e) ==
    /\ pc[e] = "task_write"
    /\ \/ /\ PipesGone \/ CanWrite(writePipe[e])
          /\ writePipe' = [writePipe EXCEPT ![e] = IF PipesGone THEN @ ELSE Write(@, job[e])]
          /\ Goto(e, "task_close")
          /\ UNCHANGED <<javaVars, job, retries>>
       \/ /\ ~ PipesGone /\ ~ CanWrite(writePipe[e])
          /\ writePipe' = [writePipe EXCEPT ![e] = CloseWrite(@, e)]
          /\ retries' = [retries EXCEPT ![e] = @ + 1]
          /\ IF retries[e] + 1 < MAX_RETRIES
             THEN Goto(e, "task_open") /\ UNCHANGED <<javaVars, job>>
             ELSE SendTaskDone(e, FALSE)
    /\ UNCHANGED <<sem, readerVars, cVars, readPipe>>

CloseTaskPipe(e, step, next) ==
    /\ pc[e] = step
    /\ writePipe' = [writePipe EXCEPT ![e] = CloseWrite(@, e)]
    /\ Goto(e, next)
    /\ UNCHANGED <<javaVars, job, retries, sem, readerVars, cVars, readPipe>>

HasStatus(e, j) == \E r \in jobIdsToStatus[e] : r[1] = j

\* A new semaphore; askForTaskEnd looks for the status in one synchronized block ...
AskForTaskEnd(e) ==
    /\ pc[e] = "ask"
    /\ IF HasStatus(e, job[e])
       THEN Goto(e, "acquire") /\ sem' = [sem EXCEPT ![e] = 1]
       ELSE Goto(e, "register") /\ sem' = [sem EXCEPT ![e] = 0]
    /\ UNCHANGED <<javaVars, job, retries, readerVars, cVars, pipeVars>>

\* ... and registers the waiter in another one.
RegisterWaiter(e) ==
    /\ pc[e] = "register"
    /\ jobIdsToWaiters' = [jobIdsToWaiters EXCEPT ![e] = @ \cup {job[e]}]
    /\ Goto(e, "acquire")
    /\ UNCHANGED <<javaVars, job, retries, sem, reader, line, jobIdsToStatus, mustStop,
                   stopSem, cVars, pipeVars>>

AcquireTaskEnd(e) ==
    /\ pc[e] = "acquire" /\ sem[e] > 0
    /\ sem' = [sem EXCEPT ![e] = @ - 1]
    /\ Goto(e, "status")
    /\ UNCHANGED <<javaVars, job, retries, readerVars, cVars, pipeVars>>

\* A mutant: the exit value is not looked at.
GetAnyStatus(e) ==
    /\ pc[e] = "status"
    /\ SendTaskDone(e, HasStatus(e, job[e]))
    /\ jobIdsToStatus' = [jobIdsToStatus EXCEPT ![e] = {r \in @ : r[1] # job[e]}]
    /\ UNCHANGED <<retries, sem, reader, line, jobIdsToWaiters, mustStop, stopSem,
                   cVars, pipeVars>>

\* getTaskStatus, and the answer: the job succeeds if its exit value is zero and
\* checkJobFiles finds its output files. A null status is an exception too.
GetTaskStatus(e) ==
    /\ pc[e] = "status"
    /\ \E filesFound \in BOOLEAN :
          SendTaskDone(e, <<job[e], 0>> \in jobIdsToStatus[e] /\ filesFound)
    /\ jobIdsToStatus' = [jobIdsToStatus EXCEPT ![e] = {r \in @ : r[1] # job[e]}]
    /\ UNCHANGED <<retries, sem, reader, line, jobIdsToWaiters, mustStop, stopSem,
                   cVars, pipeVars>>

\* finish: the loop sets done after its first round, so a failed write of quit is not
\* tried again.
WriteQuit(e) ==
    /\ pc[e] = "quit_write"
    /\ writePipe' = [writePipe EXCEPT
           ![e] = IF ~ PipesGone /\ CanWrite(@) THEN Write(@, Quit) ELSE @]
    /\ Goto(e, "quit_close")
    /\ UNCHANGED <<javaVars, job, retries, sem, readerVars, cVars, readPipe>>

\* TaskResultReader.shutdown, called by the executor: the flag, the semaphore, and a
\* quit through the pipe that the reader reads.
SetMustStop(e) ==
    /\ pc[e] = "must_stop"
    /\ Prompt(e)
    /\ mustStop' = [mustStop EXCEPT ![e] = TRUE]
    /\ Goto(e, "stop_sem")
    /\ UNCHANGED <<javaVars, job, retries, sem, reader, line, jobIdsToStatus,
                   jobIdsToWaiters, stopSem, cVars, pipeVars>>

SetStopSem(e) ==
    /\ pc[e] = "stop_sem"
    /\ stopSem' = [stopSem EXCEPT ![e] = "set"]
    /\ Goto(e, "reader_open")
    /\ UNCHANGED <<javaVars, job, retries, sem, reader, line, jobIdsToStatus,
                   jobIdsToWaiters, mustStop, cVars, pipeVars>>

OpenReadPipe(e) ==
    /\ pc[e] = "reader_open"
    /\ PipesGone \/ CanOpenWrite(readPipe[e])
    /\ readPipe' = [readPipe EXCEPT ![e] = IF PipesGone THEN @ ELSE OpenWrite(@, e)]
    /\ Goto(e, "reader_write")
    /\ UNCHANGED <<javaVars, job, retries, sem, readerVars, cVars, writePipe>>

WriteReaderQuit(e) ==
    /\ pc[e] = "reader_write"
    /\ \/ /\ PipesGone \/ CanWrite(readPipe[e])
          /\ readPipe' = [readPipe EXCEPT ![e] = IF PipesGone THEN @ ELSE Write(@, Quit)]
          /\ Goto(e, "reader_close")
          /\ UNCHANGED retries
       \/ /\ ~ PipesGone /\ ~ CanWrite(readPipe[e])
          /\ readPipe' = [readPipe EXCEPT ![e] = CloseWrite(@, e)]
          /\ retries' = [retries EXCEPT ![e] = @ + 1]
          /\ Goto(e, IF retries[e] + 1 < MAX_RETRIES THEN "reader_open" ELSE "error")
    /\ UNCHANGED <<javaVars, job, sem, readerVars, cVars, writePipe>>

CloseReadPipe(e) ==
    /\ pc[e] = "reader_close"
    /\ readPipe' = [readPipe EXCEPT ![e] = CloseWrite(@, e)]
    /\ Goto(e, "await_reader")
    /\ UNCHANGED <<javaVars, job, retries, sem, readerVars, cVars, writePipe>>

\* The reader has released the semaphore; finish returns and the thread ends.
ThreadEnd(e) ==
    /\ pc[e] = "await_reader" /\ stopSem[e] = "released"
    /\ Goto(e, "ended")
    /\ UNCHANGED <<javaVars, job, retries, sem, readerVars, cVars, pipeVars>>

ExecutorStep(e) ==
    \/ Dequeue(e) \/ Prepare(e)
    \/ OpenTaskPipe(e, "task_open", "task_write") \/ WriteTask(e)
    \/ CloseTaskPipe(e, "task_close", "ask")
    \/ AskForTaskEnd(e) \/ RegisterWaiter(e) \/ AcquireTaskEnd(e) \/ GetTaskStatus(e)
    \/ OpenTaskPipe(e, "quit_open", "quit_write") \/ WriteQuit(e)
    \/ CloseTaskPipe(e, "quit_close", "must_stop")
    \/ SetMustStop(e) \/ SetStopSem(e)
    \/ OpenReadPipe(e) \/ WriteReaderQuit(e) \/ CloseReadPipe(e) \/ ThreadEnd(e)

-----------------------------------------------------------------------------
(* TaskResultReader *)

ReaderAt(e, step, next) == reader[e] = step /\ reader' = [reader EXCEPT ![e] = next]

\* run: the loop goes on until the reader must stop and has no waiters. At its end the
\* semaphore is released; if there is none yet, the exception ends the thread.
ReaderLoop(e) ==
    /\ IF ~ mustStop[e] \/ jobIdsToWaiters[e] # {}
       THEN ReaderAt(e, "loop", "open") /\ UNCHANGED stopSem
       ELSE /\ ReaderAt(e, "loop", "ended")
            /\ stopSem' = [stopSem EXCEPT ![e] = IF @ = "set" THEN "released" ELSE @]
    /\ UNCHANGED <<javaVars, execVars, line, jobIdsToStatus, jobIdsToWaiters, mustStop,
                   cVars, pipeVars>>

\* readFromPipe; without the pipe the exception is logged and the loop goes on.
ReaderOpen(e) ==
    /\ \/ /\ ~ PipesGone /\ ReaderAt(e, "open", "read")
          /\ readPipe' = [readPipe EXCEPT ![e] = OpenRead(@)]
       \/ PipesGone /\ ReaderAt(e, "open", "loop") /\ UNCHANGED readPipe
    /\ UNCHANGED <<javaVars, execVars, line, jobIdsToStatus, jobIdsToWaiters, mustStop,
                   stopSem, cVars, writePipe>>

ReaderRead(e) ==
    /\ CanRead(readPipe[e])
    /\ LET read == FirstLine(readPipe[e], Null)
       IN  /\ line' = [line EXCEPT ![e] = read]
           /\ ReaderAt(e, "read", IF read \in Results THEN "status" ELSE "close")
    /\ readPipe' = [readPipe EXCEPT ![e] = ReadAll(@)]
    /\ UNCHANGED <<javaVars, execVars, jobIdsToStatus, jobIdsToWaiters, mustStop, stopSem,
                   cVars, writePipe>>

\* processEndTaskTag: the status first, then the waiter, each under its own lock.
PutStatus(e) ==
    /\ ReaderAt(e, "status", "waiter")
    /\ jobIdsToStatus' = [jobIdsToStatus EXCEPT
                            ![e] = {r \in @ : r[1] # line[e][1]} \cup {line[e]}]
    /\ UNCHANGED <<javaVars, execVars, line, jobIdsToWaiters, mustStop, stopSem, cVars,
                   pipeVars>>

\* Mutants: the waiter stays registered; a permit is given although nobody registered.
ReleaseAndKeep(e) ==
    /\ ReaderAt(e, "waiter", "close")
    /\ sem' = [sem EXCEPT ![e] = IF line[e][1] \in jobIdsToWaiters[e] THEN @ + 1 ELSE @]
    /\ UNCHANGED <<javaVars, pc, job, retries, line, jobIdsToStatus, jobIdsToWaiters,
                   mustStop, stopSem, cVars, pipeVars>>

ReleaseAnyway(e) ==
    /\ ReaderAt(e, "waiter", "close")
    /\ sem' = [sem EXCEPT ![e] = @ + 1]
    /\ jobIdsToWaiters' = [jobIdsToWaiters EXCEPT ![e] = @ \ {line[e][1]}]
    /\ UNCHANGED <<javaVars, pc, job, retries, line, jobIdsToStatus, mustStop, stopSem,
                   cVars, pipeVars>>

ReleaseWaiter(e) ==
    /\ ReaderAt(e, "waiter", "close")
    /\ LET j == line[e][1]
       IN  /\ sem' = [sem EXCEPT ![e] = IF j \in jobIdsToWaiters[e] THEN @ + 1 ELSE @]
           /\ jobIdsToWaiters' = [jobIdsToWaiters EXCEPT ![e] = @ \ {j}]
    /\ UNCHANGED <<javaVars, pc, job, retries, line, jobIdsToStatus, mustStop, stopSem,
                   cVars, pipeVars>>

ReaderClose(e) ==
    /\ ReaderAt(e, "close", "loop")
    /\ line' = [line EXCEPT ![e] = Null]
    /\ readPipe' = [readPipe EXCEPT ![e] = CloseRead(@)]
    /\ UNCHANGED <<javaVars, execVars, jobIdsToStatus, jobIdsToWaiters, mustStop, stopSem,
                   cVars, writePipe>>

ReaderStep(e) ==
    ReaderLoop(e) \/ ReaderOpen(e) \/ ReaderRead(e) \/ PutStatus(e) \/ ReleaseWaiter(e)
    \/ ReaderClose(e)

-----------------------------------------------------------------------------
(* persistent_worker_c.cc *)

ComputeAt(e, step, next) ==
    /\ process \notin Dead
    /\ compute[e] = step
    /\ compute' = [compute EXCEPT ![e] = next]

\* readline opens the pipe, reads one line and closes the pipe; nobody touches this pipe
\* between the read and the close. quit ends the thread, an empty command is skipped, a
\* task is run.
ComputeOpen(e) ==
    /\ ComputeAt(e, "open", "read")
    /\ writePipe' = [writePipe EXCEPT ![e] = OpenRead(@)]
    /\ UNCHANGED <<javaVars, execVars, readerVars, command, process, exitValue, readPipe>>

ComputeRead(e) ==
    /\ CanRead(writePipe[e])
    /\ LET read == FirstLine(writePipe[e], Null)
       IN  /\ ComputeAt(e, "read", CASE read = Quit   -> "ended"
                                     [] read = Null   -> "open"
                                     [] read \in Jobs -> "execute")
           /\ command' = [command EXCEPT ![e] = read]
    /\ writePipe' = [writePipe EXCEPT ![e] = CloseRead(ReadAll(@))]
    /\ UNCHANGED <<javaVars, execVars, readerVars, process, exitValue, readPipe>>

Execute(e) ==
    /\ ComputeAt(e, "execute", "result_open")
    /\ \E v \in ExitValues : exitValue' = [exitValue EXCEPT ![command[e]] = v]
    /\ UNCHANGED <<javaVars, execVars, readerVars, command, process, pipeVars>>

ResultOpen(e) ==
    /\ ComputeAt(e, "result_open", "result_write")
    /\ Prompt(e)
    /\ "slow_jobs" \in assumed => pc[e] = "acquire"
    /\ CanOpenWrite(readPipe[e])
    /\ readPipe' = [readPipe EXCEPT ![e] = OpenWrite(@, "compute")]
    /\ UNCHANGED <<javaVars, execVars, readerVars, command, process, exitValue, writePipe>>

ResultWrite(e) ==
    /\ ComputeAt(e, "result_write", "result_close")
    /\ CanWrite(readPipe[e])
    /\ LET j == command[e]
       IN  readPipe' = [readPipe EXCEPT ![e] = Write(@, EndTask(j, exitValue[j]))]
    /\ UNCHANGED <<javaVars, execVars, readerVars, command, process, exitValue, writePipe>>

ResultClose(e) ==
    /\ ComputeAt(e, "result_close", "open")
    /\ readPipe' = [readPipe EXCEPT ![e] = CloseWrite(@, "compute")]
    /\ UNCHANGED <<javaVars, execVars, readerVars, command, process, exitValue, writePipe>>

\* The function of a task aborts the process, or a thread writes to a pipe without
\* reader (SIGPIPE). The operating system closes all the ends of the process.
Crash ==
    /\ process = "up"
    /\ \E e \in Executors :
          \/ compute[e] = "execute" /\ "no_crash" \notin assumed
          \/ compute[e] = "result_write" /\ ~ CanWrite(readPipe[e])
    /\ process' = "crashed"
    /\ writePipe' = [e \in Executors |-> CloseRead(writePipe[e])]
    /\ readPipe' = [e \in Executors |-> CloseWrite(readPipe[e], "compute")]
    /\ UNCHANGED <<javaVars, execVars, readerVars, compute, command, exitValue>>

\* main joins the compute threads after the quit of the data pipe.
JoinComputeThreads ==
    /\ process = "quit"
    /\ \A e \in Executors : compute[e] = "ended"
    /\ process' = "exited"
    /\ UNCHANGED <<javaVars, execVars, readerVars, compute, command, exitValue, pipeVars>>

\* bindings_piper.sh after a failure: errorTask is written to the result pipes that are
\* plain files (test -f), and a named pipe is not; then clean_env removes the pipes. An
\* open that already waits in a removed pipe waits for ever.
CleanEnv ==
    /\ process = "crashed"
    /\ process' = "cleaned"
    /\ UNCHANGED <<javaVars, execVars, readerVars, compute, command, exitValue, pipeVars>>

ComputeStep(e) ==
    ComputeOpen(e) \/ ComputeRead(e) \/ Execute(e) \/ ResultOpen(e)
    \/ ResultWrite(e) \/ ResultClose(e)

ThreadStep ==
    \/ SpecificStop \/ PiperEnded \/ JoinComputeThreads \/ CleanEnv
    \/ \E e \in Executors : ExecutorStep(e) \/ ReaderStep(e) \/ ComputeStep(e)

Next == EnqueueJob \/ StopThreads \/ Crash \/ ThreadStep

Spec == Init /\ [][Next]_vars

\* Some thread that can run does run; which one is left to the scheduling. The master may
\* send nothing more, and a task may crash or not.
FairSpec == Spec /\ WF_vars(ThreadStep)

-----------------------------------------------------------------------------
(* Properties *)

Items(s) == {s[i] : i \in 1 .. Len(s)}
Answered(j) == answers[j] # <<>>
Taken(j)    == \E e \in Executors : job[e] = j

\* The types of the fields of the executors, of their readers and of the C process: a
\* semaphore is released at most once for a job, and finish writes the command that ends
\* a pipe within its retries.
TypeOK ==
    /\ assumed \in Environments
    /\ sent \in 0 .. Load[assumed] /\ queue \in Seq(Jobs \cup {Null})
    /\ stopper \in {"none", "waiting", "piper", "done", "error"}
    /\ job \in [Executors -> Jobs \cup {Null}]
    /\ retries \in [Executors -> 0 .. MAX_RETRIES]
    /\ writePipe \in [Executors -> FifoType(Executors, Jobs \cup {Quit})]
    /\ readPipe \in [Executors -> FifoType(Executors \cup {"compute"}, Results \cup {Quit})]
    /\ line \in [Executors -> Results \cup {Quit, Null}]
    /\ jobIdsToStatus \in [Executors -> SUBSET Results]
    /\ jobIdsToWaiters \in [Executors -> SUBSET Jobs]
    /\ sem \in [Executors -> 0 .. 1]
    /\ stopSem \in [Executors -> {"null", "set", "released"}]
    /\ command \in [Executors -> Jobs \cup {Quit, Null}]
    /\ process \in {"up", "quit", "exited"} \cup Dead
    /\ exitValue \in [Jobs -> ExitValues \cup {Null}]
    /\ answers \in [Jobs -> Seq(BOOLEAN)]

\* The master gets one answer at most for each job it sent, and it is told that a job
\* succeeded only if the compute thread ran this very job and it returned zero, whatever
\* the jobs that shared the executor before, the failed writes and the crashes.
AnswersTrue ==
    \A j \in Jobs : /\ Len(answers[j]) <= 1
                    /\ TRUE \in Items(answers[j]) => exitValue[j] = 0

\* No result is missed. An executor that was released finds the status of its job, so that
\* getTaskStatus never returns null: the reader stores it before it looks for the waiter.
\* A registered waiter whose result has been stored is about to be released, although the
\* check and the registration of askForTaskEnd are two critical sections.
NoMissedResult ==
    /\ \A e \in Executors :
          pc[e] = "status" \/ (pc[e] = "acquire" /\ sem[e] > 0) => HasStatus(e, job[e])
    /\ "slow_jobs" \in assumed => \A e \in Executors : \A j \in jobIdsToWaiters[e] :
          HasStatus(e, j) => reader[e] = "waiter" /\ line[e][1] = j

\* When stopThreads returns, every job that an executor took has its answer, no thread of
\* the C process runs and the readers have ended; only jobs that nobody took are dropped.
StopIsClean ==
    stopper = "done" =>
        /\ \A e \in Executors : reader[e] = "ended" /\ compute[e] = "ended"
        /\ \A j \in 1 .. sent : Answered(j) \/ j \in Items(queue)
        /\ \A e \in Executors : job[e] = Null

Timely == {"slow_jobs", "prompt_reader"} \subseteq assumed

\* In an environment with timely readers stopThreads returns, unless the C process
\* crashed: no command, no result and no quit is lost in a pipe. A job that an executor
\* took and that is never answered would hold stopThreads for ever.
StopEnds == (stopper = "waiting" /\ Timely) ~> (stopper = "done" \/ process \in Dead)

\* A job that an executor has taken is answered, also when the C process dies: "If process
\* has failed, force exit on pipes" in bindings_piper.sh is there to release the waiters.
AnsweredDespiteCrash == \A j \in Jobs : Taken(j) ~> Answered(j)
=============================================================================
