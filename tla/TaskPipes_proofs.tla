-------------------------- MODULE TaskPipes_proofs --------------------------
(***************************************************************************)
(* Theorems of TaskPipes, for every number of executors, of retries and of *)
(* jobs, and for every timing of the threads.                              *)
(*                                                                         *)
(* PipesInv is the inductive invariant. ExecutorInv(e) is about the fields *)
(* of one executor, its reader, its compute thread and their two pipes,    *)
(* and follows a job through them: what has not been executed belongs to   *)
(* the executor that waits for it, a result carries the exit value of its  *)
(* job wherever it is, and with slow jobs there is no result before its    *)
(* executor waits for it. OnePlace relates the executors to each other: a  *)
(* job is not sent yet, in the queue, held by one executor, or answered.   *)
(***************************************************************************)
EXTENDS TaskPipes, FiniteSetTheorems, TLAPS

-----------------------------------------------------------------------------
(* The inductive invariant *)

JobSteps == {"prepare", "task_open", "task_write", "task_close", "ask", "register",
             "acquire", "status"}
QuitSteps == {"quit_open", "quit_write", "quit_close", "must_stop", "stop_sem",
              "reader_open", "reader_write", "reader_close", "await_reader", "ended",
              "error"}
ReaderSteps  == {"loop", "open", "read", "status", "waiter", "close", "ended"}
ComputeSteps == {"open", "read", "execute", "result_open", "result_write",
                 "result_close", "ended"}

StepsOK ==
    /\ pc \in [Executors -> JobSteps \cup QuitSteps \cup {"dequeue"}]
    /\ reader \in [Executors -> ReaderSteps]
    /\ compute \in [Executors -> ComputeSteps]
    /\ mustStop \in [Executors -> BOOLEAN]

\* An executor holds a job in the steps of executeTask and nowhere else.
HoldsJob(e) ==
    /\ pc[e] \in JobSteps => job[e] \in Jobs
    /\ pc[e] \notin JobSteps => job[e] = Null

\* The waiter of an executor is registered while it waits and has not been released, so
\* that its semaphore never has two permits.
WaiterOK(e) ==
    /\ jobIdsToWaiters[e] \subseteq {job[e]}
    /\ jobIdsToWaiters[e] # {} => pc[e] = "acquire" /\ sem[e] = 0
    /\ pc[e] = "register" => sem[e] = 0

\* The fields that a step uses have been set.
FieldsOK(e) ==
    /\ pc[e] \notin {"dequeue", "error"} => retries[e] < MAX_RETRIES
    /\ reader[e] \in {"status", "waiter"} => line[e] \in Results
    /\ compute[e] \in {"execute", "result_open", "result_write"} => command[e] \in Jobs

\* What has not been executed belongs to the executor that waits for it.
PendingOK(e) ==
    /\ pc[e] \in {"prepare", "task_open", "task_write"} => exitValue[job[e]] = Null
    /\ \A j \in Items(writePipe[e].lines) :
          j # Quit => /\ j = job[e] /\ exitValue[j] = Null
                      /\ pc[e] \notin {"prepare", "task_open", "task_write"}
                      /\ ~ (compute[e] = "execute" /\ command[e] = j)
    /\ compute[e] = "execute" => /\ command[e] = job[e] /\ exitValue[job[e]] = Null
                                 /\ pc[e] \notin {"prepare", "task_open", "task_write"}

\* A result carries the exit value of its job, wherever it is.
ResultsOK(e) ==
    /\ compute[e] \in {"result_open", "result_write"} => exitValue[command[e]] \in ExitValues
    /\ \A r \in Items(readPipe[e].lines) : r # Quit => exitValue[r[1]] = r[2]
    /\ \A r \in jobIdsToStatus[e] : exitValue[r[1]] = r[2]
    /\ reader[e] \in {"status", "waiter"} => exitValue[line[e][1]] = line[e][2]

\* An executor that was released, or is about to be, finds the status of its job.
Released(e) == pc[e] = "status" \/ (pc[e] = "acquire" /\ sem[e] > 0)

StatusKept(e) ==
    /\ Released(e) => HasStatus(e, job[e])
    /\ reader[e] = "waiter" /\ line[e][1] = job[e] => HasStatus(e, job[e])

\* No result of j has been written by the compute thread of e.
NoResult(e, j) ==
    /\ compute[e] = "result_write" => command[e] # j
    /\ \A r \in Items(readPipe[e].lines) : r # Quit => r[1] # j
    /\ reader[e] \in {"status", "waiter"} => line[e][1] # j
    /\ ~ HasStatus(e, j)

\* With slow jobs the waiter is registered before there is a result.
LateResults(e) ==
    "slow_jobs" \in assumed =>
        /\ pc[e] \in JobSteps \ {"acquire", "status"} => NoResult(e, job[e])
        /\ \A j \in jobIdsToWaiters[e] :
              HasStatus(e, j) => reader[e] = "waiter" /\ line[e][1] = j

\* An executor ends after its reader.
EndOK(e) ==
    /\ stopSem[e] = "released" => reader[e] = "ended"
    /\ pc[e] = "ended" => stopSem[e] = "released"

ExecutorInv(e) ==
    /\ HoldsJob(e) /\ WaiterOK(e) /\ FieldsOK(e)
    /\ PendingOK(e) /\ ResultsOK(e) /\ StatusKept(e) /\ LateResults(e)
    /\ EndOK(e)

\* A job is in one place; what the C process has not executed has no exit value.
Untouched(j) == answers[j] = <<>> /\ exitValue[j] = Null

QueuedOK(i) ==
    queue[i] # Null => /\ queue[i] <= sent
                       /\ Untouched(queue[i])
                       /\ \A k \in 1 .. Len(queue) : queue[i] = queue[k] => i = k
                       /\ \A e \in Executors : job[e] # queue[i]

HeldOK(e) ==
    job[e] # Null => /\ job[e] <= sent
                     /\ answers[job[e]] = <<>>
                     /\ \A f \in Executors : job[e] = job[f] => e = f

OnePlace ==
    /\ \A i \in 1 .. Len(queue) : QueuedOK(i)
    /\ \A e \in Executors : HeldOK(e)
    /\ \A j \in Jobs : j > sent => Untouched(j)

\* No job disappears.
NoneLost == \A j \in 1 .. sent : Answered(j) \/ j \in Items(queue) \/ Taken(j)

\* The C process is told to end when every executor has ended, and it ends when every
\* compute thread has.
ProcessOK ==
    /\ process \in {"quit", "exited"} => \A e \in Executors : pc[e] = "ended"
    /\ process = "exited" => \A e \in Executors : compute[e] = "ended"
    /\ stopper = "done" => process = "exited"

PipesInv ==
    /\ TypeOK /\ StepsOK
    /\ \A e \in Executors : ExecutorInv(e)
    /\ OnePlace /\ NoneLost /\ AnswersTrue
    /\ ProcessOK

-----------------------------------------------------------------------------
(* Pipes *)

\* What the calls of the operating system do to a pipe: its type is kept; only a write
\* adds a line to what can be read, and a close may drop all the lines.
LEMMA OpenReadFifo ==
    ASSUME NEW W, NEW L, NEW p \in FifoType(W, L)
    PROVE  OpenRead(p) \in FifoType(W, L) /\ OpenRead(p).lines = p.lines
BY DEF FifoType, OpenRead

\* Opening a pipe to write adds a writer and leaves the lines.
LEMMA OpenWriteFifo ==
    ASSUME NEW W, NEW L, NEW p \in FifoType(W, L), NEW w \in W
    PROVE  OpenWrite(p, w) \in FifoType(W, L) /\ OpenWrite(p, w).lines = p.lines
BY DEF FifoType, OpenWrite

\* Writing a line adds this line, and no other, to those of the pipe.
LEMMA WriteFifo ==
    ASSUME NEW W, NEW L, NEW p \in FifoType(W, L), NEW l \in L
    PROVE  /\ Write(p, l) \in FifoType(W, L)
           /\ Items(Write(p, l).lines) = Items(p.lines) \cup {l}
<1>1. p.lines \in Seq(L) /\ Append(p.lines, l) \in Seq(L)
  BY DEF FifoType
<1>2. Write(p, l) \in FifoType(W, L) /\ Write(p, l).lines = Append(p.lines, l)
  BY <1>1 DEF FifoType, Write
<1>3. /\ Len(Append(p.lines, l)) = Len(p.lines) + 1 /\ Len(p.lines) \in Nat
      /\ \A i \in 1 .. Len(p.lines) : Append(p.lines, l)[i] = p.lines[i]
      /\ Append(p.lines, l)[Len(p.lines) + 1] = l
  BY <1>1
<1>4. Items(Append(p.lines, l)) = Items(p.lines) \cup {l}
  BY <1>3 DEF Items
<1>. QED  BY <1>2, <1>4

\* An empty pipe holds no line.
LEMMA NoItems == Items(<<>>) = {}
BY DEF Items

\* The kernel keeps the lines of a pipe, or drops them all when nobody has it open.
LEMMA DroppedFifo ==
    ASSUME NEW W, NEW L, NEW p \in FifoType(W, L)
    PROVE  /\ Dropped(p) \in FifoType(W, L)
           /\ Dropped(p).lines = p.lines \/ Dropped(p).lines = <<>>
BY DEF FifoType, Dropped, EmptyFifo

\* Closing the end of a writer may drop lines, and never adds one.
LEMMA CloseWriteFifo ==
    ASSUME NEW W, NEW L, NEW p \in FifoType(W, L), NEW w
    PROVE  /\ CloseWrite(p, w) \in FifoType(W, L)
           /\ Items(CloseWrite(p, w).lines) \subseteq Items(p.lines)
<1> DEFINE q == [p EXCEPT !.writers = @ \ {w}]
<1>1. q \in FifoType(W, L) /\ q.lines = p.lines
  BY DEF FifoType
<1>. HIDE DEF q
<1>2. Dropped(q) \in FifoType(W, L) /\ (Dropped(q).lines = q.lines \/ Dropped(q).lines = <<>>)
  BY <1>1, DroppedFifo
<1>3. CloseWrite(p, w) = Dropped(q)
  BY DEF CloseWrite, q
<1>. QED  BY <1>1, <1>2, <1>3, NoItems

\* Closing the end of the reader may drop lines, and never adds one.
LEMMA CloseReadFifo ==
    ASSUME NEW W, NEW L, NEW p \in FifoType(W, L)
    PROVE  /\ CloseRead(p) \in FifoType(W, L)
           /\ Items(CloseRead(p).lines) \subseteq Items(p.lines)
<1> DEFINE q == [p EXCEPT !.reader = FALSE, !.met = FALSE]
<1>1. q \in FifoType(W, L) /\ q.lines = p.lines
  BY DEF FifoType
<1>. HIDE DEF q
<1>2. Dropped(q) \in FifoType(W, L) /\ (Dropped(q).lines = q.lines \/ Dropped(q).lines = <<>>)
  BY <1>1, DroppedFifo
<1>3. CloseRead(p) = Dropped(q)
  BY DEF CloseRead, q
<1>. QED  BY <1>1, <1>2, <1>3, NoItems

\* readline takes everything that is in the pipe.
LEMMA ReadAllFifo ==
    ASSUME NEW W, NEW L, NEW p \in FifoType(W, L)
    PROVE  ReadAll(p) \in FifoType(W, L) /\ Items(ReadAll(p).lines) = {}
<1>0. <<>> \in Seq(L)
  OBVIOUS
<1>1. ReadAll(p) \in FifoType(W, L) /\ ReadAll(p).lines = <<>>
  BY <1>0 DEF FifoType, ReadAll
<1>. QED  BY <1>1, NoItems

\* What readline returns is the end of file or a line that was in the pipe.
LEMMA FirstLineFifo ==
    ASSUME NEW W, NEW L, NEW p \in FifoType(W, L), NEW eof
    PROVE  FirstLine(p, eof) = eof \/ FirstLine(p, eof) \in L \cap Items(p.lines)
<1>1. p.lines \in Seq(L)
  BY DEF FifoType
<1>2. p.lines # <<>> => Head(p.lines) = p.lines[1] /\ 1 \in 1 .. Len(p.lines) /\ p.lines[1] \in L
  BY <1>1
<1>. QED  BY <1>2 DEF FirstLine, Items

-----------------------------------------------------------------------------
(* Jobs *)

\* Jobs are positive numbers, and none of the tags.
LEMMA JobsAreNumbers ==
    /\ \A j \in Jobs : j \in Nat \ {0} /\ j # Null /\ j # Quit
    /\ \A r \in Results : /\ r # Null /\ r # Quit /\ r[1] \in Jobs /\ r[2] \in ExitValues
                          /\ r = <<r[1], r[2]>>
    /\ Null \notin ExitValues
    /\ \A env \in Environments : Load[env] \in Nat /\ 1 .. Load[env] \subseteq Jobs
<1>1. \A env \in Environments : Load[env] \in Nat
  BY LoadAssumption
<1>2. \A env \in Environments : 1 .. Load[env] \subseteq Jobs
  BY DEF Jobs
<1>3. \A j \in Jobs : j \in Nat \ {0}
  BY <1>1 DEF Jobs
<1>. QED  BY <1>1, <1>2, <1>3, TagsAssumption DEF Results, ExitValues

-----------------------------------------------------------------------------
(* Steps that change the fields of one executor only *)

Fields(e) == <<pc[e], job[e], retries[e], sem[e], writePipe[e], readPipe[e], reader[e],
               line[e], jobIdsToStatus[e], jobIdsToWaiters[e], stopSem[e], compute[e],
               command[e]>>

\* An executor whose fields a step leaves alone keeps its invariant.
LEMMA OtherExecutor ==
    ASSUME NEW f \in Executors, ExecutorInv(f), UNCHANGED <<Fields(f), exitValue, assumed>>
    PROVE  ExecutorInv(f)'
<1>. USE DEF ExecutorInv, Fields
<1>1. (HoldsJob(f) /\ WaiterOK(f) /\ FieldsOK(f) /\ EndOK(f))'
  BY DEF HoldsJob, WaiterOK, FieldsOK, EndOK
<1>2. (PendingOK(f) /\ ResultsOK(f))'
  BY DEF PendingOK, ResultsOK
<1>3. (StatusKept(f) /\ LateResults(f))'
  BY DEF StatusKept, Released, LateResults, NoResult, HasStatus
<1>. QED  BY <1>1, <1>2, <1>3

\* The jobs stay where they are.
LEMMA PlacesKept ==
    ASSUME OnePlace, NoneLost, AnswersTrue, UNCHANGED <<sent, queue, answers, job, exitValue>>
    PROVE  OnePlace' /\ NoneLost' /\ AnswersTrue'
<1>1. OnePlace'
  BY DEF OnePlace, QueuedOK, HeldOK, Untouched
<1>2. NoneLost'
  BY DEF NoneLost, Answered, Taken
<1>3. AnswersTrue'
  BY DEF AnswersTrue
<1>. QED  BY <1>1, <1>2, <1>3

\* Neither the queue, nor the holders of the jobs, nor the C process are involved.
LEMMA LocalStep ==
    ASSUME PipesInv, NEW e \in Executors,
           TypeOK', StepsOK', ExecutorInv(e)',
           \A f \in Executors \ {e} : UNCHANGED Fields(f),
           UNCHANGED <<javaVars, job, exitValue, process>>,
           pc[e] = "ended" => pc'[e] = "ended",
           compute[e] = "ended" => compute'[e] = "ended"
    PROVE  PipesInv'
<1>. USE DEF PipesInv, javaVars
<1>1. \A f \in Executors : ExecutorInv(f)'
  BY OtherExecutor
<1>2. OnePlace' /\ NoneLost' /\ AnswersTrue'
  BY PlacesKept
<1>3. ProcessOK'
  BY DEF ProcessOK, Fields
<1>. QED  BY <1>1, <1>2, <1>3

\* The sandbox and the arguments of the task are ready.
LEMMA PrepareTaskStep ==
    ASSUME PipesInv, NEW e \in Executors,
           pc[e] = "prepare", Goto(e, "task_open"),
           UNCHANGED <<javaVars, job, retries, sem, readerVars, cVars, pipeVars>>
    PROVE  PipesInv'
<1>. USE DEF PipesInv
<1>1. /\ pc[e] = "prepare"
      /\ pc' = [pc EXCEPT ![e] = "task_open"]
  BY DEF Goto
<1>2. UNCHANGED <<javaVars, exitValue, process, job, retries, sem, writePipe, readPipe,
         reader, line, jobIdsToStatus, jobIdsToWaiters, mustStop, stopSem, compute,
         command>>
  BY DEF Goto, execVars, readerVars, cVars, pipeVars
<1>3. /\ pc[e] = "prepare"
      /\ pc'[e] = "task_open"
      /\ ExecutorInv(e)
  BY <1>1 DEF TypeOK, StepsOK
<1>4. TypeOK'
  BY <1>2 DEF javaVars, TypeOK
<1>5. StepsOK'
  BY <1>1, <1>2 DEF StepsOK, JobSteps, QuitSteps, ReaderSteps, ComputeSteps
<1>6. ExecutorInv(e)'
  BY <1>2, <1>3 DEF ExecutorInv, javaVars, HoldsJob, WaiterOK, FieldsOK, EndOK,
     JobSteps, PendingOK, ResultsOK, StatusKept, Released, LateResults, NoResult,
     HasStatus
<1>7. \A f \in Executors \ {e} : UNCHANGED Fields(f)
  BY <1>1, <1>2 DEF Fields, StepsOK, TypeOK
<1>. QED  BY <1>2, <1>3, <1>4, <1>5, <1>6, <1>7, LocalStep

\* The executor opens the pipe to its compute thread, for a task or to quit.
LEMMA OpenTaskPipeStep ==
    ASSUME PipesInv, NEW e \in Executors,
           \/ OpenTaskPipe(e, "task_open", "task_write")
           \/ OpenTaskPipe(e, "quit_open", "quit_write")
    PROVE  PipesInv'
<1>. USE DEF PipesInv
<1> DEFINE step == IF pc[e] = "task_open" THEN "task_write" ELSE "quit_write"
<1>1. /\ \/ pc[e] = "task_open" /\ step = "task_write"
         \/ pc[e] = "quit_open" /\ step = "quit_write"
      /\ pc' = [pc EXCEPT ![e] = step]
      /\ writePipe' = [writePipe EXCEPT ![e] = IF PipesGone THEN @ ELSE OpenWrite(@, e)]
  BY DEF OpenTaskPipe, Goto
<1>2. UNCHANGED <<javaVars, exitValue, process, job, retries, sem, readPipe, reader,
         line, jobIdsToStatus, jobIdsToWaiters, mustStop, stopSem, compute, command>>
  BY DEF OpenTaskPipe, Goto, execVars, readerVars, cVars, pipeVars
<1>3. /\ \/ pc[e] = "task_open" /\ step = "task_write"
         \/ pc[e] = "quit_open" /\ step = "quit_write"
      /\ pc'[e] = step
      /\ writePipe'[e] = IF PipesGone THEN writePipe[e] ELSE OpenWrite(writePipe[e], e)
      /\ ExecutorInv(e)
  BY <1>1 DEF TypeOK, StepsOK
<1>4. /\ writePipe'[e] \in FifoType(Executors, Jobs \cup {Quit})
      /\ writePipe'[e].lines = writePipe[e].lines
  <2>1. writePipe[e] \in FifoType(Executors, Jobs \cup {Quit})
    BY DEF TypeOK
  <2>. QED  BY <1>3, <2>1, OpenWriteFifo
<1>5. TypeOK'
  <2>1. writePipe' \in [Executors -> FifoType(Executors, Jobs \cup {Quit})]
    BY <1>1, <1>4 DEF TypeOK
  <2>. QED  BY <1>2, <2>1 DEF javaVars, TypeOK
<1>6. StepsOK'
  BY <1>1, <1>2 DEF StepsOK, JobSteps, QuitSteps, ReaderSteps, ComputeSteps
<1>7. ExecutorInv(e)'
  BY <1>2, <1>3, <1>4 DEF ExecutorInv, javaVars, HoldsJob, WaiterOK, FieldsOK, EndOK,
     JobSteps, PendingOK, ResultsOK, StatusKept, Released, LateResults, NoResult,
     HasStatus
<1>8. \A f \in Executors \ {e} : UNCHANGED Fields(f)
  BY <1>1, <1>2 DEF Fields, StepsOK, TypeOK
<1>. QED  BY <1>2, <1>3, <1>5, <1>6, <1>7, <1>8, LocalStep

\* executeExternal writes the command of the task.
LEMMA WriteTaskStep ==
    ASSUME PipesInv, NEW e \in Executors,
           pc[e] = "task_write", Goto(e, "task_close"),
           writePipe' = [writePipe EXCEPT ![e] = IF PipesGone THEN @ ELSE Write(@, job[e])],
           UNCHANGED <<javaVars, job, retries, sem, readerVars, cVars, readPipe>>
    PROVE  PipesInv'
<1>. USE DEF PipesInv
<1>1. /\ pc[e] = "task_write"
      /\ pc' = [pc EXCEPT ![e] = "task_close"]
      /\ writePipe' = [writePipe EXCEPT ![e] = IF PipesGone THEN @ ELSE Write(@, job[e])]
  BY DEF Goto
<1>2. UNCHANGED <<javaVars, exitValue, process, job, retries, sem, readPipe, reader,
         line, jobIdsToStatus, jobIdsToWaiters, mustStop, stopSem, compute, command>>
  BY DEF Goto, execVars, readerVars, cVars, pipeVars
<1>3. /\ pc[e] = "task_write"
      /\ pc'[e] = "task_close"
      /\ writePipe'[e] = IF PipesGone THEN writePipe[e] ELSE Write(writePipe[e], job[e])
      /\ ExecutorInv(e)
  BY <1>1 DEF TypeOK, StepsOK
<1>4. /\ writePipe'[e] \in FifoType(Executors, Jobs \cup {Quit})
      /\ Items(writePipe'[e].lines) \subseteq Items(writePipe[e].lines) \cup {job[e]}
  <2>1. writePipe[e] \in FifoType(Executors, Jobs \cup {Quit})
    BY DEF TypeOK
  <2>2. job[e] \in Jobs \cup {Quit}
    BY <1>3 DEF ExecutorInv, HoldsJob, JobSteps
  <2>. QED  BY <1>3, <2>1, <2>2, WriteFifo
<1>5. TypeOK'
  <2>1. writePipe' \in [Executors -> FifoType(Executors, Jobs \cup {Quit})]
    BY <1>1, <1>4 DEF TypeOK
  <2>. QED  BY <1>2, <2>1 DEF javaVars, TypeOK
<1>6. StepsOK'
  BY <1>1, <1>2 DEF StepsOK, JobSteps, QuitSteps, ReaderSteps, ComputeSteps
<1>7. ExecutorInv(e)'
  BY <1>2, <1>3, <1>4 DEF ExecutorInv, javaVars, HoldsJob, WaiterOK, FieldsOK, EndOK,
     JobSteps, PendingOK, ResultsOK, StatusKept, Released, LateResults, NoResult,
     HasStatus
<1>8. \A f \in Executors \ {e} : UNCHANGED Fields(f)
  BY <1>1, <1>2 DEF Fields, StepsOK, TypeOK
<1>. QED  BY <1>2, <1>3, <1>5, <1>6, <1>7, <1>8, LocalStep

\* The write failed, and the loop of executeExternal opens the pipe again.
LEMMA RetryTaskStep ==
    ASSUME PipesInv, NEW e \in Executors,
           pc[e] = "task_write", Goto(e, "task_open"), retries[e] + 1 < MAX_RETRIES,
           writePipe' = [writePipe EXCEPT ![e] = CloseWrite(@, e)],
           retries' = [retries EXCEPT ![e] = @ + 1],
           UNCHANGED <<javaVars, job, sem, readerVars, cVars, readPipe>>
    PROVE  PipesInv'
<1>. USE DEF PipesInv
<1>1. /\ pc[e] = "task_write"
      /\ retries[e] + 1 < MAX_RETRIES
      /\ pc' = [pc EXCEPT ![e] = "task_open"]
      /\ retries' = [retries EXCEPT ![e] = @ + 1]
      /\ writePipe' = [writePipe EXCEPT ![e] = CloseWrite(@, e)]
  BY DEF Goto
<1>2. UNCHANGED <<javaVars, exitValue, process, job, sem, readPipe, reader, line,
         jobIdsToStatus, jobIdsToWaiters, mustStop, stopSem, compute, command>>
  BY DEF Goto, execVars, readerVars, cVars, pipeVars
<1>3. /\ pc[e] = "task_write"
      /\ retries[e] + 1 < MAX_RETRIES
      /\ pc'[e] = "task_open"
      /\ retries'[e] = retries[e] + 1
      /\ writePipe'[e] = CloseWrite(writePipe[e], e)
      /\ ExecutorInv(e)
  BY <1>1 DEF TypeOK, StepsOK
<1>4. /\ writePipe'[e] \in FifoType(Executors, Jobs \cup {Quit})
      /\ Items(writePipe'[e].lines) \subseteq Items(writePipe[e].lines)
  <2>1. writePipe[e] \in FifoType(Executors, Jobs \cup {Quit})
    BY DEF TypeOK
  <2>. QED  BY <1>3, <2>1, CloseWriteFifo
<1>5. TypeOK'
  <2>1. retries' \in [Executors -> 0 .. MAX_RETRIES]
    BY <1>1, <1>3, <1>4, JobsAreNumbers, MaxRetriesAssumption DEF TypeOK, ExecutorInv,
       FieldsOK, WaiterOK, HoldsJob, JobSteps, ResultsOK
  <2>2. writePipe' \in [Executors -> FifoType(Executors, Jobs \cup {Quit})]
    BY <1>1, <1>4 DEF TypeOK
  <2>. QED  BY <1>2, <2>1, <2>2 DEF javaVars, TypeOK
<1>6. StepsOK'
  BY <1>1, <1>2 DEF StepsOK, JobSteps, QuitSteps, ReaderSteps, ComputeSteps
<1>7. ExecutorInv(e)'
  BY <1>2, <1>3, <1>4 DEF ExecutorInv, javaVars, HoldsJob, WaiterOK, FieldsOK, EndOK,
     JobSteps, PendingOK, ResultsOK, StatusKept, Released, LateResults, NoResult,
     HasStatus
<1>8. \A f \in Executors \ {e} : UNCHANGED Fields(f)
  BY <1>1, <1>2 DEF Fields, StepsOK, TypeOK
<1>. QED  BY <1>2, <1>3, <1>5, <1>6, <1>7, <1>8, LocalStep

\* The executor closes the pipe, after a task or after quit.
LEMMA CloseTaskPipeStep ==
    ASSUME PipesInv, NEW e \in Executors,
           \/ CloseTaskPipe(e, "task_close", "ask")
           \/ CloseTaskPipe(e, "quit_close", "must_stop")
    PROVE  PipesInv'
<1>. USE DEF PipesInv
<1> DEFINE step == IF pc[e] = "task_close" THEN "ask" ELSE "must_stop"
<1>1. /\ \/ pc[e] = "task_close" /\ step = "ask"
         \/ pc[e] = "quit_close" /\ step = "must_stop"
      /\ pc' = [pc EXCEPT ![e] = step]
      /\ writePipe' = [writePipe EXCEPT ![e] = CloseWrite(@, e)]
  BY DEF CloseTaskPipe, Goto
<1>2. UNCHANGED <<javaVars, exitValue, process, job, retries, sem, readPipe, reader,
         line, jobIdsToStatus, jobIdsToWaiters, mustStop, stopSem, compute, command>>
  BY DEF CloseTaskPipe, Goto, execVars, readerVars, cVars, pipeVars
<1>3. /\ \/ pc[e] = "task_close" /\ step = "ask"
         \/ pc[e] = "quit_close" /\ step = "must_stop"
      /\ pc'[e] = step
      /\ writePipe'[e] = CloseWrite(writePipe[e], e)
      /\ ExecutorInv(e)
  BY <1>1 DEF TypeOK, StepsOK
<1>4. /\ writePipe'[e] \in FifoType(Executors, Jobs \cup {Quit})
      /\ Items(writePipe'[e].lines) \subseteq Items(writePipe[e].lines)
  <2>1. writePipe[e] \in FifoType(Executors, Jobs \cup {Quit})
    BY DEF TypeOK
  <2>. QED  BY <1>3, <2>1, CloseWriteFifo
<1>5. TypeOK'
  <2>1. writePipe' \in [Executors -> FifoType(Executors, Jobs \cup {Quit})]
    BY <1>1, <1>4 DEF TypeOK
  <2>. QED  BY <1>2, <2>1 DEF javaVars, TypeOK
<1>6. StepsOK'
  BY <1>1, <1>2 DEF StepsOK, JobSteps, QuitSteps, ReaderSteps, ComputeSteps
<1>7. ExecutorInv(e)'
  BY <1>2, <1>3, <1>4 DEF ExecutorInv, javaVars, HoldsJob, WaiterOK, FieldsOK, EndOK,
     JobSteps, PendingOK, ResultsOK, StatusKept, Released, LateResults, NoResult,
     HasStatus
<1>8. \A f \in Executors \ {e} : UNCHANGED Fields(f)
  BY <1>1, <1>2 DEF Fields, StepsOK, TypeOK
<1>. QED  BY <1>2, <1>3, <1>5, <1>6, <1>7, <1>8, LocalStep

\* askForTaskEnd looks for the status, with a new semaphore.
LEMMA AskForTaskEndStep ==
    ASSUME PipesInv, NEW e \in Executors,
           AskForTaskEnd(e)
    PROVE  PipesInv'
<1>. USE DEF PipesInv
<1>1. /\ pc[e] = "ask"
      /\ pc' = [pc EXCEPT ![e] = IF HasStatus(e, job[e]) THEN "acquire" ELSE "register"]
      /\ sem' = [sem EXCEPT ![e] = IF HasStatus(e, job[e]) THEN 1 ELSE 0]
  BY DEF AskForTaskEnd, Goto
<1>2. UNCHANGED <<javaVars, exitValue, process, job, retries, writePipe, readPipe,
         reader, line, jobIdsToStatus, jobIdsToWaiters, mustStop, stopSem, compute,
         command>>
  BY DEF AskForTaskEnd, Goto, execVars, readerVars, cVars, pipeVars
<1>3. /\ pc[e] = "ask"
      /\ pc'[e] = IF HasStatus(e, job[e]) THEN "acquire" ELSE "register"
      /\ sem'[e] = IF HasStatus(e, job[e]) THEN 1 ELSE 0
      /\ ExecutorInv(e)
  BY <1>1 DEF TypeOK, StepsOK
<1>4. TypeOK'
  <2>1. sem' \in [Executors -> 0 .. 1]
    BY <1>1, <1>3, JobsAreNumbers, MaxRetriesAssumption DEF TypeOK, ExecutorInv,
       FieldsOK, WaiterOK, HoldsJob, JobSteps, ResultsOK
  <2>. QED  BY <1>2, <2>1 DEF javaVars, TypeOK
<1>5. StepsOK'
  BY <1>1, <1>2 DEF StepsOK, JobSteps, QuitSteps, ReaderSteps, ComputeSteps
<1>6. ExecutorInv(e)'
  BY <1>2, <1>3 DEF ExecutorInv, javaVars, HoldsJob, WaiterOK, FieldsOK, EndOK,
     JobSteps, PendingOK, ResultsOK, StatusKept, Released, LateResults, NoResult,
     HasStatus
<1>7. \A f \in Executors \ {e} : UNCHANGED Fields(f)
  BY <1>1, <1>2 DEF Fields, StepsOK, TypeOK
<1>. QED  BY <1>2, <1>3, <1>4, <1>5, <1>6, <1>7, LocalStep

\* askForTaskEnd registers the waiter.
LEMMA RegisterWaiterStep ==
    ASSUME PipesInv, NEW e \in Executors,
           RegisterWaiter(e)
    PROVE  PipesInv'
<1>. USE DEF PipesInv
<1>1. /\ pc[e] = "register"
      /\ pc' = [pc EXCEPT ![e] = "acquire"]
      /\ jobIdsToWaiters' = [jobIdsToWaiters EXCEPT ![e] = @ \cup {job[e]}]
  BY DEF RegisterWaiter, Goto
<1>2. UNCHANGED <<javaVars, exitValue, process, job, retries, sem, writePipe, readPipe,
         reader, line, jobIdsToStatus, mustStop, stopSem, compute, command>>
  BY DEF RegisterWaiter, Goto, execVars, readerVars, cVars, pipeVars
<1>3. /\ pc[e] = "register"
      /\ pc'[e] = "acquire"
      /\ jobIdsToWaiters'[e] = jobIdsToWaiters[e] \cup {job[e]}
      /\ ExecutorInv(e)
  BY <1>1 DEF TypeOK, StepsOK
<1>4. TypeOK'
  <2>1. jobIdsToWaiters' \in [Executors -> SUBSET Jobs]
    BY <1>1, <1>3, JobsAreNumbers, MaxRetriesAssumption DEF TypeOK, ExecutorInv,
       FieldsOK, WaiterOK, HoldsJob, JobSteps, ResultsOK
  <2>. QED  BY <1>2, <2>1 DEF javaVars, TypeOK
<1>5. StepsOK'
  BY <1>1, <1>2 DEF StepsOK, JobSteps, QuitSteps, ReaderSteps, ComputeSteps
<1>6. ExecutorInv(e)'
  BY <1>2, <1>3 DEF ExecutorInv, javaVars, HoldsJob, WaiterOK, FieldsOK, EndOK,
     JobSteps, PendingOK, ResultsOK, StatusKept, Released, LateResults, NoResult,
     HasStatus
<1>7. \A f \in Executors \ {e} : UNCHANGED Fields(f)
  BY <1>1, <1>2 DEF Fields, StepsOK, TypeOK
<1>. QED  BY <1>2, <1>3, <1>4, <1>5, <1>6, <1>7, LocalStep

\* The executor is released.
LEMMA AcquireTaskEndStep ==
    ASSUME PipesInv, NEW e \in Executors,
           AcquireTaskEnd(e)
    PROVE  PipesInv'
<1>. USE DEF PipesInv
<1>1. /\ pc[e] = "acquire"
      /\ sem[e] > 0
      /\ pc' = [pc EXCEPT ![e] = "status"]
      /\ sem' = [sem EXCEPT ![e] = @ - 1]
  BY DEF AcquireTaskEnd, Goto
<1>2. UNCHANGED <<javaVars, exitValue, process, job, retries, writePipe, readPipe,
         reader, line, jobIdsToStatus, jobIdsToWaiters, mustStop, stopSem, compute,
         command>>
  BY DEF AcquireTaskEnd, Goto, execVars, readerVars, cVars, pipeVars
<1>3. /\ pc[e] = "acquire"
      /\ sem[e] > 0
      /\ pc'[e] = "status"
      /\ sem'[e] = sem[e] - 1
      /\ ExecutorInv(e)
  BY <1>1 DEF TypeOK, StepsOK
<1>4. TypeOK'
  <2>1. sem' \in [Executors -> 0 .. 1]
    BY <1>1, <1>3, JobsAreNumbers, MaxRetriesAssumption DEF TypeOK, ExecutorInv,
       FieldsOK, WaiterOK, HoldsJob, JobSteps, ResultsOK
  <2>. QED  BY <1>2, <2>1 DEF javaVars, TypeOK
<1>5. StepsOK'
  BY <1>1, <1>2 DEF StepsOK, JobSteps, QuitSteps, ReaderSteps, ComputeSteps
<1>6. ExecutorInv(e)'
  BY <1>2, <1>3 DEF ExecutorInv, javaVars, HoldsJob, WaiterOK, FieldsOK, EndOK,
     JobSteps, PendingOK, ResultsOK, StatusKept, Released, LateResults, NoResult,
     HasStatus
<1>7. \A f \in Executors \ {e} : UNCHANGED Fields(f)
  BY <1>1, <1>2 DEF Fields, StepsOK, TypeOK
<1>. QED  BY <1>2, <1>3, <1>4, <1>5, <1>6, <1>7, LocalStep

\* finish writes quit, once.
LEMMA WriteQuitStep ==
    ASSUME PipesInv, NEW e \in Executors,
           WriteQuit(e)
    PROVE  PipesInv'
<1>. USE DEF PipesInv
<1>1. /\ pc[e] = "quit_write"
      /\ pc' = [pc EXCEPT ![e] = "quit_close"]
      /\ writePipe' = [writePipe EXCEPT ![e] = IF ~ PipesGone /\ CanWrite(@) THEN Write(@, Quit) ELSE @]
  BY DEF WriteQuit, Goto
<1>2. UNCHANGED <<javaVars, exitValue, process, job, retries, sem, readPipe, reader,
         line, jobIdsToStatus, jobIdsToWaiters, mustStop, stopSem, compute, command>>
  BY DEF WriteQuit, Goto, execVars, readerVars, cVars, pipeVars
<1>3. /\ pc[e] = "quit_write"
      /\ pc'[e] = "quit_close"
      /\ writePipe'[e] = IF ~ PipesGone /\ CanWrite(writePipe[e]) THEN Write(writePipe[e], Quit) ELSE writePipe[e]
      /\ ExecutorInv(e)
  BY <1>1 DEF TypeOK, StepsOK
<1>4. /\ writePipe'[e] \in FifoType(Executors, Jobs \cup {Quit})
      /\ Items(writePipe'[e].lines) \subseteq Items(writePipe[e].lines) \cup {Quit}
  <2>1. writePipe[e] \in FifoType(Executors, Jobs \cup {Quit})
    BY DEF TypeOK
  <2>2. Quit \in Jobs \cup {Quit}
    OBVIOUS
  <2>. QED  BY <1>3, <2>1, <2>2, WriteFifo
<1>5. TypeOK'
  <2>1. writePipe' \in [Executors -> FifoType(Executors, Jobs \cup {Quit})]
    BY <1>1, <1>4 DEF TypeOK
  <2>. QED  BY <1>2, <2>1 DEF javaVars, TypeOK
<1>6. StepsOK'
  BY <1>1, <1>2 DEF StepsOK, JobSteps, QuitSteps, ReaderSteps, ComputeSteps
<1>7. ExecutorInv(e)'
  BY <1>2, <1>3, <1>4 DEF ExecutorInv, javaVars, HoldsJob, WaiterOK, FieldsOK, EndOK,
     JobSteps, PendingOK, ResultsOK, StatusKept, Released, LateResults, NoResult,
     HasStatus
<1>8. \A f \in Executors \ {e} : UNCHANGED Fields(f)
  BY <1>1, <1>2 DEF Fields, StepsOK, TypeOK
<1>. QED  BY <1>2, <1>3, <1>5, <1>6, <1>7, <1>8, LocalStep

\* shutdown sets the flag of the reader.
LEMMA SetMustStopStep ==
    ASSUME PipesInv, NEW e \in Executors,
           SetMustStop(e)
    PROVE  PipesInv'
<1>. USE DEF PipesInv
<1>1. /\ pc[e] = "must_stop"
      /\ pc' = [pc EXCEPT ![e] = "stop_sem"]
      /\ mustStop' = [mustStop EXCEPT ![e] = TRUE]
  BY DEF SetMustStop, Goto
<1>2. UNCHANGED <<javaVars, exitValue, process, job, retries, sem, writePipe, readPipe,
         reader, line, jobIdsToStatus, jobIdsToWaiters, stopSem, compute, command>>
  BY DEF SetMustStop, Goto, execVars, readerVars, cVars, pipeVars
<1>3. /\ pc[e] = "must_stop"
      /\ pc'[e] = "stop_sem"
      /\ mustStop'[e] = TRUE
      /\ ExecutorInv(e)
  BY <1>1 DEF TypeOK, StepsOK
<1>4. TypeOK'
  BY <1>2 DEF javaVars, TypeOK
<1>5. StepsOK'
  BY <1>1, <1>2 DEF StepsOK, JobSteps, QuitSteps, ReaderSteps, ComputeSteps
<1>6. ExecutorInv(e)'
  BY <1>2, <1>3 DEF ExecutorInv, javaVars, HoldsJob, WaiterOK, FieldsOK, EndOK,
     JobSteps, PendingOK, ResultsOK, StatusKept, Released, LateResults, NoResult,
     HasStatus
<1>7. \A f \in Executors \ {e} : UNCHANGED Fields(f)
  BY <1>1, <1>2 DEF Fields, StepsOK, TypeOK
<1>. QED  BY <1>2, <1>3, <1>4, <1>5, <1>6, <1>7, LocalStep

\* shutdown sets the semaphore of the reader.
LEMMA SetStopSemStep ==
    ASSUME PipesInv, NEW e \in Executors,
           SetStopSem(e)
    PROVE  PipesInv'
<1>. USE DEF PipesInv
<1>1. /\ pc[e] = "stop_sem"
      /\ pc' = [pc EXCEPT ![e] = "reader_open"]
      /\ stopSem' = [stopSem EXCEPT ![e] = "set"]
  BY DEF SetStopSem, Goto
<1>2. UNCHANGED <<javaVars, exitValue, process, job, retries, sem, writePipe, readPipe,
         reader, line, jobIdsToStatus, jobIdsToWaiters, mustStop, compute, command>>
  BY DEF SetStopSem, Goto, execVars, readerVars, cVars, pipeVars
<1>3. /\ pc[e] = "stop_sem"
      /\ pc'[e] = "reader_open"
      /\ stopSem'[e] = "set"
      /\ ExecutorInv(e)
  BY <1>1 DEF TypeOK, StepsOK
<1>4. TypeOK'
  <2>1. stopSem' \in [Executors -> {"null", "set", "released"}]
    BY <1>1, <1>3, JobsAreNumbers, MaxRetriesAssumption DEF TypeOK, ExecutorInv,
       FieldsOK, WaiterOK, HoldsJob, JobSteps, ResultsOK
  <2>. QED  BY <1>2, <2>1 DEF javaVars, TypeOK
<1>5. StepsOK'
  BY <1>1, <1>2 DEF StepsOK, JobSteps, QuitSteps, ReaderSteps, ComputeSteps
<1>6. ExecutorInv(e)'
  BY <1>2, <1>3 DEF ExecutorInv, javaVars, HoldsJob, WaiterOK, FieldsOK, EndOK,
     JobSteps, PendingOK, ResultsOK, StatusKept, Released, LateResults, NoResult,
     HasStatus
<1>7. \A f \in Executors \ {e} : UNCHANGED Fields(f)
  BY <1>1, <1>2 DEF Fields, StepsOK, TypeOK
<1>. QED  BY <1>2, <1>3, <1>4, <1>5, <1>6, <1>7, LocalStep

\* shutdown opens the pipe of the reader.
LEMMA OpenReadPipeStep ==
    ASSUME PipesInv, NEW e \in Executors,
           OpenReadPipe(e)
    PROVE  PipesInv'
<1>. USE DEF PipesInv
<1>1. /\ pc[e] = "reader_open"
      /\ pc' = [pc EXCEPT ![e] = "reader_write"]
      /\ readPipe' = [readPipe EXCEPT ![e] = IF PipesGone THEN @ ELSE OpenWrite(@, e)]
  BY DEF OpenReadPipe, Goto
<1>2. UNCHANGED <<javaVars, exitValue, process, job, retries, sem, writePipe, reader,
         line, jobIdsToStatus, jobIdsToWaiters, mustStop, stopSem, compute, command>>
  BY DEF OpenReadPipe, Goto, execVars, readerVars, cVars, pipeVars
<1>3. /\ pc[e] = "reader_open"
      /\ pc'[e] = "reader_write"
      /\ readPipe'[e] = IF PipesGone THEN readPipe[e] ELSE OpenWrite(readPipe[e], e)
      /\ ExecutorInv(e)
  BY <1>1 DEF TypeOK, StepsOK
<1>4. /\ readPipe'[e] \in FifoType(Executors \cup {"compute"}, Results \cup {Quit})
      /\ readPipe'[e].lines = readPipe[e].lines
  <2>1. readPipe[e] \in FifoType(Executors \cup {"compute"}, Results \cup {Quit})
    BY DEF TypeOK
  <2>2. e \in Executors \cup {"compute"}
    OBVIOUS
  <2>. QED  BY <1>3, <2>1, <2>2, OpenWriteFifo
<1>5. TypeOK'
  <2>1. readPipe' \in [Executors -> FifoType(Executors \cup {"compute"}, Results \cup {Quit})]
    BY <1>1, <1>4 DEF TypeOK
  <2>. QED  BY <1>2, <2>1 DEF javaVars, TypeOK
<1>6. StepsOK'
  BY <1>1, <1>2 DEF StepsOK, JobSteps, QuitSteps, ReaderSteps, ComputeSteps
<1>7. ExecutorInv(e)'
  BY <1>2, <1>3, <1>4 DEF ExecutorInv, javaVars, HoldsJob, WaiterOK, FieldsOK, EndOK,
     JobSteps, PendingOK, ResultsOK, StatusKept, Released, LateResults, NoResult,
     HasStatus
<1>8. \A f \in Executors \ {e} : UNCHANGED Fields(f)
  BY <1>1, <1>2 DEF Fields, StepsOK, TypeOK
<1>. QED  BY <1>2, <1>3, <1>5, <1>6, <1>7, <1>8, LocalStep

\* shutdown writes quit to the pipe of the reader ...
LEMMA WriteReaderQuitStep ==
    ASSUME PipesInv, NEW e \in Executors,
           pc[e] = "reader_write", Goto(e, "reader_close"),
           readPipe' = [readPipe EXCEPT ![e] = IF PipesGone THEN @ ELSE Write(@, Quit)],
           UNCHANGED <<javaVars, job, retries, sem, readerVars, cVars, writePipe>>
    PROVE  PipesInv'
<1>. USE DEF PipesInv
<1>1. /\ pc[e] = "reader_write"
      /\ pc' = [pc EXCEPT ![e] = "reader_close"]
      /\ readPipe' = [readPipe EXCEPT ![e] = IF PipesGone THEN @ ELSE Write(@, Quit)]
  BY DEF Goto
<1>2. UNCHANGED <<javaVars, exitValue, process, job, retries, sem, writePipe, reader,
         line, jobIdsToStatus, jobIdsToWaiters, mustStop, stopSem, compute, command>>
  BY DEF Goto, execVars, readerVars, cVars, pipeVars
<1>3. /\ pc[e] = "reader_write"
      /\ pc'[e] = "reader_close"
      /\ readPipe'[e] = IF PipesGone THEN readPipe[e] ELSE Write(readPipe[e], Quit)
      /\ ExecutorInv(e)
  BY <1>1 DEF TypeOK, StepsOK
<1>4. /\ readPipe'[e] \in FifoType(Executors \cup {"compute"}, Results \cup {Quit})
      /\ Items(readPipe'[e].lines) \subseteq Items(readPipe[e].lines) \cup {Quit}
  <2>1. readPipe[e] \in FifoType(Executors \cup {"compute"}, Results \cup {Quit})
    BY DEF TypeOK
  <2>2. Quit \in Results \cup {Quit}
    OBVIOUS
  <2>. QED  BY <1>3, <2>1, <2>2, WriteFifo
<1>5. TypeOK'
  <2>1. readPipe' \in [Executors -> FifoType(Executors \cup {"compute"}, Results \cup {Quit})]
    BY <1>1, <1>4 DEF TypeOK
  <2>. QED  BY <1>2, <2>1 DEF javaVars, TypeOK
<1>6. StepsOK'
  BY <1>1, <1>2 DEF StepsOK, JobSteps, QuitSteps, ReaderSteps, ComputeSteps
<1>7. ExecutorInv(e)'
  BY <1>2, <1>3, <1>4 DEF ExecutorInv, javaVars, HoldsJob, WaiterOK, FieldsOK, EndOK,
     JobSteps, PendingOK, ResultsOK, StatusKept, Released, LateResults, NoResult,
     HasStatus
<1>8. \A f \in Executors \ {e} : UNCHANGED Fields(f)
  BY <1>1, <1>2 DEF Fields, StepsOK, TypeOK
<1>. QED  BY <1>2, <1>3, <1>5, <1>6, <1>7, <1>8, LocalStep

\* ... or the write fails and is tried again.
LEMMA RetryReaderQuitStep ==
    ASSUME PipesInv, NEW e \in Executors,
           pc[e] = "reader_write",
           Goto(e, IF retries[e] + 1 < MAX_RETRIES THEN "reader_open" ELSE "error"),
           readPipe' = [readPipe EXCEPT ![e] = CloseWrite(@, e)],
           retries' = [retries EXCEPT ![e] = @ + 1],
           UNCHANGED <<javaVars, job, sem, readerVars, cVars, writePipe>>
    PROVE  PipesInv'
<1>. USE DEF PipesInv
<1>1. /\ pc[e] = "reader_write"
      /\ pc' = [pc EXCEPT ![e] = IF retries[e] + 1 < MAX_RETRIES THEN "reader_open" ELSE "error"]
      /\ retries' = [retries EXCEPT ![e] = @ + 1]
      /\ readPipe' = [readPipe EXCEPT ![e] = CloseWrite(@, e)]
  BY DEF Goto
<1>2. UNCHANGED <<javaVars, exitValue, process, job, sem, writePipe, reader, line,
         jobIdsToStatus, jobIdsToWaiters, mustStop, stopSem, compute, command>>
  BY DEF Goto, execVars, readerVars, cVars, pipeVars
<1>3. /\ pc[e] = "reader_write"
      /\ pc'[e] = IF retries[e] + 1 < MAX_RETRIES THEN "reader_open" ELSE "error"
      /\ retries'[e] = retries[e] + 1
      /\ readPipe'[e] = CloseWrite(readPipe[e], e)
      /\ ExecutorInv(e)
  BY <1>1 DEF TypeOK, StepsOK
<1>4. /\ readPipe'[e] \in FifoType(Executors \cup {"compute"}, Results \cup {Quit})
      /\ Items(readPipe'[e].lines) \subseteq Items(readPipe[e].lines)
  <2>1. readPipe[e] \in FifoType(Executors \cup {"compute"}, Results \cup {Quit})
    BY DEF TypeOK
  <2>. QED  BY <1>3, <2>1, CloseWriteFifo
<1>5. TypeOK'
  <2>1. retries' \in [Executors -> 0 .. MAX_RETRIES]
    BY <1>1, <1>3, <1>4, JobsAreNumbers, MaxRetriesAssumption DEF TypeOK, ExecutorInv,
       FieldsOK, WaiterOK, HoldsJob, JobSteps, ResultsOK
  <2>2. readPipe' \in [Executors -> FifoType(Executors \cup {"compute"}, Results \cup {Quit})]
    BY <1>1, <1>4 DEF TypeOK
  <2>. QED  BY <1>2, <2>1, <2>2 DEF javaVars, TypeOK
<1>6. StepsOK'
  BY <1>1, <1>2 DEF StepsOK, JobSteps, QuitSteps, ReaderSteps, ComputeSteps
<1>7. ExecutorInv(e)'
  BY <1>2, <1>3, <1>4 DEF ExecutorInv, javaVars, HoldsJob, WaiterOK, FieldsOK, EndOK,
     JobSteps, PendingOK, ResultsOK, StatusKept, Released, LateResults, NoResult,
     HasStatus
<1>8. \A f \in Executors \ {e} : UNCHANGED Fields(f)
  BY <1>1, <1>2 DEF Fields, StepsOK, TypeOK
<1>. QED  BY <1>2, <1>3, <1>5, <1>6, <1>7, <1>8, LocalStep

\* shutdown closes the pipe of the reader.
LEMMA CloseReadPipeStep ==
    ASSUME PipesInv, NEW e \in Executors,
           CloseReadPipe(e)
    PROVE  PipesInv'
<1>. USE DEF PipesInv
<1>1. /\ pc[e] = "reader_close"
      /\ pc' = [pc EXCEPT ![e] = "await_reader"]
      /\ readPipe' = [readPipe EXCEPT ![e] = CloseWrite(@, e)]
  BY DEF CloseReadPipe, Goto
<1>2. UNCHANGED <<javaVars, exitValue, process, job, retries, sem, writePipe, reader,
         line, jobIdsToStatus, jobIdsToWaiters, mustStop, stopSem, compute, command>>
  BY DEF CloseReadPipe, Goto, execVars, readerVars, cVars, pipeVars
<1>3. /\ pc[e] = "reader_close"
      /\ pc'[e] = "await_reader"
      /\ readPipe'[e] = CloseWrite(readPipe[e], e)
      /\ ExecutorInv(e)
  BY <1>1 DEF TypeOK, StepsOK
<1>4. /\ readPipe'[e] \in FifoType(Executors \cup {"compute"}, Results \cup {Quit})
      /\ Items(readPipe'[e].lines) \subseteq Items(readPipe[e].lines)
  <2>1. readPipe[e] \in FifoType(Executors \cup {"compute"}, Results \cup {Quit})
    BY DEF TypeOK
  <2>. QED  BY <1>3, <2>1, CloseWriteFifo
<1>5. TypeOK'
  <2>1. readPipe' \in [Executors -> FifoType(Executors \cup {"compute"}, Results \cup {Quit})]
    BY <1>1, <1>4 DEF TypeOK
  <2>. QED  BY <1>2, <2>1 DEF javaVars, TypeOK
<1>6. StepsOK'
  BY <1>1, <1>2 DEF StepsOK, JobSteps, QuitSteps, ReaderSteps, ComputeSteps
<1>7. ExecutorInv(e)'
  BY <1>2, <1>3, <1>4 DEF ExecutorInv, javaVars, HoldsJob, WaiterOK, FieldsOK, EndOK,
     JobSteps, PendingOK, ResultsOK, StatusKept, Released, LateResults, NoResult,
     HasStatus
<1>8. \A f \in Executors \ {e} : UNCHANGED Fields(f)
  BY <1>1, <1>2 DEF Fields, StepsOK, TypeOK
<1>. QED  BY <1>2, <1>3, <1>5, <1>6, <1>7, <1>8, LocalStep

\* The executor ends, as its reader has released it.
LEMMA ThreadEndStep ==
    ASSUME PipesInv, NEW e \in Executors,
           ThreadEnd(e)
    PROVE  PipesInv'
<1>. USE DEF PipesInv
<1>1. /\ pc[e] = "await_reader"
      /\ stopSem[e] = "released"
      /\ pc' = [pc EXCEPT ![e] = "ended"]
  BY DEF ThreadEnd, Goto
<1>2. UNCHANGED <<javaVars, exitValue, process, job, retries, sem, writePipe, readPipe,
         reader, line, jobIdsToStatus, jobIdsToWaiters, mustStop, stopSem, compute,
         command>>
  BY DEF ThreadEnd, Goto, execVars, readerVars, cVars, pipeVars
<1>3. /\ pc[e] = "await_reader"
      /\ stopSem[e] = "released"
      /\ pc'[e] = "ended"
      /\ ExecutorInv(e)
  BY <1>1 DEF TypeOK, StepsOK
<1>4. TypeOK'
  BY <1>2 DEF javaVars, TypeOK
<1>5. StepsOK'
  BY <1>1, <1>2 DEF StepsOK, JobSteps, QuitSteps, ReaderSteps, ComputeSteps
<1>6. ExecutorInv(e)'
  BY <1>2, <1>3 DEF ExecutorInv, javaVars, HoldsJob, WaiterOK, FieldsOK, EndOK,
     JobSteps, PendingOK, ResultsOK, StatusKept, Released, LateResults, NoResult,
     HasStatus
<1>7. \A f \in Executors \ {e} : UNCHANGED Fields(f)
  BY <1>1, <1>2 DEF Fields, StepsOK, TypeOK
<1>. QED  BY <1>2, <1>3, <1>4, <1>5, <1>6, <1>7, LocalStep

-----------------------------------------------------------------------------
(* Steps of the readers *)

\* The loop of the reader goes on ...
LEMMA ReaderLoopOnStep ==
    ASSUME PipesInv, NEW e \in Executors,
           ReaderAt(e, "loop", "open"),
           UNCHANGED <<javaVars, execVars, line, jobIdsToStatus, jobIdsToWaiters, mustStop,
                       stopSem, cVars, pipeVars>>
    PROVE  PipesInv'
<1>. USE DEF PipesInv
<1>1. /\ reader[e] = "loop"
      /\ reader' = [reader EXCEPT ![e] = "open"]
  BY DEF ReaderAt
<1>2. UNCHANGED <<javaVars, exitValue, process, pc, job, retries, sem, writePipe,
         readPipe, line, jobIdsToStatus, jobIdsToWaiters, mustStop, stopSem, compute,
         command>>
  BY DEF ReaderAt, execVars, readerVars, cVars, pipeVars
<1>3. /\ reader[e] = "loop"
      /\ reader'[e] = "open"
      /\ ExecutorInv(e)
  BY <1>1 DEF TypeOK, StepsOK
<1>4. TypeOK'
  BY <1>2 DEF javaVars, TypeOK
<1>5. StepsOK'
  BY <1>1, <1>2 DEF StepsOK, JobSteps, QuitSteps, ReaderSteps, ComputeSteps
<1>6. ExecutorInv(e)'
  BY <1>2, <1>3 DEF ExecutorInv, javaVars, HoldsJob, WaiterOK, FieldsOK, EndOK,
     JobSteps, PendingOK, ResultsOK, StatusKept, Released, LateResults, NoResult,
     HasStatus
<1>7. \A f \in Executors \ {e} : UNCHANGED Fields(f)
  BY <1>1, <1>2 DEF Fields, StepsOK, TypeOK
<1>. QED  BY <1>2, <1>3, <1>4, <1>5, <1>6, <1>7, LocalStep

\* ... or ends, and the executor is released.
LEMMA ReaderEndStep ==
    ASSUME PipesInv, NEW e \in Executors,
           ReaderAt(e, "loop", "ended"),
           stopSem' = [stopSem EXCEPT ![e] = IF @ = "set" THEN "released" ELSE @],
           UNCHANGED <<javaVars, execVars, line, jobIdsToStatus, jobIdsToWaiters, mustStop,
                       cVars, pipeVars>>
    PROVE  PipesInv'
<1>. USE DEF PipesInv
<1>1. /\ reader[e] = "loop"
      /\ reader' = [reader EXCEPT ![e] = "ended"]
      /\ stopSem' = [stopSem EXCEPT ![e] = IF @ = "set" THEN "released" ELSE @]
  BY DEF ReaderAt
<1>2. UNCHANGED <<javaVars, exitValue, process, pc, job, retries, sem, writePipe,
         readPipe, line, jobIdsToStatus, jobIdsToWaiters, mustStop, compute, command>>
  BY DEF ReaderAt, execVars, readerVars, cVars, pipeVars
<1>3. /\ reader[e] = "loop"
      /\ reader'[e] = "ended"
      /\ stopSem'[e] = IF stopSem[e] = "set" THEN "released" ELSE stopSem[e]
      /\ ExecutorInv(e)
  BY <1>1 DEF TypeOK, StepsOK
<1>4. TypeOK'
  <2>1. stopSem' \in [Executors -> {"null", "set", "released"}]
    BY <1>1, <1>3, JobsAreNumbers, MaxRetriesAssumption DEF TypeOK, ExecutorInv,
       FieldsOK, WaiterOK, HoldsJob, JobSteps, ResultsOK
  <2>. QED  BY <1>2, <2>1 DEF javaVars, TypeOK
<1>5. StepsOK'
  BY <1>1, <1>2 DEF StepsOK, JobSteps, QuitSteps, ReaderSteps, ComputeSteps
<1>6. ExecutorInv(e)'
  BY <1>2, <1>3 DEF ExecutorInv, javaVars, HoldsJob, WaiterOK, FieldsOK, EndOK,
     JobSteps, PendingOK, ResultsOK, StatusKept, Released, LateResults, NoResult,
     HasStatus
<1>7. \A f \in Executors \ {e} : UNCHANGED Fields(f)
  BY <1>1, <1>2 DEF Fields, StepsOK, TypeOK
<1>. QED  BY <1>2, <1>3, <1>4, <1>5, <1>6, <1>7, LocalStep

\* The reader opens its pipe ...
LEMMA ReaderOpenStep ==
    ASSUME PipesInv, NEW e \in Executors,
           ReaderAt(e, "open", "read"),
           readPipe' = [readPipe EXCEPT ![e] = OpenRead(@)],
           UNCHANGED <<javaVars, execVars, line, jobIdsToStatus, jobIdsToWaiters, mustStop,
                       stopSem, cVars, writePipe>>
    PROVE  PipesInv'
<1>. USE DEF PipesInv
<1>1. /\ reader[e] = "open"
      /\ reader' = [reader EXCEPT ![e] = "read"]
      /\ readPipe' = [readPipe EXCEPT ![e] = OpenRead(@)]
  BY DEF ReaderAt
<1>2. UNCHANGED <<javaVars, exitValue, process, pc, job, retries, sem, writePipe, line,
         jobIdsToStatus, jobIdsToWaiters, mustStop, stopSem, compute, command>>
  BY DEF ReaderAt, execVars, readerVars, cVars, pipeVars
<1>3. /\ reader[e] = "open"
      /\ reader'[e] = "read"
      /\ readPipe'[e] = OpenRead(readPipe[e])
      /\ ExecutorInv(e)
  BY <1>1 DEF TypeOK, StepsOK
<1>4. /\ readPipe'[e] \in FifoType(Executors \cup {"compute"}, Results \cup {Quit})
      /\ readPipe'[e].lines = readPipe[e].lines
  <2>1. readPipe[e] \in FifoType(Executors \cup {"compute"}, Results \cup {Quit})
    BY DEF TypeOK
  <2>. QED  BY <1>3, <2>1, OpenReadFifo
<1>5. TypeOK'
  <2>1. readPipe' \in [Executors -> FifoType(Executors \cup {"compute"}, Results \cup {Quit})]
    BY <1>1, <1>4 DEF TypeOK
  <2>. QED  BY <1>2, <2>1 DEF javaVars, TypeOK
<1>6. StepsOK'
  BY <1>1, <1>2 DEF StepsOK, JobSteps, QuitSteps, ReaderSteps, ComputeSteps
<1>7. ExecutorInv(e)'
  BY <1>2, <1>3, <1>4 DEF ExecutorInv, javaVars, HoldsJob, WaiterOK, FieldsOK, EndOK,
     JobSteps, PendingOK, ResultsOK, StatusKept, Released, LateResults, NoResult,
     HasStatus
<1>8. \A f \in Executors \ {e} : UNCHANGED Fields(f)
  BY <1>1, <1>2 DEF Fields, StepsOK, TypeOK
<1>. QED  BY <1>2, <1>3, <1>5, <1>6, <1>7, <1>8, LocalStep

\* ... or finds no pipe.
LEMMA ReaderNoPipeStep ==
    ASSUME PipesInv, NEW e \in Executors,
           ReaderAt(e, "open", "loop"),
           UNCHANGED <<javaVars, execVars, line, jobIdsToStatus, jobIdsToWaiters, mustStop,
                       stopSem, cVars, pipeVars>>
    PROVE  PipesInv'
<1>. USE DEF PipesInv
<1>1. /\ reader[e] = "open"
      /\ reader' = [reader EXCEPT ![e] = "loop"]
  BY DEF ReaderAt
<1>2. UNCHANGED <<javaVars, exitValue, process, pc, job, retries, sem, writePipe,
         readPipe, line, jobIdsToStatus, jobIdsToWaiters, mustStop, stopSem, compute,
         command>>
  BY DEF ReaderAt, execVars, readerVars, cVars, pipeVars
<1>3. /\ reader[e] = "open"
      /\ reader'[e] = "loop"
      /\ ExecutorInv(e)
  BY <1>1 DEF TypeOK, StepsOK
<1>4. TypeOK'
  BY <1>2 DEF javaVars, TypeOK
<1>5. StepsOK'
  BY <1>1, <1>2 DEF StepsOK, JobSteps, QuitSteps, ReaderSteps, ComputeSteps
<1>6. ExecutorInv(e)'
  BY <1>2, <1>3 DEF ExecutorInv, javaVars, HoldsJob, WaiterOK, FieldsOK, EndOK,
     JobSteps, PendingOK, ResultsOK, StatusKept, Released, LateResults, NoResult,
     HasStatus
<1>7. \A f \in Executors \ {e} : UNCHANGED Fields(f)
  BY <1>1, <1>2 DEF Fields, StepsOK, TypeOK
<1>. QED  BY <1>2, <1>3, <1>4, <1>5, <1>6, <1>7, LocalStep

\* The reader takes what is in its pipe.
LEMMA ReaderReadStep ==
    ASSUME PipesInv, NEW e \in Executors,
           ReaderRead(e)
    PROVE  PipesInv'
<1>. USE DEF PipesInv
<1>1. /\ reader[e] = "read"
      /\ reader' = [reader EXCEPT ![e] = IF FirstLine(readPipe[e], Null) \in Results THEN "status" ELSE "close"]
      /\ line' = [line EXCEPT ![e] = FirstLine(readPipe[e], Null)]
      /\ readPipe' = [readPipe EXCEPT ![e] = ReadAll(@)]
  BY DEF ReaderRead, ReaderAt
<1>2. UNCHANGED <<javaVars, exitValue, process, pc, job, retries, sem, writePipe,
         jobIdsToStatus, jobIdsToWaiters, mustStop, stopSem, compute, command>>
  BY DEF ReaderRead, ReaderAt, execVars, readerVars, cVars, pipeVars
<1>3. /\ reader[e] = "read"
      /\ reader'[e] = IF FirstLine(readPipe[e], Null) \in Results THEN "status" ELSE "close"
      /\ line'[e] = FirstLine(readPipe[e], Null)
      /\ readPipe'[e] = ReadAll(readPipe[e])
      /\ ExecutorInv(e)
  BY <1>1 DEF TypeOK, StepsOK
<1>4. /\ readPipe'[e] \in FifoType(Executors \cup {"compute"}, Results \cup {Quit})
      /\ Items(readPipe'[e].lines) = {}
      /\ line'[e] \in Results \cup {Quit, Null}
      /\ line'[e] \in Results => line'[e] \in Items(readPipe[e].lines)
  <2>1. readPipe[e] \in FifoType(Executors \cup {"compute"}, Results \cup {Quit})
    BY DEF TypeOK
  <2>2. /\ FirstLine(readPipe[e], Null) \in Results \cup {Quit, Null}
        /\ FirstLine(readPipe[e], Null) \in Results =>
              FirstLine(readPipe[e], Null) \in Items(readPipe[e].lines)
    BY <2>1, FirstLineFifo, JobsAreNumbers
  <2>. QED  BY <1>3, <2>1, <2>2, ReadAllFifo
<1>5. TypeOK'
  <2>1. line' \in [Executors -> Results \cup {Quit, Null}]
    BY <1>1, <1>3, <1>4, JobsAreNumbers, MaxRetriesAssumption DEF TypeOK, ExecutorInv,
       FieldsOK, WaiterOK, HoldsJob, JobSteps, ResultsOK
  <2>2. readPipe' \in [Executors -> FifoType(Executors \cup {"compute"}, Results \cup {Quit})]
    BY <1>1, <1>4 DEF TypeOK
  <2>. QED  BY <1>2, <2>1, <2>2 DEF javaVars, TypeOK
<1>6. StepsOK'
  BY <1>1, <1>2 DEF StepsOK, JobSteps, QuitSteps, ReaderSteps, ComputeSteps
<1>7. ExecutorInv(e)'
  BY <1>2, <1>3, <1>4, JobsAreNumbers DEF ExecutorInv, javaVars, HoldsJob, WaiterOK,
     FieldsOK, EndOK, JobSteps, PendingOK, ResultsOK, StatusKept, Released,
     LateResults, NoResult, HasStatus
<1>8. \A f \in Executors \ {e} : UNCHANGED Fields(f)
  BY <1>1, <1>2 DEF Fields, StepsOK, TypeOK
<1>. QED  BY <1>2, <1>3, <1>5, <1>6, <1>7, <1>8, LocalStep

\* The reader stores the status of the job.
LEMMA PutStatusStep ==
    ASSUME PipesInv, NEW e \in Executors,
           PutStatus(e)
    PROVE  PipesInv'
<1>. USE DEF PipesInv
<1>1. /\ reader[e] = "status"
      /\ reader' = [reader EXCEPT ![e] = "waiter"]
      /\ jobIdsToStatus' = [jobIdsToStatus EXCEPT ![e] = {r \in @ : r[1] # line[e][1]} \cup {line[e]}]
  BY DEF PutStatus, ReaderAt
<1>2. UNCHANGED <<javaVars, exitValue, process, pc, job, retries, sem, writePipe,
         readPipe, line, jobIdsToWaiters, mustStop, stopSem, compute, command>>
  BY DEF PutStatus, ReaderAt, execVars, readerVars, cVars, pipeVars
<1>3. /\ reader[e] = "status"
      /\ reader'[e] = "waiter"
      /\ jobIdsToStatus'[e] = {r \in jobIdsToStatus[e] : r[1] # line[e][1]} \cup {line[e]}
      /\ ExecutorInv(e)
  BY <1>1 DEF TypeOK, StepsOK
<1>4. TypeOK'
  <2>1. jobIdsToStatus' \in [Executors -> SUBSET Results]
    BY <1>1, <1>3, JobsAreNumbers, MaxRetriesAssumption DEF TypeOK, ExecutorInv,
       FieldsOK, WaiterOK, HoldsJob, JobSteps, ResultsOK
  <2>. QED  BY <1>2, <2>1 DEF javaVars, TypeOK
<1>5. StepsOK'
  BY <1>1, <1>2 DEF StepsOK, JobSteps, QuitSteps, ReaderSteps, ComputeSteps
<1>6. ExecutorInv(e)'
  BY <1>2, <1>3 DEF ExecutorInv, javaVars, HoldsJob, WaiterOK, FieldsOK, EndOK,
     JobSteps, PendingOK, ResultsOK, StatusKept, Released, LateResults, NoResult,
     HasStatus
<1>7. \A f \in Executors \ {e} : UNCHANGED Fields(f)
  BY <1>1, <1>2 DEF Fields, StepsOK, TypeOK
<1>. QED  BY <1>2, <1>3, <1>4, <1>5, <1>6, <1>7, LocalStep

\* The reader releases the waiter of the job, if there is one.
LEMMA ReleaseWaiterStep ==
    ASSUME PipesInv, NEW e \in Executors,
           ReleaseWaiter(e)
    PROVE  PipesInv'
<1>. USE DEF PipesInv
<1>1. /\ reader[e] = "waiter"
      /\ reader' = [reader EXCEPT ![e] = "close"]
      /\ sem' = [sem EXCEPT ![e] = IF line[e][1] \in jobIdsToWaiters[e] THEN @ + 1 ELSE @]
      /\ jobIdsToWaiters' = [jobIdsToWaiters EXCEPT ![e] = @ \ {line[e][1]}]
  BY DEF ReleaseWaiter, ReaderAt
<1>2. UNCHANGED <<javaVars, exitValue, process, pc, job, retries, writePipe, readPipe,
         line, jobIdsToStatus, mustStop, stopSem, compute, command>>
  BY DEF ReleaseWaiter, ReaderAt, execVars, readerVars, cVars, pipeVars
<1>3. /\ reader[e] = "waiter"
      /\ reader'[e] = "close"
      /\ sem'[e] = IF line[e][1] \in jobIdsToWaiters[e] THEN sem[e] + 1 ELSE sem[e]
      /\ jobIdsToWaiters'[e] = jobIdsToWaiters[e] \ {line[e][1]}
      /\ ExecutorInv(e)
  BY <1>1 DEF TypeOK, StepsOK
<1>4. TypeOK'
  <2>1. sem' \in [Executors -> 0 .. 1]
    BY <1>1, <1>3, JobsAreNumbers, MaxRetriesAssumption DEF TypeOK, ExecutorInv,
       FieldsOK, WaiterOK, HoldsJob, JobSteps, ResultsOK
  <2>2. jobIdsToWaiters' \in [Executors -> SUBSET Jobs]
    BY <1>1, <1>3, JobsAreNumbers, MaxRetriesAssumption DEF TypeOK, ExecutorInv,
       FieldsOK, WaiterOK, HoldsJob, JobSteps, ResultsOK
  <2>. QED  BY <1>2, <2>1, <2>2 DEF javaVars, TypeOK
<1>5. StepsOK'
  BY <1>1, <1>2 DEF StepsOK, JobSteps, QuitSteps, ReaderSteps, ComputeSteps
<1>6. ExecutorInv(e)'
  BY <1>2, <1>3 DEF ExecutorInv, javaVars, HoldsJob, WaiterOK, FieldsOK, EndOK,
     JobSteps, PendingOK, ResultsOK, StatusKept, Released, LateResults, NoResult,
     HasStatus
<1>7. \A f \in Executors \ {e} : UNCHANGED Fields(f)
  BY <1>1, <1>2 DEF Fields, StepsOK, TypeOK
<1>. QED  BY <1>2, <1>3, <1>4, <1>5, <1>6, <1>7, LocalStep

\* The reader closes its pipe.
LEMMA ReaderCloseStep ==
    ASSUME PipesInv, NEW e \in Executors,
           ReaderClose(e)
    PROVE  PipesInv'
<1>. USE DEF PipesInv
<1>1. /\ reader[e] = "close"
      /\ reader' = [reader EXCEPT ![e] = "loop"]
      /\ line' = [line EXCEPT ![e] = Null]
      /\ readPipe' = [readPipe EXCEPT ![e] = CloseRead(@)]
  BY DEF ReaderClose, ReaderAt
<1>2. UNCHANGED <<javaVars, exitValue, process, pc, job, retries, sem, writePipe,
         jobIdsToStatus, jobIdsToWaiters, mustStop, stopSem, compute, command>>
  BY DEF ReaderClose, ReaderAt, execVars, readerVars, cVars, pipeVars
<1>3. /\ reader[e] = "close"
      /\ reader'[e] = "loop"
      /\ line'[e] = Null
      /\ readPipe'[e] = CloseRead(readPipe[e])
      /\ ExecutorInv(e)
  BY <1>1 DEF TypeOK, StepsOK
<1>4. /\ readPipe'[e] \in FifoType(Executors \cup {"compute"}, Results \cup {Quit})
      /\ Items(readPipe'[e].lines) \subseteq Items(readPipe[e].lines)
  <2>1. readPipe[e] \in FifoType(Executors \cup {"compute"}, Results \cup {Quit})
    BY DEF TypeOK
  <2>. QED  BY <1>3, <2>1, CloseReadFifo
<1>5. TypeOK'
  <2>1. line' \in [Executors -> Results \cup {Quit, Null}]
    BY <1>1, <1>3, <1>4, JobsAreNumbers, MaxRetriesAssumption DEF TypeOK, ExecutorInv,
       FieldsOK, WaiterOK, HoldsJob, JobSteps, ResultsOK
  <2>2. readPipe' \in [Executors -> FifoType(Executors \cup {"compute"}, Results \cup {Quit})]
    BY <1>1, <1>4 DEF TypeOK
  <2>. QED  BY <1>2, <2>1, <2>2 DEF javaVars, TypeOK
<1>6. StepsOK'
  BY <1>1, <1>2 DEF StepsOK, JobSteps, QuitSteps, ReaderSteps, ComputeSteps
<1>7. ExecutorInv(e)'
  BY <1>2, <1>3, <1>4 DEF ExecutorInv, javaVars, HoldsJob, WaiterOK, FieldsOK, EndOK,
     JobSteps, PendingOK, ResultsOK, StatusKept, Released, LateResults, NoResult,
     HasStatus
<1>8. \A f \in Executors \ {e} : UNCHANGED Fields(f)
  BY <1>1, <1>2 DEF Fields, StepsOK, TypeOK
<1>. QED  BY <1>2, <1>3, <1>5, <1>6, <1>7, <1>8, LocalStep

-----------------------------------------------------------------------------
(* Steps of the compute threads *)

\* The compute thread opens its pipe.
LEMMA ComputeOpenStep ==
    ASSUME PipesInv, NEW e \in Executors,
           ComputeOpen(e)
    PROVE  PipesInv'
<1>. USE DEF PipesInv
<1>1. /\ compute[e] = "open"
      /\ compute' = [compute EXCEPT ![e] = "read"]
      /\ writePipe' = [writePipe EXCEPT ![e] = OpenRead(@)]
  BY DEF ComputeOpen, ComputeAt
<1>2. UNCHANGED <<javaVars, exitValue, process, pc, job, retries, sem, readPipe,
         reader, line, jobIdsToStatus, jobIdsToWaiters, mustStop, stopSem, command>>
  BY DEF ComputeOpen, ComputeAt, execVars, readerVars, cVars, pipeVars
<1>3. /\ compute[e] = "open"
      /\ compute'[e] = "read"
      /\ writePipe'[e] = OpenRead(writePipe[e])
      /\ ExecutorInv(e)
  BY <1>1 DEF TypeOK, StepsOK
<1>4. /\ writePipe'[e] \in FifoType(Executors, Jobs \cup {Quit})
      /\ writePipe'[e].lines = writePipe[e].lines
  <2>1. writePipe[e] \in FifoType(Executors, Jobs \cup {Quit})
    BY DEF TypeOK
  <2>. QED  BY <1>3, <2>1, OpenReadFifo
<1>5. TypeOK'
  <2>1. writePipe' \in [Executors -> FifoType(Executors, Jobs \cup {Quit})]
    BY <1>1, <1>4 DEF TypeOK
  <2>. QED  BY <1>2, <2>1 DEF javaVars, TypeOK
<1>6. StepsOK'
  BY <1>1, <1>2 DEF StepsOK, JobSteps, QuitSteps, ReaderSteps, ComputeSteps
<1>7. ExecutorInv(e)'
  BY <1>2, <1>3, <1>4 DEF ExecutorInv, javaVars, HoldsJob, WaiterOK, FieldsOK, EndOK,
     JobSteps, PendingOK, ResultsOK, StatusKept, Released, LateResults, NoResult,
     HasStatus
<1>8. \A f \in Executors \ {e} : UNCHANGED Fields(f)
  BY <1>1, <1>2 DEF Fields, StepsOK, TypeOK
<1>. QED  BY <1>2, <1>3, <1>5, <1>6, <1>7, <1>8, LocalStep

\* The compute thread opens the pipe of the results.
LEMMA ResultOpenStep ==
    ASSUME PipesInv, NEW e \in Executors,
           ResultOpen(e)
    PROVE  PipesInv'
<1>. USE DEF PipesInv
<1>1. /\ compute[e] = "result_open"
      /\ "slow_jobs" \in assumed => pc[e] = "acquire"
      /\ compute' = [compute EXCEPT ![e] = "result_write"]
      /\ readPipe' = [readPipe EXCEPT ![e] = OpenWrite(@, "compute")]
  BY DEF ResultOpen, ComputeAt
<1>2. UNCHANGED <<javaVars, exitValue, process, pc, job, retries, sem, writePipe,
         reader, line, jobIdsToStatus, jobIdsToWaiters, mustStop, stopSem, command>>
  BY DEF ResultOpen, ComputeAt, execVars, readerVars, cVars, pipeVars
<1>3. /\ compute[e] = "result_open"
      /\ "slow_jobs" \in assumed => pc[e] = "acquire"
      /\ compute'[e] = "result_write"
      /\ readPipe'[e] = OpenWrite(readPipe[e], "compute")
      /\ ExecutorInv(e)
  BY <1>1 DEF TypeOK, StepsOK
<1>4. /\ readPipe'[e] \in FifoType(Executors \cup {"compute"}, Results \cup {Quit})
      /\ readPipe'[e].lines = readPipe[e].lines
  <2>1. readPipe[e] \in FifoType(Executors \cup {"compute"}, Results \cup {Quit})
    BY DEF TypeOK
  <2>2. "compute" \in Executors \cup {"compute"}
    OBVIOUS
  <2>. QED  BY <1>3, <2>1, <2>2, OpenWriteFifo
<1>5. TypeOK'
  <2>1. readPipe' \in [Executors -> FifoType(Executors \cup {"compute"}, Results \cup {Quit})]
    BY <1>1, <1>4 DEF TypeOK
  <2>. QED  BY <1>2, <2>1 DEF javaVars, TypeOK
<1>6. StepsOK'
  BY <1>1, <1>2 DEF StepsOK, JobSteps, QuitSteps, ReaderSteps, ComputeSteps
<1>7. ExecutorInv(e)'
  BY <1>2, <1>3, <1>4 DEF ExecutorInv, javaVars, HoldsJob, WaiterOK, FieldsOK, EndOK,
     JobSteps, PendingOK, ResultsOK, StatusKept, Released, LateResults, NoResult,
     HasStatus
<1>8. \A f \in Executors \ {e} : UNCHANGED Fields(f)
  BY <1>1, <1>2 DEF Fields, StepsOK, TypeOK
<1>. QED  BY <1>2, <1>3, <1>5, <1>6, <1>7, <1>8, LocalStep

\* The compute thread writes the result of its job.
LEMMA ResultWriteStep ==
    ASSUME PipesInv, NEW e \in Executors,
           ResultWrite(e)
    PROVE  PipesInv'
<1>. USE DEF PipesInv
<1>1. /\ compute[e] = "result_write"
      /\ compute' = [compute EXCEPT ![e] = "result_close"]
      /\ readPipe' = [readPipe EXCEPT ![e] = Write(@, <<command[e], exitValue[command[e]]>>)]
  BY DEF ResultWrite, ComputeAt, EndTask
<1>2. UNCHANGED <<javaVars, exitValue, process, pc, job, retries, sem, writePipe,
         reader, line, jobIdsToStatus, jobIdsToWaiters, mustStop, stopSem, command>>
  BY DEF ResultWrite, ComputeAt, EndTask, execVars, readerVars, cVars, pipeVars
<1>3. /\ compute[e] = "result_write"
      /\ compute'[e] = "result_close"
      /\ readPipe'[e] = Write(readPipe[e], <<command[e], exitValue[command[e]]>>)
      /\ ExecutorInv(e)
  BY <1>1 DEF TypeOK, StepsOK
<1>4. /\ readPipe'[e] \in FifoType(Executors \cup {"compute"}, Results \cup {Quit})
      /\ Items(readPipe'[e].lines) =
            Items(readPipe[e].lines) \cup {<<command[e], exitValue[command[e]]>>}
  <2>1. readPipe[e] \in FifoType(Executors \cup {"compute"}, Results \cup {Quit})
    BY DEF TypeOK
  <2>2. <<command[e], exitValue[command[e]]>> \in Results \cup {Quit}
    BY <1>3 DEF ExecutorInv, FieldsOK, ResultsOK, Results
  <2> DEFINE r == <<command[e], exitValue[command[e]]>>
  <2>3. readPipe'[e] = Write(readPipe[e], r) /\ r \in Results \cup {Quit}
    BY <1>3, <2>2
  <2>. HIDE DEF r
  <2>4. /\ readPipe'[e] \in FifoType(Executors \cup {"compute"}, Results \cup {Quit})
        /\ Items(readPipe'[e].lines) = Items(readPipe[e].lines) \cup {r}
    BY <2>1, <2>3, WriteFifo
  <2>. QED  BY <2>4 DEF r
<1>5. TypeOK'
  <2>1. readPipe' \in [Executors -> FifoType(Executors \cup {"compute"}, Results \cup {Quit})]
    BY <1>1, <1>4 DEF TypeOK
  <2>. QED  BY <1>2, <2>1 DEF javaVars, TypeOK
<1>6. StepsOK'
  BY <1>1, <1>2 DEF StepsOK, JobSteps, QuitSteps, ReaderSteps, ComputeSteps
<1>7. ExecutorInv(e)'
  BY <1>2, <1>3, <1>4 DEF ExecutorInv, javaVars, HoldsJob, WaiterOK, FieldsOK, EndOK,
     JobSteps, PendingOK, ResultsOK, StatusKept, Released, LateResults, NoResult,
     HasStatus
<1>8. \A f \in Executors \ {e} : UNCHANGED Fields(f)
  BY <1>1, <1>2 DEF Fields, StepsOK, TypeOK
<1>. QED  BY <1>2, <1>3, <1>5, <1>6, <1>7, <1>8, LocalStep

\* The compute thread closes the pipe of the results.
LEMMA ResultCloseStep ==
    ASSUME PipesInv, NEW e \in Executors,
           ResultClose(e)
    PROVE  PipesInv'
<1>. USE DEF PipesInv
<1>1. /\ compute[e] = "result_close"
      /\ compute' = [compute EXCEPT ![e] = "open"]
      /\ readPipe' = [readPipe EXCEPT ![e] = CloseWrite(@, "compute")]
  BY DEF ResultClose, ComputeAt
<1>2. UNCHANGED <<javaVars, exitValue, process, pc, job, retries, sem, writePipe,
         reader, line, jobIdsToStatus, jobIdsToWaiters, mustStop, stopSem, command>>
  BY DEF ResultClose, ComputeAt, execVars, readerVars, cVars, pipeVars
<1>3. /\ compute[e] = "result_close"
      /\ compute'[e] = "open"
      /\ readPipe'[e] = CloseWrite(readPipe[e], "compute")
      /\ ExecutorInv(e)
  BY <1>1 DEF TypeOK, StepsOK
<1>4. /\ readPipe'[e] \in FifoType(Executors \cup {"compute"}, Results \cup {Quit})
      /\ Items(readPipe'[e].lines) \subseteq Items(readPipe[e].lines)
  <2>1. readPipe[e] \in FifoType(Executors \cup {"compute"}, Results \cup {Quit})
    BY DEF TypeOK
  <2>. QED  BY <1>3, <2>1, CloseWriteFifo
<1>5. TypeOK'
  <2>1. readPipe' \in [Executors -> FifoType(Executors \cup {"compute"}, Results \cup {Quit})]
    BY <1>1, <1>4 DEF TypeOK
  <2>. QED  BY <1>2, <2>1 DEF javaVars, TypeOK
<1>6. StepsOK'
  BY <1>1, <1>2 DEF StepsOK, JobSteps, QuitSteps, ReaderSteps, ComputeSteps
<1>7. ExecutorInv(e)'
  BY <1>2, <1>3, <1>4 DEF ExecutorInv, javaVars, HoldsJob, WaiterOK, FieldsOK, EndOK,
     JobSteps, PendingOK, ResultsOK, StatusKept, Released, LateResults, NoResult,
     HasStatus
<1>8. \A f \in Executors \ {e} : UNCHANGED Fields(f)
  BY <1>1, <1>2 DEF Fields, StepsOK, TypeOK
<1>. QED  BY <1>2, <1>3, <1>5, <1>6, <1>7, <1>8, LocalStep

\* Where a compute thread goes with the line that it reads from its pipe.
ComputeNext(e) == LET read == FirstLine(writePipe[e], Null)
                  IN  CASE read = Quit   -> "ended"
                        [] read = Null   -> "open"
                        [] read \in Jobs -> "execute"

\* The compute thread takes the command that is in its pipe.
LEMMA ComputeReadStep ==
    ASSUME PipesInv, NEW e \in Executors,
           ComputeRead(e)
    PROVE  PipesInv'
<1>. USE DEF PipesInv
<1>1. /\ compute[e] = "read"
      /\ CanRead(writePipe[e])
      /\ compute' = [compute EXCEPT ![e] = ComputeNext(e)]
      /\ command' = [command EXCEPT ![e] = FirstLine(writePipe[e], Null)]
      /\ writePipe' = [writePipe EXCEPT ![e] = CloseRead(ReadAll(@))]
  BY DEF ComputeRead, ComputeAt, ComputeNext
<1>2. UNCHANGED <<javaVars, exitValue, process, pc, job, retries, sem, readPipe,
         reader, line, jobIdsToStatus, jobIdsToWaiters, mustStop, stopSem>>
  BY DEF ComputeRead, ComputeAt, ComputeNext, execVars, readerVars, cVars, pipeVars
<1>3. /\ compute[e] = "read"
      /\ CanRead(writePipe[e])
      /\ compute'[e] = ComputeNext(e)
      /\ command'[e] = FirstLine(writePipe[e], Null)
      /\ writePipe'[e] = CloseRead(ReadAll(writePipe[e]))
      /\ ExecutorInv(e)
  BY <1>1 DEF TypeOK, StepsOK
<1>4. /\ writePipe'[e] \in FifoType(Executors, Jobs \cup {Quit})
      /\ Items(writePipe'[e].lines) = {}
      /\ command'[e] \in Jobs \cup {Quit, Null}
      /\ \/ compute'[e] \in {"ended", "open"}
         \/ /\ compute'[e] = "execute" /\ command'[e] \in Jobs
            /\ command'[e] \in Items(writePipe[e].lines)
  <2>1. writePipe[e] \in FifoType(Executors, Jobs \cup {Quit})
    BY DEF TypeOK
  <2>2. /\ ReadAll(writePipe[e]) \in FifoType(Executors, Jobs \cup {Quit})
        /\ Items(ReadAll(writePipe[e]).lines) = {}
    BY <2>1, ReadAllFifo
  <2>3. FirstLine(writePipe[e], Null) \in Jobs \cup {Quit, Null}
    BY <2>1, FirstLineFifo
  <2>4. FirstLine(writePipe[e], Null) \in Jobs => FirstLine(writePipe[e], Null) \in Items(writePipe[e].lines)
    BY <2>1, FirstLineFifo, JobsAreNumbers
  <2>5. /\ writePipe'[e] \in FifoType(Executors, Jobs \cup {Quit})
        /\ Items(writePipe'[e].lines) \subseteq {}
    BY <1>3, <2>2, CloseReadFifo
  <2>6. ComputeNext(e) \in {"ended", "open"} \/ (ComputeNext(e) = "execute" /\ FirstLine(writePipe[e], Null) \in Jobs)
    BY <2>3 DEF ComputeNext
  <2>. QED  BY <1>3, <2>3, <2>4, <2>5, <2>6
<1>5. TypeOK'
  <2>1. command' \in [Executors -> Jobs \cup {Quit, Null}]
    BY <1>1, <1>3, <1>4, JobsAreNumbers, MaxRetriesAssumption DEF TypeOK, ExecutorInv,
       FieldsOK, WaiterOK, HoldsJob, JobSteps, ResultsOK
  <2>2. writePipe' \in [Executors -> FifoType(Executors, Jobs \cup {Quit})]
    BY <1>1, <1>4 DEF TypeOK
  <2>. QED  BY <1>2, <2>1, <2>2 DEF javaVars, TypeOK
<1>6. StepsOK'
  BY <1>1, <1>2, <1>3, <1>4 DEF StepsOK, JobSteps, QuitSteps, ReaderSteps, ComputeSteps
<1>7. ExecutorInv(e)'
  BY <1>2, <1>3, <1>4, JobsAreNumbers DEF ExecutorInv, javaVars, HoldsJob, WaiterOK,
     FieldsOK, EndOK, JobSteps, PendingOK, ResultsOK, StatusKept, Released,
     LateResults, NoResult, HasStatus
<1>8. \A f \in Executors \ {e} : UNCHANGED Fields(f)
  BY <1>1, <1>2 DEF Fields, StepsOK, TypeOK
<1>. QED  BY <1>2, <1>3, <1>5, <1>6, <1>7, <1>8, LocalStep

-----------------------------------------------------------------------------
(* Steps that move a job *)

\* 1 .. sent are jobs.
LEMMA SentAreJobs ==
    ASSUME TypeOK
    PROVE  sent \in Nat /\ 1 .. sent \subseteq Jobs
BY JobsAreNumbers DEF TypeOK

\* The lines of the pipes are jobs and results, and quit.
LEMMA LinesTyped ==
    ASSUME TypeOK, NEW e \in Executors
    PROVE  /\ \A j \in Items(writePipe[e].lines) : j # Quit => j \in Jobs
           /\ \A r \in Items(readPipe[e].lines) : r # Quit => r \in Results
<1>1. /\ writePipe[e].lines \in Seq(Jobs \cup {Quit})
      /\ readPipe[e].lines \in Seq(Results \cup {Quit})
  BY DEF TypeOK, FifoType
<1>. QED  BY <1>1 DEF Items

\* The master sends a job that nothing has touched.
LEMMA EnqueueJobStep ==
    ASSUME PipesInv, EnqueueJob
    PROVE  PipesInv'
<1>. USE DEF PipesInv
<1>1. /\ sent < Load[assumed] /\ stopper = "none" /\ sent' = sent + 1
      /\ queue' = Append(queue, sent + 1)
      /\ UNCHANGED <<assumed, stopper, answers, execVars, readerVars, cVars, pipeVars>>
  BY DEF EnqueueJob
<1>2. /\ sent \in Nat /\ sent' \in 0 .. Load[assumed] /\ sent' \in Jobs
      /\ queue \in Seq(Jobs \cup {Null}) /\ queue' \in Seq(Jobs \cup {Null})
      /\ Len(queue) \in Nat /\ Len(queue') = Len(queue) + 1
      /\ \A i \in 1 .. Len(queue) : queue'[i] = queue[i] /\ queue[i] \in Jobs \cup {Null}
      /\ queue'[Len(queue) + 1] = sent + 1
  BY <1>1, JobsAreNumbers DEF TypeOK
<1>. USE DEF execVars, readerVars, cVars, pipeVars
<1>3. TypeOK'
  BY <1>1, <1>2 DEF TypeOK
<1>4. StepsOK'
  BY <1>1 DEF StepsOK
<1>5. \A e \in Executors : ExecutorInv(e)'
  BY <1>1, OtherExecutor DEF Fields
<1>6. OnePlace'
  <2>1. \A i \in 1 .. Len(queue) : queue[i] # Null => queue[i] <= sent /\ queue[i] \in Nat
    BY <1>2, JobsAreNumbers DEF OnePlace, QueuedOK, HeldOK
  <2>2. \A e \in Executors : job[e] # Null => job[e] <= sent /\ job[e] \in Nat
    BY JobsAreNumbers DEF OnePlace, QueuedOK, HeldOK, TypeOK
  <2>3. Untouched(sent + 1)
    BY <1>1, <1>2 DEF OnePlace, QueuedOK, HeldOK
  <2>4. ASSUME NEW i \in 1 .. Len(queue'), queue'[i] # Null
        PROVE  QueuedOK(i)'
    <3>1. CASE i \in 1 .. Len(queue)
      <4>1. /\ queue'[i] = queue[i] /\ QueuedOK(i)
            /\ queue[i] # Null /\ queue[i] <= sent /\ queue[i] \in Nat
        BY <1>2, <2>1, <2>4, <3>1 DEF OnePlace
      <4>2. ASSUME NEW k \in 1 .. Len(queue'), queue'[i] = queue'[k]
            PROVE  i = k
        <5>1. CASE k \in 1 .. Len(queue)
          BY <1>2, <4>1, <4>2, <5>1 DEF QueuedOK
        <5>2. CASE k = Len(queue) + 1
          BY <1>2, <4>1, <4>2, <5>2
        <5>. QED  BY <1>2, <5>1, <5>2
      <4>. QED  BY <1>1, <1>2, <4>1, <4>2 DEF QueuedOK, Untouched
    <3>2. CASE i = Len(queue) + 1
      BY <1>1, <1>2, <2>1, <2>2, <2>3, <3>2, JobsAreNumbers DEF QueuedOK, Untouched
    <3>. QED  BY <1>2, <3>1, <3>2
  <2>5. ASSUME NEW e \in Executors, job'[e] # Null
        PROVE  HeldOK(e)'
    BY <1>1, <1>2, <2>2, <2>5 DEF OnePlace, QueuedOK, HeldOK
  <2>6. \A j \in Jobs : j > sent' => Untouched(j)'
    BY <1>1, <1>2, JobsAreNumbers DEF OnePlace, QueuedOK, HeldOK, Untouched
  <2>. QED  BY <2>4, <2>5, <2>6 DEF OnePlace, QueuedOK, HeldOK
<1>7. NoneLost'
  <2> SUFFICES ASSUME NEW j \in 1 .. sent'
               PROVE  (Answered(j) \/ j \in Items(queue) \/ Taken(j))'
    BY DEF NoneLost
  <2>1. CASE j = sent + 1
    BY <1>2, <2>1 DEF Items
  <2>2. CASE j \in 1 .. sent
    <3>1. j \in Items(queue) => j \in Items(queue')
      BY <1>2 DEF Items
    <3>. QED  BY <1>1, <2>2, <3>1 DEF NoneLost, Answered, Taken
  <2>. QED  BY <1>1, <1>2, <2>1, <2>2
<1>8. AnswersTrue' /\ ProcessOK'
  BY <1>1 DEF AnswersTrue, ProcessOK
<1>. QED  BY <1>3, <1>4, <1>5, <1>6, <1>7, <1>8

\* stopThreads puts its nulls before the jobs that wait.
LEMMA StopThreadsStep ==
    ASSUME PipesInv, StopThreads
    PROVE  PipesInv'
<1>. USE DEF PipesInv
<1> DEFINE n == Cardinality(Executors)
           nulls == [i \in 1 .. n |-> Null]
<1>1. /\ queue' = nulls \o queue /\ stopper = "none" /\ stopper' = "waiting"
      /\ UNCHANGED <<assumed, sent, answers, execVars, readerVars, cVars, pipeVars>>
  BY DEF StopThreads
<1>2. n \in Nat
  BY ExecutorsAssumption, FS_CardinalityType
<1>. HIDE DEF n
<1>3. /\ queue \in Seq(Jobs \cup {Null}) /\ queue' \in Seq(Jobs \cup {Null})
      /\ Len(queue) \in Nat /\ Len(queue') = n + Len(queue)
      /\ \A i \in 1 .. Len(queue') :
            queue'[i] = IF i <= n THEN Null ELSE queue[i - n]
  <2>1. nulls \in Seq(Jobs \cup {Null}) /\ Len(nulls) = n
    BY <1>2
  <2>. HIDE DEF nulls
  <2>2. /\ queue \in Seq(Jobs \cup {Null}) /\ nulls \o queue \in Seq(Jobs \cup {Null})
        /\ Len(queue) \in Nat /\ Len(nulls \o queue) = n + Len(queue)
        /\ \A i \in 1 .. n + Len(queue) :
              (nulls \o queue)[i] = IF i <= n THEN nulls[i] ELSE queue[i - n]
    <3>1. queue \in Seq(Jobs \cup {Null}) /\ Len(queue) \in Nat
      BY DEF TypeOK
    <3>2. nulls \o queue \in Seq(Jobs \cup {Null}) /\ Len(nulls \o queue) = n + Len(queue)
      BY <2>1, <3>1
    <3>. QED  BY <1>2, <2>1, <3>1, <3>2
  <2>3. \A i \in 1 .. n : nulls[i] = Null
    BY DEF nulls
  <2>. QED  BY <1>1, <1>2, <2>2, <2>3
<1>. HIDE DEF nulls
<1>. USE DEF execVars, readerVars, cVars, pipeVars
<1>4. TypeOK'
  BY <1>1, <1>3 DEF TypeOK
<1>5. StepsOK'
  BY <1>1 DEF StepsOK
<1>6. \A e \in Executors : ExecutorInv(e)'
  BY <1>1, OtherExecutor DEF Fields
<1>7. OnePlace'
  <2>1. ASSUME NEW i \in 1 .. Len(queue'), queue'[i] # Null
        PROVE  /\ i - n \in 1 .. Len(queue) /\ queue'[i] = queue[i - n]
               /\ queue[i - n] # Null
    BY <1>2, <1>3, <2>1
  <2>2. ASSUME NEW i \in 1 .. Len(queue'), queue'[i] # Null
        PROVE  QueuedOK(i)'
    <3>1. /\ i - n \in 1 .. Len(queue) /\ queue'[i] = queue[i - n]
          /\ queue[i - n] # Null
      BY <2>1, <2>2
    <3>2. /\ queue'[i] <= sent' /\ Untouched(queue[i])'
          /\ \A e \in Executors : job'[e] # queue'[i]
      BY <1>1, <3>1 DEF OnePlace, QueuedOK, HeldOK, Untouched
    <3>3. ASSUME NEW k \in 1 .. Len(queue'), queue'[i] = queue'[k]
          PROVE  i = k
      <4>1. k - n \in 1 .. Len(queue) /\ queue[k - n] = queue[i - n]
        BY <2>1, <2>2, <3>1, <3>3
      <4>2. i - n = k - n
        BY <3>1, <4>1 DEF OnePlace, QueuedOK, HeldOK
      <4>. QED  BY <1>2, <1>3, <4>2
    <3>. QED  BY <1>1, <3>2, <3>3 DEF QueuedOK
  <2>3. /\ \A e \in Executors : HeldOK(e)'
        /\ \A j \in Jobs : j > sent' => Untouched(j)'
    BY <1>1 DEF OnePlace, QueuedOK, HeldOK, HeldOK, Untouched
  <2>. QED  BY <2>2, <2>3 DEF OnePlace, QueuedOK, HeldOK
<1>8. NoneLost'
  <2> SUFFICES ASSUME NEW j \in 1 .. sent, j \in Items(queue)
               PROVE  j \in Items(queue')
    BY <1>1 DEF NoneLost, Answered, Taken
  <2>1. PICK i \in 1 .. Len(queue) : queue[i] = j
    BY DEF Items
  <2>2. n + i \in 1 .. Len(queue') /\ queue'[n + i] = j
    BY <1>2, <1>3, <2>1
  <2>. QED  BY <2>2 DEF Items
<1>9. AnswersTrue' /\ ProcessOK'
  BY <1>1 DEF AnswersTrue, ProcessOK
<1>. QED  BY <1>4, <1>5, <1>6, <1>7, <1>8, <1>9

\* An executor takes the first request of the queue.
LEMMA DequeueStep ==
    ASSUME PipesInv, NEW e \in Executors, Dequeue(e)
    PROVE  PipesInv'
<1>. USE DEF PipesInv
<1> DEFINE h == Head(queue)
<1>1. /\ h = queue[1] /\ Len(queue) \in Nat \ {0} /\ Len(queue') = Len(queue) - 1
      /\ \A i \in 1 .. Len(queue') : queue'[i] = queue[i + 1]
      /\ queue' \in Seq(Jobs \cup {Null})
      /\ h \in Jobs \cup {Null}
  <2>1. queue \in Seq(Jobs \cup {Null}) /\ queue # <<>> /\ queue' = Tail(queue)
    BY DEF TypeOK, Dequeue
  <2>. QED  BY <2>1
<1>2. /\ h # Null => h <= sent /\ Untouched(h) /\ \A f \in Executors : job[f] # h
      /\ h # Null => \A i \in 1 .. Len(queue') : queue'[i] # h
  BY <1>1 DEF OnePlace, QueuedOK, HeldOK
<1>3. /\ job' = [job EXCEPT ![e] = h]
      /\ pc' = [pc EXCEPT ![e] = IF h = Null THEN "quit_open" ELSE "prepare"]
      /\ retries' = [retries EXCEPT ![e] = 0]
      /\ UNCHANGED <<assumed, sent, stopper, answers, sem, readerVars, cVars, pipeVars>>
  BY DEF Dequeue, Goto
<1>. HIDE DEF h
<1>. USE DEF readerVars, cVars, pipeVars
<1>4. /\ pc[e] = "dequeue" /\ job[e] = Null
      /\ pc'[e] = IF h = Null THEN "quit_open" ELSE "prepare"
      /\ job'[e] = h /\ retries'[e] = 0
      /\ ExecutorInv(e)
  BY <1>3 DEF Dequeue, StepsOK, TypeOK, ExecutorInv, HoldsJob, JobSteps
<1>5. TypeOK'
  <2>1. job' \in [Executors -> Jobs \cup {Null}]
    BY <1>1, <1>3 DEF TypeOK
  <2>2. retries' \in [Executors -> 0 .. MAX_RETRIES]
    BY <1>3, MaxRetriesAssumption DEF TypeOK
  <2>. QED  BY <1>1, <1>3, <2>1, <2>2 DEF TypeOK
<1>6. StepsOK'
  BY <1>3 DEF StepsOK, JobSteps, QuitSteps
<1>7. ExecutorInv(e)'
  <2>1. /\ h \in Jobs => h # Null /\ exitValue[h] = Null
        /\ jobIdsToStatus[e] \subseteq Results
    BY <1>1, <1>2, JobsAreNumbers DEF Untouched, TypeOK
  <2>2. /\ \A j \in Items(writePipe[e].lines) : j # Quit => j \in Jobs
        /\ \A r \in Items(readPipe[e].lines) : r # Quit => r \in Results
    BY LinesTyped
  <2>3. (HoldsJob(e) /\ WaiterOK(e) /\ FieldsOK(e) /\ EndOK(e))'
    BY <1>1, <1>3, <1>4, MaxRetriesAssumption
       DEF ExecutorInv, HoldsJob, WaiterOK, FieldsOK, EndOK, JobSteps
  <2>4. (PendingOK(e) /\ ResultsOK(e))'
    BY <1>1, <1>3, <1>4, <2>1, <2>2, JobsAreNumbers
       DEF ExecutorInv, FieldsOK, PendingOK, ResultsOK
  <2>5. (StatusKept(e) /\ LateResults(e))'
    BY <1>1, <1>3, <1>4, <2>1, <2>2, JobsAreNumbers
       DEF ExecutorInv, FieldsOK, WaiterOK, ResultsOK, StatusKept, Released, LateResults,
           NoResult, HasStatus, JobSteps
  <2>. QED  BY <2>3, <2>4, <2>5 DEF ExecutorInv
<1>8. \A f \in Executors \ {e} : UNCHANGED Fields(f)
  BY <1>3 DEF Fields, StepsOK, TypeOK
<1>9. \A f \in Executors : ExecutorInv(f)'
  BY <1>3, <1>7, <1>8, OtherExecutor
<1>10. \A f \in Executors : job'[f] = IF f = e THEN h ELSE job[f]
  BY <1>3 DEF TypeOK
<1>11. OnePlace'
  <2>1. ASSUME NEW i \in 1 .. Len(queue'), queue'[i] # Null
        PROVE  QueuedOK(i)'
    <3>1. i + 1 \in 1 .. Len(queue) /\ queue'[i] = queue[i + 1]
      BY <1>1
    <3>2. \A k \in 1 .. Len(queue') : k + 1 \in 1 .. Len(queue) /\ queue'[k] = queue[k + 1]
      BY <1>1
    <3>3. \A k \in 1 .. Len(queue') : queue'[i] = queue'[k] => i + 1 = k + 1
      BY <2>1, <3>1, <3>2 DEF OnePlace, QueuedOK, HeldOK
    <3>4. queue'[i] <= sent' /\ Untouched(queue[i])' /\ \A f \in Executors : job[f] # queue'[i]
      BY <1>3, <2>1, <3>1 DEF OnePlace, QueuedOK, HeldOK, Untouched
    <3>5. \A k \in 1 .. Len(queue') : queue'[i] = queue'[k] => i = k
      BY <1>1, <3>3
    <3>6. \A f \in Executors : job'[f] # queue'[i]
      BY <1>2, <1>10, <2>1, <3>4
    <3>. QED  BY <3>4, <3>5, <3>6 DEF QueuedOK
  <2>2. ASSUME NEW f \in Executors, job'[f] # Null
        PROVE  HeldOK(f)'
    BY <1>2, <1>3, <1>10, <2>2 DEF OnePlace, QueuedOK, HeldOK, Untouched
  <2>3. \A j \in Jobs : j > sent' => Untouched(j)'
    BY <1>3 DEF OnePlace, QueuedOK, HeldOK, Untouched
  <2>. QED  BY <2>1, <2>2, <2>3 DEF OnePlace, QueuedOK, HeldOK
<1>12. NoneLost'
  <2> SUFFICES ASSUME NEW j \in 1 .. sent
               PROVE  (Answered(j) \/ j \in Items(queue) \/ Taken(j))'
    BY <1>3 DEF NoneLost
  <2>1. CASE Answered(j)
    BY <1>3, <2>1 DEF Answered
  <2>2. CASE j \in Items(queue)
    <3>1. PICK i \in 1 .. Len(queue) : queue[i] = j
      BY <2>2 DEF Items
    <3>2. CASE i = 1
      BY <1>1, <1>10, <3>1, <3>2 DEF Taken
    <3>3. CASE i # 1
      <4>1. i - 1 \in 1 .. Len(queue') /\ queue'[i - 1] = j
        BY <1>1, <3>1, <3>3
      <4>. QED  BY <4>1 DEF Items
    <3>. QED  BY <3>2, <3>3
  <2>3. CASE Taken(j)
    <3>1. PICK f \in Executors : job[f] = j
      BY <2>3 DEF Taken
    <3>2. f # e
      BY <1>4, <3>1, SentAreJobs, JobsAreNumbers
    <3>. QED  BY <1>10, <3>1, <3>2 DEF Taken
  <2>. QED  BY <2>1, <2>2, <2>3 DEF NoneLost
<1>13. AnswersTrue'
  BY <1>3 DEF AnswersTrue
<1>14. ProcessOK'
  BY <1>3, <1>4, <1>8 DEF ProcessOK, Fields
<1>. QED  BY <1>5, <1>6, <1>9, <1>11, <1>12, <1>13, <1>14

\* An answer more keeps the type of the answers.
LEMMA AnswersTyped ==
    ASSUME TypeOK, NEW j, NEW b \in BOOLEAN
    PROVE  [answers EXCEPT ![j] = Append(@, b)] \in [Jobs -> Seq(BOOLEAN)]
<1>1. \A i \in Jobs : Append(answers[i], b) \in Seq(BOOLEAN)
  BY DEF TypeOK
<1>. QED  BY <1>1 DEF TypeOK

\* An executor answers its job: the answer is the first one, and a success is the exit
\* value of the job. Nothing of the job may be left for the compute thread.
LEMMA AnswerStep ==
    ASSUME PipesInv, NEW e \in Executors, NEW success \in BOOLEAN, SendTaskDone(e, success),
           pc[e] \in {"prepare", "task_write", "status"},
           success = TRUE => exitValue[job[e]] = 0,
           TypeOK', UNCHANGED <<reader, compute, mustStop, exitValue, process>>,
           ExecutorInv(e)',
           \A f \in Executors \ {e} : UNCHANGED Fields(f)
    PROVE  PipesInv'
<1>. USE DEF PipesInv
<1>1. /\ answers' = [answers EXCEPT ![job[e]] = Append(@, success)]
      /\ job' = [job EXCEPT ![e] = Null]
      /\ pc' = [pc EXCEPT ![e] = "dequeue"]
      /\ UNCHANGED <<assumed, sent, queue, stopper>>
  BY DEF SendTaskDone, Goto
<1>2. job[e] \in Jobs /\ job[e] # Null /\ pc'[e] = "dequeue"
  BY <1>1, JobsAreNumbers DEF ExecutorInv, HoldsJob, JobSteps, StepsOK
<1>3. /\ answers[job[e]] = <<>> /\ answers'[job[e]] = <<success>>
      /\ \A j \in Jobs : j # job[e] => answers'[j] = answers[j]
      /\ \A f \in Executors : job'[f] = IF f = e THEN Null ELSE job[f]
  <2>1. answers[job[e]] = <<>> /\ Append(<<>>, success) = <<success>>
    BY <1>2 DEF OnePlace, HeldOK
  <2>2. \A f \in Executors : job'[f] = IF f = e THEN Null ELSE job[f]
    BY <1>1 DEF TypeOK
  <2>3. /\ answers'[job[e]] = Append(answers[job[e]], success)
        /\ \A j \in Jobs : j # job[e] => answers'[j] = answers[j]
    BY <1>1, <1>2 DEF TypeOK
  <2>. QED  BY <2>1, <2>2, <2>3
<1>4. StepsOK'
  BY <1>1 DEF StepsOK
<1>5. \A f \in Executors : ExecutorInv(f)'
  BY <1>1, OtherExecutor
<1>6. OnePlace'
  <2>1. ASSUME NEW i \in 1 .. Len(queue'), queue'[i] # Null
        PROVE  QueuedOK(i)'
    <3>1. queue[i] \in Jobs /\ queue[i] # job[e]
      <4>1. QueuedOK(i) /\ queue[i] # Null /\ i \in 1 .. Len(queue)
        BY <1>1, <2>1 DEF OnePlace
      <4>2. queue[i] \in Jobs
        BY <4>1 DEF TypeOK
      <4>. QED  BY <4>1, <4>2 DEF QueuedOK
    <3>. QED  BY <1>1, <1>3, <2>1, <3>1 DEF OnePlace, QueuedOK, HeldOK, Untouched
  <2>2. ASSUME NEW f \in Executors, job'[f] # Null
        PROVE  HeldOK(f)'
    <3>1. f # e /\ job'[f] = job[f] /\ job[f] # Null
      BY <1>3, <2>2
    <3>2. job[f] # job[e] /\ job[f] \in Jobs
      BY <1>2, <3>1 DEF OnePlace, QueuedOK, HeldOK, TypeOK
    <3>3. job[f] <= sent /\ answers[job[f]] = <<>>
      BY <3>1 DEF OnePlace, QueuedOK, HeldOK
    <3>4. \A g \in Executors : job'[f] = job'[g] => f = g
      BY <1>3, <3>1 DEF OnePlace, QueuedOK, HeldOK
    <3>. QED  BY <1>1, <1>3, <3>1, <3>2, <3>3, <3>4 DEF HeldOK
  <2>3. \A j \in Jobs : j > sent' => Untouched(j)'
    <3>1. job[e] <= sent
      BY <1>2 DEF OnePlace, QueuedOK, HeldOK
    <3>2. \A j \in Jobs : j > sent => j # job[e]
      BY <3>1, SentAreJobs, JobsAreNumbers
    <3>. QED  BY <1>1, <1>3, <3>2 DEF OnePlace, QueuedOK, HeldOK, Untouched
  <2>. QED  BY <2>1, <2>2, <2>3 DEF OnePlace, QueuedOK, HeldOK
<1>7. NoneLost'
  <2> SUFFICES ASSUME NEW j \in 1 .. sent
               PROVE  (Answered(j) \/ j \in Items(queue) \/ Taken(j))'
    BY <1>1 DEF NoneLost
  <2>1. CASE j = job[e]
    <3>1. <<success>> # <<>>
      OBVIOUS
    <3>. QED  BY <1>3, <2>1, <3>1 DEF Answered
  <2>2. CASE j # job[e]
    <3>1. j \in Jobs
      BY SentAreJobs
    <3>2. Answered(j) => Answered(j)'
      BY <1>3, <2>2, <3>1 DEF Answered
    <3>3. Taken(j) => Taken(j)'
      BY <1>3, <2>2 DEF Taken
    <3>. QED  BY <1>1, <3>2, <3>3 DEF NoneLost
  <2>. QED  BY <2>1, <2>2
<1>8. AnswersTrue'
  <2> SUFFICES ASSUME NEW j \in Jobs
               PROVE  (/\ Len(answers[j]) <= 1
                       /\ TRUE \in Items(answers[j]) => exitValue[j] = 0)'
    BY DEF AnswersTrue
  <2>1. CASE j = job[e]
    <3>1. Len(<<success>>) = 1 /\ <<success>>[1] = success
      OBVIOUS
    <3>2. ASSUME TRUE \in Items(<<success>>) PROVE success = TRUE
      <4>1. PICK i \in 1 .. Len(<<success>>) : <<success>>[i] = TRUE
        BY <3>2 DEF Items
      <4>2. i = 1
        BY <3>1, <4>1
      <4>. QED  BY <3>1, <4>1, <4>2
    <3>3. answers'[j] = <<success>>
      BY <1>3, <2>1
    <3>4. ASSUME TRUE \in Items(answers'[j]) PROVE exitValue'[j] = 0
      <4>1. success = TRUE
        BY <3>2, <3>3, <3>4, Zenon
      <4>. QED  BY <2>1, <4>1
    <3>5. Len(answers'[j]) <= 1
      BY <3>1, <3>3
    <3>. QED  BY <3>4, <3>5, Zenon
  <2>2. CASE j # job[e]
    BY <1>3, <2>2 DEF AnswersTrue
  <2>. QED  BY <2>1, <2>2
<1>9. ProcessOK'
  BY <1>1 DEF ProcessOK, Fields
<1>. QED  BY <1>4, <1>5, <1>6, <1>7, <1>8, <1>9

\* What AnswerStep needs: with its job an executor gives up all that was pending.
LEMMA NothingPending ==
    ASSUME PipesInv, NEW e \in Executors,
           pc[e] \in {"prepare", "task_write"} \/ HasStatus(e, job[e])
    PROVE  /\ \A j \in Items(writePipe[e].lines) : j = Quit
           /\ compute[e] # "execute"
<1>1. HasStatus(e, job[e]) => exitValue[job[e]] \in ExitValues /\ exitValue[job[e]] # Null
  BY JobsAreNumbers DEF PipesInv, TypeOK, ExecutorInv, ResultsOK, HasStatus
<1>. QED  BY <1>1 DEF PipesInv, ExecutorInv, PendingOK

\* The preparation of the job fails.
LEMMA PrepareFailedStep ==
    ASSUME PipesInv, NEW e \in Executors, pc[e] = "prepare", SendTaskDone(e, FALSE),
           UNCHANGED <<retries, sem, readerVars, cVars, pipeVars>>
    PROVE  PipesInv'
<1>. USE DEF PipesInv
<1>1. /\ job' = [job EXCEPT ![e] = Null] /\ pc' = [pc EXCEPT ![e] = "dequeue"]
      /\ answers' = [answers EXCEPT ![job[e]] = Append(@, FALSE)]
      /\ UNCHANGED <<assumed, sent, queue, stopper>>
  BY DEF SendTaskDone, Goto
<1>2. pc'[e] = "dequeue" /\ job'[e] = Null /\ ExecutorInv(e)
  BY <1>1 DEF TypeOK, StepsOK
<1>. USE DEF readerVars, cVars, pipeVars
<1>3. TypeOK'
  BY <1>1, AnswersTyped DEF TypeOK
<1>4. ExecutorInv(e)'
  BY <1>1, <1>2, NothingPending, JobsAreNumbers
     DEF ExecutorInv, HoldsJob, WaiterOK, FieldsOK, EndOK, JobSteps, PendingOK, ResultsOK,
         StatusKept, Released, LateResults, NoResult, HasStatus
<1>5. \A f \in Executors \ {e} : UNCHANGED Fields(f)
  BY <1>1 DEF Fields, StepsOK, TypeOK
<1>. QED  BY <1>3, <1>4, <1>5, AnswerStep

\* The last retry of the write fails.
LEMMA WriteFailedStep ==
    ASSUME PipesInv, NEW e \in Executors, pc[e] = "task_write", SendTaskDone(e, FALSE),
           writePipe' = [writePipe EXCEPT ![e] = CloseWrite(@, e)],
           retries' = [retries EXCEPT ![e] = @ + 1],
           UNCHANGED <<sem, readerVars, cVars, readPipe>>
    PROVE  PipesInv'
<1>. USE DEF PipesInv
<1>1. /\ job' = [job EXCEPT ![e] = Null] /\ pc' = [pc EXCEPT ![e] = "dequeue"]
      /\ answers' = [answers EXCEPT ![job[e]] = Append(@, FALSE)]
      /\ UNCHANGED <<assumed, sent, queue, stopper>>
  BY DEF SendTaskDone, Goto
<1>2. /\ pc'[e] = "dequeue" /\ job'[e] = Null /\ retries'[e] = retries[e] + 1
      /\ writePipe'[e] = CloseWrite(writePipe[e], e)
      /\ ExecutorInv(e)
  BY <1>1 DEF TypeOK, StepsOK
<1>3. /\ writePipe'[e] \in FifoType(Executors, Jobs \cup {Quit})
      /\ Items(writePipe'[e].lines) \subseteq Items(writePipe[e].lines)
  <2>1. writePipe[e] \in FifoType(Executors, Jobs \cup {Quit})
    BY DEF TypeOK
  <2>. QED  BY <1>2, <2>1, CloseWriteFifo
<1>. USE DEF readerVars, cVars
<1>4. TypeOK'
  <2>1. writePipe' \in [Executors -> FifoType(Executors, Jobs \cup {Quit})]
    BY <1>3 DEF TypeOK
  <2>2. retries' \in [Executors -> 0 .. MAX_RETRIES]
    BY <1>2, MaxRetriesAssumption DEF TypeOK, ExecutorInv, FieldsOK
  <2>. QED  BY <1>1, <2>1, <2>2, AnswersTyped DEF TypeOK
<1>5. ExecutorInv(e)'
  BY <1>1, <1>2, <1>3, NothingPending, JobsAreNumbers
     DEF ExecutorInv, HoldsJob, WaiterOK, FieldsOK, EndOK, JobSteps, PendingOK, ResultsOK,
         StatusKept, Released, LateResults, NoResult, HasStatus
<1>6. \A f \in Executors \ {e} : UNCHANGED Fields(f)
  BY <1>1 DEF Fields, StepsOK, TypeOK
<1>. QED  BY <1>4, <1>5, <1>6, AnswerStep

\* The executor takes the status of its job and answers it.
LEMMA GetTaskStatusStep ==
    ASSUME PipesInv, NEW e \in Executors, GetTaskStatus(e)
    PROVE  PipesInv'
<1>. USE DEF PipesInv
<1>1. PICK filesFound \in BOOLEAN :
           SendTaskDone(e, <<job[e], 0>> \in jobIdsToStatus[e] /\ filesFound)
  BY DEF GetTaskStatus
<1> DEFINE success == <<job[e], 0>> \in jobIdsToStatus[e] /\ filesFound
<1>2. /\ success \in BOOLEAN /\ SendTaskDone(e, success)
      /\ success = TRUE => <<job[e], 0>> \in jobIdsToStatus[e]
  BY <1>1
<1>. HIDE DEF success
<1>3. /\ job' = [job EXCEPT ![e] = Null] /\ pc' = [pc EXCEPT ![e] = "dequeue"]
      /\ answers' = [answers EXCEPT ![job[e]] = Append(@, success)]
      /\ jobIdsToStatus' = [jobIdsToStatus EXCEPT ![e] = {r \in @ : r[1] # job[e]}]
      /\ UNCHANGED <<assumed, sent, queue, stopper, retries, sem, reader, line,
                     jobIdsToWaiters, mustStop, stopSem, cVars, pipeVars>>
  BY <1>2 DEF GetTaskStatus, SendTaskDone, Goto
<1>4. /\ pc[e] = "status" /\ pc'[e] = "dequeue" /\ job'[e] = Null
      /\ jobIdsToStatus'[e] = {r \in jobIdsToStatus[e] : r[1] # job[e]}
      /\ ExecutorInv(e)
  BY <1>3 DEF GetTaskStatus, TypeOK, StepsOK
<1>5. HasStatus(e, job[e])
  BY <1>4 DEF ExecutorInv, StatusKept, Released
<1>. USE DEF cVars, pipeVars
<1>6. TypeOK'
  <2>1. jobIdsToStatus' \in [Executors -> SUBSET Results]
    BY <1>3, <1>4 DEF TypeOK
  <2>. QED  BY <1>2, <1>3, <2>1, AnswersTyped DEF TypeOK
<1>7. ExecutorInv(e)'
  BY <1>3, <1>4, <1>5, NothingPending, JobsAreNumbers
     DEF ExecutorInv, HoldsJob, WaiterOK, FieldsOK, EndOK, JobSteps, PendingOK, ResultsOK,
         StatusKept, Released, LateResults, NoResult, HasStatus
<1>8. \A f \in Executors \ {e} : UNCHANGED Fields(f)
  BY <1>3 DEF Fields, StepsOK, TypeOK
<1>9. success = TRUE => exitValue[job[e]] = 0
  <2>1. ASSUME <<job[e], 0>> \in jobIdsToStatus[e] PROVE exitValue[job[e]] = 0
    <3> DEFINE r == <<job[e], 0>>
    <3>1. r[1] = job[e] /\ r[2] = 0 /\ r \in jobIdsToStatus[e]
      BY <2>1
    <3>. HIDE DEF r
    <3>. QED  BY <1>4, <3>1 DEF ExecutorInv, ResultsOK
  <2>. QED  BY <1>2, <2>1
<1>. QED  BY <1>2, <1>3, <1>4, <1>6, <1>7, <1>8, <1>9, AnswerStep

\* The compute thread runs a job, for the first time.
LEMMA ExecuteStep ==
    ASSUME PipesInv, NEW e \in Executors, Execute(e)
    PROVE  PipesInv'
<1>. USE DEF PipesInv
<1>1. PICK v \in ExitValues : exitValue' = [exitValue EXCEPT ![command[e]] = v]
  BY DEF Execute
<1>2. /\ compute' = [compute EXCEPT ![e] = "result_open"]
      /\ UNCHANGED <<javaVars, execVars, readerVars, command, process, pipeVars>>
  BY DEF Execute, ComputeAt
<1>3. /\ compute[e] = "execute" /\ compute'[e] = "result_open"
      /\ \A f \in Executors : f # e => compute'[f] = compute[f]
      /\ command[e] \in Jobs /\ command[e] = job[e] /\ exitValue[job[e]] = Null
      /\ pc[e] \notin {"prepare", "task_open", "task_write"}
      /\ v # Null
  BY <1>2, JobsAreNumbers DEF Execute, ComputeAt, StepsOK, ExecutorInv, FieldsOK, PendingOK
<1>4. /\ exitValue'[job[e]] = v
      /\ \A j \in Jobs : j # job[e] => exitValue'[j] = exitValue[j]
      /\ \A j \in Jobs : exitValue[j] # Null => exitValue'[j] = exitValue[j]
  BY <1>1, <1>3 DEF TypeOK
<1>. USE DEF javaVars, execVars, readerVars, pipeVars
<1>5. TypeOK'
  <2>1. exitValue' \in [Jobs -> ExitValues \cup {Null}]
    BY <1>1 DEF TypeOK
  <2>. QED  BY <1>2, <2>1 DEF TypeOK
<1>6. StepsOK'
  BY <1>2 DEF StepsOK, ComputeSteps
<1>7. ASSUME NEW f \in Executors
      PROVE  ExecutorInv(f)'
  <2>1. /\ jobIdsToStatus[f] \subseteq Results
        /\ \A j \in Items(writePipe[f].lines) : j # Quit => j \in Jobs
        /\ \A r \in Items(readPipe[f].lines) : r # Quit => r \in Results
        /\ ExecutorInv(f)
    BY LinesTyped DEF TypeOK
  <2>2. f # e => job[f] # job[e]
    BY <1>3, JobsAreNumbers DEF OnePlace, HeldOK
  <2>3. (HoldsJob(f) /\ WaiterOK(f) /\ FieldsOK(f) /\ EndOK(f))'
    BY <1>2, <1>3, <2>1 DEF ExecutorInv, HoldsJob, WaiterOK, FieldsOK, EndOK
  <2>4. PendingOK(f)'
    <3>1. CASE f = e
      BY <1>2, <1>3, <2>1, <3>1 DEF ExecutorInv, PendingOK
    <3>2. CASE f # e
      BY <1>2, <1>3, <1>4, <2>1, <2>2, <3>2
         DEF ExecutorInv, PendingOK, FieldsOK, HoldsJob, JobSteps
    <3>. QED  BY <3>1, <3>2
  <2>5. ResultsOK(f)'
    <3>1. /\ \A r \in Results : exitValue[r[1]] = r[2] => exitValue'[r[1]] = r[2]
          /\ \A j \in Jobs : exitValue[j] \in ExitValues => exitValue'[j] \in ExitValues
      BY <1>4, JobsAreNumbers
    <3>2. f = e => exitValue'[command'[f]] \in ExitValues
      BY <1>2, <1>3, <1>4
    <3>. QED  BY <1>2, <1>3, <2>1, <3>1, <3>2 DEF ExecutorInv, ResultsOK, FieldsOK
  <2>6. (StatusKept(f) /\ LateResults(f))'
    BY <1>2, <1>3, <2>1
       DEF ExecutorInv, StatusKept, Released, LateResults, NoResult, HasStatus
  <2>. QED  BY <2>3, <2>4, <2>5, <2>6 DEF ExecutorInv
<1>8. OnePlace'
  <2>1. ASSUME NEW i \in 1 .. Len(queue') PROVE QueuedOK(i)'
    <3>1. queue[i] # Null => queue[i] \in Jobs /\ queue[i] # job[e]
      <4>1. QueuedOK(i) /\ i \in 1 .. Len(queue)
        BY <1>2 DEF OnePlace
      <4>2. queue[i] \in Jobs \cup {Null}
        BY <4>1 DEF TypeOK
      <4>. QED  BY <4>1, <4>2 DEF QueuedOK
    <3>. QED  BY <1>2, <1>4, <3>1 DEF OnePlace, QueuedOK, Untouched
  <2>2. \A f \in Executors : HeldOK(f)'
    BY <1>2 DEF OnePlace, HeldOK
  <2>3. \A j \in Jobs : j > sent' => Untouched(j)'
    <3>1. job[e] <= sent
      BY <1>3, JobsAreNumbers DEF OnePlace, HeldOK
    <3>2. \A j \in Jobs : j > sent => j # job[e]
      BY <3>1, SentAreJobs, JobsAreNumbers
    <3>. QED  BY <1>2, <1>4, <3>2 DEF OnePlace, Untouched
  <2>. QED  BY <2>1, <2>2, <2>3 DEF OnePlace
<1>9. NoneLost'
  BY <1>2 DEF NoneLost, Answered, Taken
<1>10. AnswersTrue'
  <2>1. \A j \in Jobs : exitValue[j] = 0 => exitValue'[j] = 0
    BY <1>4, JobsAreNumbers DEF ExitValues
  <2>. QED  BY <1>2, <2>1 DEF AnswersTrue
<1>11. ProcessOK'
  BY <1>2, <1>3 DEF ProcessOK
<1>. QED  BY <1>5, <1>6, <1>7, <1>8, <1>9, <1>10, <1>11

-----------------------------------------------------------------------------
(* Steps of the C process as a whole, and of stopThreads *)

\* The pipes of every executor change; what can be read from them does not grow.
LEMMA CrashStep ==
    ASSUME PipesInv, Crash
    PROVE  PipesInv'
<1>. USE DEF PipesInv
<1>1. /\ process = "up" /\ process' = "crashed"
      /\ writePipe' = [e \in Executors |-> CloseRead(writePipe[e])]
      /\ readPipe' = [e \in Executors |-> CloseWrite(readPipe[e], "compute")]
      /\ UNCHANGED <<javaVars, execVars, readerVars, compute, command, exitValue>>
  BY DEF Crash
<1>2. \A e \in Executors :
         /\ writePipe'[e] \in FifoType(Executors, Jobs \cup {Quit})
         /\ Items(writePipe'[e].lines) \subseteq Items(writePipe[e].lines)
         /\ readPipe'[e] \in FifoType(Executors \cup {"compute"}, Results \cup {Quit})
         /\ Items(readPipe'[e].lines) \subseteq Items(readPipe[e].lines)
  <2> TAKE e \in Executors
  <2>1. writePipe[e] \in FifoType(Executors, Jobs \cup {Quit})
    BY DEF TypeOK
  <2>2. writePipe'[e] = CloseRead(writePipe[e])
    BY <1>1
  <2>3. /\ readPipe[e] \in FifoType(Executors \cup {"compute"}, Results \cup {Quit})
        /\ readPipe'[e] = CloseWrite(readPipe[e], "compute")
    BY <1>1 DEF TypeOK
  <2>4. /\ writePipe'[e] \in FifoType(Executors, Jobs \cup {Quit})
        /\ Items(writePipe'[e].lines) \subseteq Items(writePipe[e].lines)
    BY <2>1, <2>2, CloseReadFifo
  <2>5. /\ readPipe'[e] \in FifoType(Executors \cup {"compute"}, Results \cup {Quit})
        /\ Items(readPipe'[e].lines) \subseteq Items(readPipe[e].lines)
    BY <2>3, CloseWriteFifo
  <2>. QED  BY <2>4, <2>5
<1>. USE DEF javaVars, execVars, readerVars
<1>3. TypeOK'
  <2>1. writePipe' \in [Executors -> FifoType(Executors, Jobs \cup {Quit})]
    BY <1>1, <1>2
  <2>2. readPipe' \in [Executors -> FifoType(Executors \cup {"compute"}, Results \cup {Quit})]
    BY <1>1, <1>2
  <2>. QED  BY <1>1, <2>1, <2>2 DEF TypeOK, Dead
<1>4. StepsOK'
  BY <1>1 DEF StepsOK
<1>5. ASSUME NEW e \in Executors
      PROVE  ExecutorInv(e)'
  <2>1. ExecutorInv(e)
    OBVIOUS
  <2>2. (HoldsJob(e) /\ WaiterOK(e) /\ FieldsOK(e) /\ EndOK(e))'
    BY <1>1, <2>1 DEF ExecutorInv, HoldsJob, WaiterOK, FieldsOK, EndOK
  <2>3. (PendingOK(e) /\ ResultsOK(e))'
    BY <1>1, <1>2, <2>1 DEF ExecutorInv, PendingOK, ResultsOK
  <2>4. (StatusKept(e) /\ LateResults(e))'
    BY <1>1, <1>2, <2>1
       DEF ExecutorInv, StatusKept, Released, LateResults, NoResult, HasStatus
  <2>. QED  BY <2>2, <2>3, <2>4 DEF ExecutorInv
<1>6. OnePlace' /\ NoneLost' /\ AnswersTrue'
  BY <1>1, PlacesKept
<1>7. ProcessOK'
  BY <1>1 DEF ProcessOK
<1>. QED  BY <1>3, <1>4, <1>5, <1>6, <1>7

\* The threads of an executor are not involved in the end of the process.
LEMMA ProcessStep ==
    ASSUME PipesInv, SpecificStop \/ PiperEnded \/ JoinComputeThreads \/ CleanEnv
    PROVE  PipesInv'
<1>. USE DEF PipesInv, execVars, readerVars, cVars, pipeVars, javaVars
<1>1. UNCHANGED <<assumed, sent, queue, answers, execVars, readerVars, compute, command,
                  exitValue, pipeVars>>
  BY DEF SpecificStop, PiperEnded, JoinComputeThreads, CleanEnv
<1>2. /\ process' \in {"up", "quit", "exited"} \cup Dead
      /\ stopper' \in {"none", "waiting", "piper", "done", "error"}
  BY DEF TypeOK, SpecificStop, PiperEnded, JoinComputeThreads, CleanEnv, Dead
<1>3. TypeOK'
  BY <1>1, <1>2 DEF TypeOK
<1>4. StepsOK'
  BY <1>1 DEF StepsOK
<1>5. \A e \in Executors : ExecutorInv(e)'
  BY <1>1, OtherExecutor DEF Fields
<1>6. OnePlace' /\ NoneLost' /\ AnswersTrue'
  BY <1>1, PlacesKept
<1>7. ProcessOK'
  BY <1>1 DEF ProcessOK, SpecificStop, PiperEnded, JoinComputeThreads, CleanEnv
<1>. QED  BY <1>3, <1>4, <1>5, <1>6, <1>7

-----------------------------------------------------------------------------
(* The theorems *)

\* The invariant holds when the worker starts: empty pipes and no job.
LEMMA InitPipesInv ==
    ASSUME Init
    PROVE  PipesInv
<1>1. \A W, L : EmptyFifo \in FifoType(W, L)
  BY DEF FifoType, EmptyFifo
<1>2. \A W, L : OpenRead(EmptyFifo) \in FifoType(W, L)
  BY <1>1, OpenReadFifo
<1>3. OpenRead(EmptyFifo).lines = <<>>
  BY <1>1, OpenReadFifo DEF EmptyFifo
<1>4. TypeOK
  BY <1>2, JobsAreNumbers, MaxRetriesAssumption DEF Init, TypeOK
<1>5. StepsOK
  BY DEF Init, StepsOK, ReaderSteps, ComputeSteps
<1>6. \A e \in Executors : ExecutorInv(e)
  <2> TAKE e \in Executors
  <2>1. /\ writePipe[e].lines = <<>> /\ readPipe[e].lines = <<>>
        /\ pc[e] = "dequeue" /\ reader[e] = "read" /\ compute[e] = "read" /\ job[e] = Null
        /\ jobIdsToStatus[e] = {} /\ jobIdsToWaiters[e] = {} /\ stopSem[e] = "null"
    BY <1>3 DEF Init
  <2>. QED
    BY <2>1, NoItems
       DEF ExecutorInv, HoldsJob, WaiterOK, FieldsOK, EndOK, JobSteps, PendingOK, ResultsOK,
           StatusKept, Released, LateResults, NoResult, HasStatus
<1>7. OnePlace
  BY DEF Init, OnePlace, QueuedOK, HeldOK, Untouched
<1>8. NoneLost
  BY DEF Init, NoneLost
<1>9. AnswersTrue
  <2>1. Len(<<>>) <= 1
    OBVIOUS
  <2>2. \A j \in Jobs : answers[j] = <<>>
    BY DEF Init
  <2>. QED  BY <2>1, <2>2, NoItems DEF AnswersTrue
<1>10. ProcessOK
  BY DEF Init, ProcessOK
<1>. QED  BY <1>4, <1>5, <1>6, <1>7, <1>8, <1>9, <1>10 DEF PipesInv

\* Every step of every thread keeps the invariant.
LEMMA NextPipesInv ==
    ASSUME PipesInv, [Next]_vars
    PROVE  PipesInv'
<1>1. CASE EnqueueJob
  BY <1>1, EnqueueJobStep
<1>2. CASE StopThreads
  BY <1>2, StopThreadsStep
<1>3. CASE Crash
  BY <1>3, CrashStep
<1>4. CASE SpecificStop \/ PiperEnded \/ JoinComputeThreads \/ CleanEnv
  BY <1>4, ProcessStep
<1>5. ASSUME NEW e \in Executors, ExecutorStep(e)
      PROVE  PipesInv'
  <2>1. CASE Dequeue(e)
    BY <2>1, DequeueStep
  <2>2. CASE Prepare(e)
    BY <2>2, PrepareTaskStep, PrepareFailedStep DEF Prepare
  <2>3. CASE OpenTaskPipe(e, "task_open", "task_write") \/ OpenTaskPipe(e, "quit_open", "quit_write")
    BY <2>3, OpenTaskPipeStep
  <2>4. CASE WriteTask(e)
    BY <2>4, WriteTaskStep, RetryTaskStep, WriteFailedStep DEF WriteTask
  <2>5. CASE CloseTaskPipe(e, "task_close", "ask") \/ CloseTaskPipe(e, "quit_close", "must_stop")
    BY <2>5, CloseTaskPipeStep
  <2>6. CASE AskForTaskEnd(e) \/ RegisterWaiter(e) \/ AcquireTaskEnd(e) \/ GetTaskStatus(e)
    BY <2>6, AskForTaskEndStep, RegisterWaiterStep, AcquireTaskEndStep, GetTaskStatusStep
  <2>7. CASE WriteQuit(e) \/ SetMustStop(e) \/ SetStopSem(e) \/ OpenReadPipe(e)
    BY <2>7, WriteQuitStep, SetMustStopStep, SetStopSemStep, OpenReadPipeStep
  <2>8. CASE WriteReaderQuit(e)
    BY <2>8, WriteReaderQuitStep, RetryReaderQuitStep DEF WriteReaderQuit
  <2>9. CASE CloseReadPipe(e) \/ ThreadEnd(e)
    BY <2>9, CloseReadPipeStep, ThreadEndStep
  <2>. QED
    BY <1>5, <2>1, <2>2, <2>3, <2>4, <2>5, <2>6, <2>7, <2>8, <2>9 DEF ExecutorStep
<1>6. ASSUME NEW e \in Executors, ReaderStep(e)
      PROVE  PipesInv'
  <2>1. CASE ReaderLoop(e)
    BY <2>1, ReaderLoopOnStep, ReaderEndStep DEF ReaderLoop
  <2>2. CASE ReaderOpen(e)
    BY <2>2, ReaderOpenStep, ReaderNoPipeStep DEF ReaderOpen, pipeVars
  <2>3. CASE ReaderRead(e) \/ PutStatus(e) \/ ReleaseWaiter(e) \/ ReaderClose(e)
    BY <2>3, ReaderReadStep, PutStatusStep, ReleaseWaiterStep, ReaderCloseStep
  <2>. QED  BY <1>6, <2>1, <2>2, <2>3 DEF ReaderStep
<1>7. ASSUME NEW e \in Executors, ComputeStep(e)
      PROVE  PipesInv'
  BY <1>7, ComputeOpenStep, ComputeReadStep, ExecuteStep, ResultOpenStep, ResultWriteStep,
     ResultCloseStep DEF ComputeStep
<1>8. CASE UNCHANGED vars
  <2>. USE <1>8 DEF PipesInv, vars, javaVars, execVars, readerVars, cVars, pipeVars
  <2>1. TypeOK' /\ StepsOK'
    BY DEF TypeOK, StepsOK
  <2>2. \A e \in Executors : ExecutorInv(e)'
    BY OtherExecutor DEF Fields
  <2>3. OnePlace' /\ NoneLost' /\ AnswersTrue'
    BY PlacesKept
  <2>4. ProcessOK'
    BY DEF ProcessOK
  <2>. QED  BY <2>1, <2>2, <2>3, <2>4
<1>. QED  BY <1>1, <1>2, <1>3, <1>4, <1>5, <1>6, <1>7, <1>8 DEF Next, ThreadStep

\* The inductive invariant of the executors and the pipes of the persistent C worker
\* (CThreadPool, CExternalExecutor and persistent_worker_c.cc) holds in every state.
THEOREM Invariance == Spec => []PipesInv
<1>1. Init => PipesInv
  BY InitPipesInv
<1>2. PipesInv /\ [Next]_vars => PipesInv'
  BY NextPipesInv
<1>. QED  BY <1>1, <1>2, PTL DEF Spec

\* The fields of the executors, of their readers and of the C process keep their types:
\* a semaphore of an executor never gets a second permit, and the loops of WriteTask and
\* WriteReaderQuit stay within their retries.
THEOREM TypeCorrect == Spec => []TypeOK
<1>1. PipesInv => TypeOK
  BY DEF PipesInv
<1>. QED  BY <1>1, Invariance, PTL

\* A job is answered once at most, and a success is the exit value of this very job,
\* whatever the writes that fail and the crashes of the C process.
THEOREM AnswersAreTrue == Spec => []AnswersTrue
<1>1. PipesInv => AnswersTrue
  BY DEF PipesInv
<1>. QED  BY <1>1, Invariance, PTL

\* An executor that its reader released finds the status of its job, and, when jobs are
\* slower than the registration of their waiter, no result comes before the waiter.
THEOREM ResultsAreNotMissed == Spec => []NoMissedResult
<1>1. PipesInv => NoMissedResult
  BY DEF PipesInv, ExecutorInv, StatusKept, Released, LateResults, NoMissedResult
<1>. QED  BY <1>1, Invariance, PTL

\* When stopThreads returns, the readers and the compute threads have ended, and every job
\* has its answer or is still in the queue.
THEOREM StopsCleanly == Spec => []StopIsClean
<1>1. ASSUME PipesInv, stopper = "done" PROVE StopIsClean
  <2>1. process = "exited" /\ \A e \in Executors : pc[e] = "ended" /\ compute[e] = "ended"
    BY <1>1 DEF PipesInv, ProcessOK
  <2>2. \A e \in Executors : reader[e] = "ended" /\ job[e] = Null
    BY <1>1, <2>1 DEF PipesInv, ExecutorInv, EndOK, HoldsJob, JobSteps
  <2>3. \A j \in 1 .. sent : ~ Taken(j)
    BY <1>1, <2>2, SentAreJobs, JobsAreNumbers DEF PipesInv, Taken
  <2>. QED  BY <1>1, <2>1, <2>2, <2>3 DEF PipesInv, NoneLost, StopIsClean
<1>2. PipesInv => StopIsClean
  BY <1>1 DEF StopIsClean
<1>. QED  BY <1>2, Invariance, PTL
=============================================================================
