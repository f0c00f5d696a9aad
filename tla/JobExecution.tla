---------------------------- MODULE JobExecution ----------------------------
(***************************************************************************)
(* One launch after another of an execution: its input data are copied to  *)
(* the worker, then its job is submitted, and both are retried when they   *)
(* fail (ExecutionAction). Four kinds of threads take part: the Task       *)
(* Dispatcher (TD), which launches and treats the ends; a pool of threads  *)
(* that perform the copies and call back the listener of the transfers     *)
(* (the GAT adaptor: Dispatcher, ImmediateCopy, DataOperation,             *)
(* JobTransfersListener); the job submitter (JobDispatcher); and the       *)
(* middleware that tells the end of a job. A thread that calls back goes   *)
(* on in the code of ExecutionAction and may order the next copies itself. *)
(*                                                                         *)
(* A copy of a datum that is only read is shared: who comes while another  *)
(* copy to the same worker is in progress joins the listeners of that one. *)
(***************************************************************************)
EXTENDS Integers, Sequences, FiniteSets

CONSTANTS
    Data,       \* the data that executions need
    Modes,      \* how the executions may access the data: "R", "RW" or "none"
    Workers,
    Pool,       \* the threads that perform copies
    TD,         \* the thread of the Task Dispatcher
    None,
    TRANSFER_CHANCES, SUBMISSION_CHANCES, SCHEDULING_CHANCES

ASSUME ModesAssumption ==
    \A m \in Modes : m \in [DOMAIN m -> [Data -> {"R", "RW", "none"}]]
ASSUME ChancesAssumption ==
    {TRANSFER_CHANCES, SUBMISSION_CHANCES, SCHEDULING_CHANCES} \subseteq Nat \ {0}
ASSUME ThreadsAssumption == TD \notin Pool /\ None \notin Pool \cup {TD}
ASSUME FiniteAssumption == IsFiniteSet(Data) /\ IsFiniteSet(Pool)

Threads == Pool \cup {TD}
Rounds  == 1 .. TRANSFER_CHANCES * SCHEDULING_CHANCES

\* None is not a reaction of a listener.
ASSUME NoneAssumption ==
    \A m \in Modes : None \notin ((DOMAIN m) \X Rounds) \X {"doReady", "doFailures"}

VARIABLES
    mode,        \* the accesses of each execution
    action,      \* the fields of each ExecutionAction
    listener,    \* the fields of each JobTransfersListener
    runner,      \* doInputTransfers: the thread that runs it, and what is left to order
    doing,       \* the reaction of a listener that a thread is about to run
    copyQueue,   \* copies that wait for a thread of the pool
    copy,        \* the copy that each thread of the pool performs
    tgtLoc,      \* Copy.tgtLoc: the worker to which the copies of a round go
    opListeners, \* DataOperation.listeners
    endState,    \* DataOperation.endState
    inProgress,  \* LogicalData.inProgress, of all the data
    located,     \* LogicalData.locations: workers that are said to have a datum
    present,     \* workers that really have it
    jobQueue,    \* jobs that wait for the submitter
    onWorker,    \* jobs of each execution that the middleware runs
    tdQueue      \* ends that the TD has still to treat

transferVars == <<listener, runner, tgtLoc, doing>>
copyVars     == <<copyQueue, copy, opListeners, endState, inProgress, located, present>>
jobVars      == <<jobQueue, onWorker>>
vars == <<mode, action, transferVars, copyVars, jobVars, tdQueue>>

Actions   == DOMAIN mode
Listeners == Actions \X Rounds   \* one JobTransfersListener for each round of transfers
Ops       == Actions \X Rounds \X Data

NoRunner == [by |-> None, left |-> {}]
NoCopy   == [op |-> None, step |-> "idle", notify |-> << >>, outcome |-> "null"]

Init ==
    /\ mode \in Modes
    /\ action = [a \in Actions |-> [state |-> "ready", worker |-> None, launches |-> 0,
                                    transferErrors |-> 0, executionErrors |-> 0, round |-> 0]]
    /\ listener = [l \in Listeners |-> [operation |-> 0, errors |-> 0, enabled |-> FALSE]]
    /\ runner = [a \in Actions |-> NoRunner]
    /\ tgtLoc = [l \in Listeners |-> None]
    /\ doing = [i \in Threads |-> None]
    /\ copyQueue = << >> /\ copy = [i \in Pool |-> NoCopy]
    /\ opListeners = [op \in Ops |-> << <<op[1], op[2]>> >>]
    /\ endState = [op \in Ops |-> "null"]
    /\ inProgress = {}
    /\ located = [d \in Data |-> {}] /\ present = [d \in Data |-> {}]
    /\ jobQueue = << >> /\ onWorker = [a \in Actions |-> 0]
    /\ tdQueue = << >>

Inputs(a)  == {d \in Data : mode[a][d] # "none"}
Current(a) == <<a, action[a].round>>
WorkerOf(op) == tgtLoc[<<op[1], op[2]>>]
ReadOnly(op) == mode[op[1]][op[3]] = "R"

\* A thread that is not in the middle of a callback or of ordering transfers.
Free(i) == doing[i] = None /\ \A a \in Actions : runner[a].by # i

-----------------------------------------------------------------------------
(* ExecutionAction and JobTransfersListener *)

\* doInputTransfers, by thread i: a new listener; the transfers are ordered one by one.
DoInputTransfers(a, i, fields) ==
    /\ action' = [action EXCEPT ![a] = [fields EXCEPT !.round = @ + 1]]
    /\ runner' = [runner EXCEPT ![a] = [by |-> i, left |-> Inputs(a)]]
    /\ tgtLoc' = [tgtLoc EXCEPT ![<<a, fields.round + 1>>] = fields.worker]

\* doAction: the TD launches an execution on some worker.
DoAction(a) ==
    /\ Free(TD) /\ action[a].state = "ready"
    /\ \E w \in Workers :
          DoInputTransfers(a, TD, [action[a] EXCEPT !.state = "running", !.worker = w,
                                                    !.launches = @ + 1, !.transferErrors = 0,
                                                    !.executionErrors = 0])
    /\ UNCHANGED <<mode, listener, doing, copyVars, jobVars, tdQueue>>

\* transferJobData: addOperation, then the copy goes to the queue.
TransferJobData(a) ==
    /\ \E d \in runner[a].left :
          /\ copyQueue' = Append(copyQueue, <<a, action[a].round, d>>)
          /\ runner' = [runner EXCEPT ![a].left = @ \ {d}]
    /\ listener' = [listener EXCEPT ![Current(a)].operation = @ + 1]
    /\ UNCHANGED <<mode, action, tgtLoc, doing, copy, opListeners, endState, inProgress,
                   located, present, jobVars, tdQueue>>

\* A mutant: the errors are not looked at.
VerdictReady(l, operation, errors, enabled) ==
    IF operation = 0 /\ enabled THEN <<l, "doReady">> ELSE None

Verdict(l, operation, errors, enabled) ==
    IF operation = 0 /\ enabled
    THEN <<l, IF errors > 0 THEN "doFailures" ELSE "doReady">> ELSE None

\* enable: the transfers may have ended already, or may not exist.
Enable(a) ==
    LET l == Current(a)
    IN  /\ runner[a].by # None /\ runner[a].left = {}
        /\ listener' = [listener EXCEPT ![l].enabled = TRUE]
        /\ doing' = [doing EXCEPT
                ![runner[a].by] = Verdict(l, listener[l].operation, listener[l].errors, TRUE)]
        /\ runner' = [runner EXCEPT ![a] = NoRunner]
        /\ UNCHANGED <<mode, action, tgtLoc, copyVars, jobVars, tdQueue>>

\* doSubmit: the job goes to the submitter.
DoSubmit(i) ==
    /\ doing[i] # None /\ doing[i][2] = "doReady"
    /\ jobQueue' = Append(jobQueue, doing[i][1][1])
    /\ doing' = [doing EXCEPT ![i] = None]
    /\ UNCHANGED <<mode, action, listener, runner, tgtLoc, copyVars, onWorker, tdQueue>>

\* A mutant: one chance too many.
FailedTransfersOnceMore(i) ==
    /\ doing[i] # None /\ doing[i][2] = "doFailures"
    /\ doing' = [doing EXCEPT ![i] = None]
    /\ LET a == doing[i][1][1]
           counted == [action[a] EXCEPT !.transferErrors = @ + 1]
       IN  IF counted.transferErrors <= TRANSFER_CHANCES
           THEN DoInputTransfers(a, i, counted) /\ UNCHANGED tdQueue
           ELSE /\ action' = [action EXCEPT ![a] = counted]
                /\ tdQueue' = Append(tdQueue, <<a, "error">>)
                /\ UNCHANGED <<runner, tgtLoc>>
    /\ UNCHANGED <<mode, listener, copyVars, jobVars>>

\* failedTransfers: all the inputs are transferred again, or the launch has failed.
FailedTransfers(i) ==
    /\ doing[i] # None /\ doing[i][2] = "doFailures"
    /\ doing' = [doing EXCEPT ![i] = None]
    /\ LET a == doing[i][1][1]
           counted == [action[a] EXCEPT !.transferErrors = @ + 1]
       IN  IF counted.transferErrors < TRANSFER_CHANCES
           THEN DoInputTransfers(a, i, counted) /\ UNCHANGED tdQueue
           ELSE /\ action' = [action EXCEPT ![a] = counted]
                /\ tdQueue' = Append(tdQueue, <<a, "error">>)
                /\ UNCHANGED <<runner, tgtLoc>>
    /\ UNCHANGED <<mode, listener, copyVars, jobVars>>

-----------------------------------------------------------------------------
(* The pool: ImmediateCopy.perform and DataOperation.notifyEnd *)

Dequeue(i) ==
    /\ Free(i) /\ copy[i] = NoCopy /\ copyQueue # << >>
    /\ copy' = [copy EXCEPT ![i] = [NoCopy EXCEPT !.op = Head(copyQueue), !.step = "perform"]]
    /\ copyQueue' = Tail(copyQueue)
    /\ UNCHANGED <<mode, action, transferVars, opListeners, endState, inProgress, located,
                   present, jobVars, tdQueue>>

\* The locks: the listeners of an operation while they are notified, and the datum while
\* the listeners of a copy that ended well are.
Notifying(op) == \E i \in Pool : copy[i].op = op /\ copy[i].step = "notify"
Locked(d) ==
    \E i \in Pool : copy[i].step = "notify" /\ copy[i].op[3] = d /\ copy[i].outcome = "ok"

\* Copies in progress that bring the same datum to the same place.
SameCopy(op) ==
    {c \in inProgress : c[3] = op[3] /\ ReadOnly(c) /\ WorkerOf(c) = WorkerOf(op)}

\* end: the listeners are notified one by one, under the lock of their list.
EndAs(i, outcome, whom) ==
    copy' = [copy EXCEPT ![i].step = "notify", ![i].outcome = outcome, ![i].notify = whom]

\* The datum is there already: nothing to copy.
AlreadyAvailable(i) ==
    LET op == copy[i].op
    IN  /\ copy[i].step = "perform" /\ ~ Locked(op[3])
        /\ ReadOnly(op) /\ WorkerOf(op) \in located[op[3]]
        /\ endState' = [endState EXCEPT ![op] = "ok"]
        /\ EndAs(i, "ok", opListeners[op])
        /\ UNCHANGED <<mode, action, transferVars, copyQueue, opListeners, inProgress,
                       located, present, jobVars, tdQueue>>

\* A mutant: who joins a copy that has just ended is not notified.
AlreadyCopyingUnheard(i) ==
    LET op == copy[i].op
    IN  /\ copy[i].step = "perform" /\ ~ Locked(op[3])
        /\ ReadOnly(op) /\ WorkerOf(op) \notin located[op[3]]
        /\ endState' = [endState EXCEPT ![op] = "in_progress"]
        /\ \E other \in SameCopy(op) :
              opListeners' = [opListeners EXCEPT ![other] = @ \o opListeners[op]]
        /\ copy' = [copy EXCEPT ![i] = NoCopy]
        /\ UNCHANGED <<mode, action, transferVars, copyQueue, inProgress, located, present,
                       jobVars, tdQueue>>

\* The same copy is in progress: its listeners grow, unless it has ended meanwhile.
AlreadyCopying(i) ==
    LET op == copy[i].op
    IN  /\ copy[i].step = "perform" /\ ~ Locked(op[3])
        /\ ReadOnly(op) /\ WorkerOf(op) \notin located[op[3]]
        /\ endState' = [endState EXCEPT ![op] = "in_progress"]
        /\ \E other \in SameCopy(op) :
              /\ ~ Notifying(other)
              /\ IF endState[other] = "null"
                 THEN /\ opListeners' = [opListeners EXCEPT ![other] = @ \o opListeners[op]]
                      /\ copy' = [copy EXCEPT ![i] = NoCopy]
                 ELSE /\ EndAs(i, endState[other], opListeners[op])
                      /\ UNCHANGED opListeners
        /\ UNCHANGED <<mode, action, transferVars, copyQueue, inProgress, located, present,
                       jobVars, tdQueue>>

StartCopy(i) ==
    LET op == copy[i].op
    IN  /\ copy[i].step = "perform" /\ ~ Locked(op[3])
        /\ ReadOnly(op) => WorkerOf(op) \notin located[op[3]] /\ SameCopy(op) = {}
        /\ inProgress' = inProgress \cup {op}
        /\ copy' = [copy EXCEPT ![i].step = "copy"]
        /\ UNCHANGED <<mode, action, transferVars, copyQueue, opListeners, endState,
                       located, present, jobVars, tdQueue>>

\* specificCopy returns.
CopySucceeds(i) ==
    LET op == copy[i].op
    IN  /\ copy[i].step = "copy"
        /\ present' = IF ReadOnly(op)
                      THEN [present EXCEPT ![op[3]] = @ \cup {WorkerOf(op)}] ELSE present
        /\ copy' = [copy EXCEPT ![i].step = "finally"]
        /\ UNCHANGED <<mode, action, transferVars, copyQueue, opListeners, endState,
                       inProgress, located, jobVars, tdQueue>>

\* specificCopy throws: the listeners are told in the handler, before the finally block.
CopyFails(i) ==
    LET op == copy[i].op
    IN  /\ copy[i].step = "copy"
        /\ endState' = [endState EXCEPT ![op] = "failed"]
        /\ EndAs(i, "failed", opListeners[op])
        /\ UNCHANGED <<mode, action, transferVars, copyQueue, opListeners, inProgress,
                       located, present, jobVars, tdQueue>>

\* The finally block: the copy is not in progress any more, and the location of the target
\* is added, also when the copy failed.
Finally(i) ==
    LET op == copy[i].op
    IN  /\ copy[i].step = "finally" /\ ~ Locked(op[3])
        /\ inProgress' = inProgress \ {op}
        /\ located' = IF ReadOnly(op)
                      THEN [located EXCEPT ![op[3]] = @ \cup {WorkerOf(op)}] ELSE located
        /\ copy' = IF endState[op] = "failed" THEN [copy EXCEPT ![i] = NoCopy]
                                              ELSE [copy EXCEPT ![i].step = "end"]
        /\ UNCHANGED <<mode, action, transferVars, copyQueue, opListeners, endState,
                       present, jobVars, tdQueue>>

EndOk(i) ==
    LET op == copy[i].op
    IN  /\ copy[i].step = "end" /\ ~ Locked(op[3])
        /\ endState' = [endState EXCEPT ![op] = "ok"]
        /\ EndAs(i, "ok", opListeners[op])
        /\ UNCHANGED <<mode, action, transferVars, copyQueue, opListeners, inProgress,
                       located, present, jobVars, tdQueue>>

\* A mutant: the last transfer submits the job although the listener is not enabled.
NotifyDisabledListener(i) ==
    /\ copy[i].step = "notify" /\ Free(i) /\ copy[i].notify # << >>
    /\ LET l == Head(copy[i].notify)
           operation == listener[l].operation - 1
           errors == listener[l].errors + (IF copy[i].outcome = "ok" THEN 0 ELSE 1)
       IN  /\ listener' = [listener EXCEPT ![l].operation = operation, ![l].errors = errors]
           /\ doing' = [doing EXCEPT ![i] = Verdict(l, operation, errors, TRUE)]
    /\ copy' = [copy EXCEPT ![i].notify = Tail(@)]
    /\ UNCHANGED <<mode, action, runner, tgtLoc, copyQueue, opListeners, endState,
                   inProgress, located, present, jobVars, tdQueue>>

\* notifyEnd and notifyFailure of a listener; its reaction follows outside its lock, and
\* before the next listener is notified.
NotifyListener(i) ==
    /\ copy[i].step = "notify" /\ Free(i) /\ copy[i].notify # << >>
    /\ LET l == Head(copy[i].notify)
           operation == listener[l].operation - 1
           errors == listener[l].errors + (IF copy[i].outcome = "ok" THEN 0 ELSE 1)
       IN  /\ listener' = [listener EXCEPT ![l].operation = operation, ![l].errors = errors]
           /\ doing' = [doing EXCEPT ![i] = Verdict(l, operation, errors, listener[l].enabled)]
    /\ copy' = [copy EXCEPT ![i].notify = Tail(@)]
    /\ UNCHANGED <<mode, action, runner, tgtLoc, copyQueue, opListeners, endState,
                   inProgress, located, present, jobVars, tdQueue>>

Notified(i) ==
    /\ copy[i].step = "notify" /\ Free(i) /\ copy[i].notify = << >>
    /\ copy' = IF copy[i].op \in inProgress THEN [copy EXCEPT ![i].step = "finally"]
                                            ELSE [copy EXCEPT ![i] = NoCopy]
    /\ UNCHANGED <<mode, action, transferVars, copyQueue, opListeners, endState, inProgress,
                   located, present, jobVars, tdQueue>>

-----------------------------------------------------------------------------
(* The job submitter and the middleware *)

\* A mutant: the failures of a job are not counted.
FailedJobUncounted(a, queue) ==
    jobQueue' = Append(queue, a) /\ UNCHANGED <<action, tdQueue>>

\* failedJob: the same job is submitted again, or the launch has failed.
FailedJob(a, queue) ==
    LET counted == [action[a] EXCEPT !.executionErrors = @ + 1]
    IN  /\ action' = [action EXCEPT ![a] = counted]
        /\ IF counted.transferErrors + counted.executionErrors < SUBMISSION_CHANCES
           THEN jobQueue' = Append(queue, a) /\ UNCHANGED tdQueue
           ELSE jobQueue' = queue /\ tdQueue' = Append(tdQueue, <<a, "error">>)

SubmitJob ==
    /\ jobQueue # << >>
    /\ onWorker' = [onWorker EXCEPT ![Head(jobQueue)] = @ + 1]
    /\ jobQueue' = Tail(jobQueue)
    /\ UNCHANGED <<mode, action, transferVars, copyVars, tdQueue>>

SubmissionFails ==
    /\ jobQueue # << >>
    /\ FailedJob(Head(jobQueue), Tail(jobQueue))
    /\ UNCHANGED <<mode, transferVars, copyVars, onWorker>>

\* A job completes only if the data that it reads are in its worker. The data that it
\* writes get their locations.
CompletedJob(a) ==
    /\ onWorker[a] > 0
    /\ \A d \in Data : mode[a][d] = "R" => action[a].worker \in present[d]
    /\ onWorker' = [onWorker EXCEPT ![a] = @ - 1]
    /\ tdQueue' = Append(tdQueue, <<a, "completed">>)
    /\ UNCHANGED <<mode, action, transferVars, copyVars, jobQueue>>

JobFails(a) ==
    /\ onWorker[a] > 0
    /\ onWorker' = [onWorker EXCEPT ![a] = @ - 1]
    /\ FailedJob(a, jobQueue)
    /\ UNCHANGED <<mode, transferVars, copyVars>>

-----------------------------------------------------------------------------
(* The TD treats the ends *)

\* doCompleted; doError launches the execution again, or gives it up (doFailed).
TreatEnd ==
    /\ Free(TD) /\ tdQueue # << >>
    /\ LET a == Head(tdQueue)[1]
       IN  action' = [action EXCEPT ![a].state =
                         IF Head(tdQueue)[2] = "completed" THEN "completed"
                         ELSE IF action[a].launches >= SCHEDULING_CHANCES THEN "failed"
                         ELSE "ready"]
    /\ tdQueue' = Tail(tdQueue)
    /\ UNCHANGED <<mode, transferVars, copyVars, jobVars>>

-----------------------------------------------------------------------------
ActionStep(a) ==
    DoAction(a) \/ TransferJobData(a) \/ Enable(a) \/ CompletedJob(a) \/ JobFails(a)
ReactStep(i) == DoSubmit(i) \/ FailedTransfers(i)
PoolStep(i) ==
    \/ Dequeue(i) \/ AlreadyAvailable(i) \/ AlreadyCopying(i) \/ StartCopy(i)
    \/ CopySucceeds(i) \/ CopyFails(i) \/ Finally(i) \/ EndOk(i)
    \/ NotifyListener(i) \/ Notified(i)

Next ==
    \/ \E a \in Actions : ActionStep(a)
    \/ \E i \in Threads : ReactStep(i)
    \/ \E i \in Pool : PoolStep(i)
    \/ SubmitJob \/ SubmissionFails \/ TreatEnd

Spec == Init /\ [][Next]_vars

\* The threads loop over blocking queues, copies return or throw, and jobs end.
FairSpec == Spec /\ WF_vars(Next)

-----------------------------------------------------------------------------
(* Properties *)

\* The types of the fields, of the queues and of the locations; the operations of a
\* listener are never counted below zero, and the rounds stay within their chances.
TypeOK ==
    /\ action \in [Actions -> [state : {"ready", "running", "completed", "failed"},
                               worker : Workers \cup {None},
                               launches : 0 .. SCHEDULING_CHANCES,
                               transferErrors : 0 .. TRANSFER_CHANCES,
                               executionErrors : 0 .. SUBMISSION_CHANCES,
                               round : {0} \cup Rounds]]
    /\ listener \in [Listeners -> [operation : 0 .. Cardinality(Data),
                                   errors : 0 .. Cardinality(Data), enabled : BOOLEAN]]
    /\ runner \in [Actions -> [by : Threads \cup {None}, left : SUBSET Data]]
    /\ copyQueue \in Seq(Ops) /\ opListeners \in [Ops -> Seq(Listeners)]
    /\ inProgress \subseteq Ops
    /\ located \in [Data -> SUBSET Workers] /\ present \in [Data -> SUBSET Workers]
    /\ jobQueue \in Seq(Actions) /\ onWorker \in [Actions -> Nat]

Times(q, x) == Cardinality({k \in 1 .. Len(q) : q[k] = x})
One(b) == IF b THEN 1 ELSE 0

\* What may still decide the launch of an execution: the transfers that are being ordered
\* or waited for, a reaction, a job that is queued or runs, or an end that is not treated.
Carriers(a) ==
    LET l == listener[Current(a)]
    IN  One(runner[a].by # None)
        + Cardinality({i \in Threads : doing[i] # None /\ doing[i][1][1] = a})
        + One(action[a].round # 0 /\ l.enabled /\ l.operation > 0)
        + Times(jobQueue, a) + onWorker[a]
        + Times(tdQueue, <<a, "completed">>) + Times(tdQueue, <<a, "error">>)

\* Exactly one of them holds a running execution, and none holds another: the last
\* transfer and enable never both submit its job and never both leave it, a failure does
\* not launch a retry beside something that is still going on, and no end comes twice.
OneCarrier ==
    \A a \in Actions : action[a].round # 0 => Carriers(a) = One(action[a].state = "running")

Own(op) == <<op[1], op[2]>>
WillNotify(i, l) ==
    LET c == copy[i]
    IN  \/ c.step = "perform" /\ Own(c.op) = l
        \/ /\ c.step \in {"copy", "end"} \/ (c.step = "finally" /\ endState[c.op] = "null")
           /\ Times(opListeners[c.op], l) > 0
        \/ c.step = "notify" /\ Times(c.notify, l) > 0

\* The operations that a listener counts are those that will notify it: a copy that is
\* joined, skipped or retried neither forgets a listener nor notifies one twice.
ListenersCounted ==
    \A l \in Listeners :
        listener[l].operation =
            Cardinality({k \in 1 .. Len(copyQueue) : Own(copyQueue[k]) = l})
            + Cardinality({i \in Pool : WillNotify(i, l)})

\* A job is queued or runs only when every transfer of its last round has ended well.
SubmittedAfterTransfers ==
    \A a \in Actions :
        Times(jobQueue, a) + onWorker[a] > 0 =>
            LET l == listener[Current(a)] IN l.enabled /\ l.operation = 0 /\ l.errors = 0

\* Every execution is completed or given up: no transfer, retry or end gets lost.
ActionsEnd == <>(\A a \in Actions : action[a].state \in {"completed", "failed"})

\* When a job is submitted the data that it reads are in its worker.
SubmittedWithInputs ==
    \A a \in Actions : onWorker[a] > 0 =>
        \A d \in Data : mode[a][d] = "R" => action[a].worker \in present[d]
=============================================================================
