------------------------ MODULE TaskAnalyser_proofs ------------------------
(***************************************************************************)
(* Theorems of TaskAnalyser, for every number of threads, tasks, data and  *)
(* executions of a task.                                                   *)
(*                                                                         *)
(* TypeInv /\ PhaseInv is an inductive invariant: the requests and the     *)
(* semaphores of the threads are where the AP expects them, and a task is  *)
(* in one place at a time. It gives type correctness. DependencyInv is     *)
(* inductive relative to it: it relates the producer of each version, which*)
(* is history, to the three places in which the runtime keeps dependencies *)
(* (the last writers, the predecessors of a task, what its executions wait *)
(* for), and says in which of them a dependency is at each phase.          *)
(***************************************************************************)
EXTENDS TaskAnalyser, TLAPS

-----------------------------------------------------------------------------
(* Threads and requests *)

\* A request about a task names a task that was submitted, and a blocking request
\* names the thread that waits for it.
QueueOK ==
    \A i \in 1 .. Len(apQueue) :
        /\ apQueue[i].type \in {"analyse", "end"} =>
              apQueue[i].task \in Tasks /\ owner[apQueue[i].task] \in Threads
        /\ apQueue[i].type = "analyse" => apQueue[i].thread \in Threads
        /\ apQueue[i].type \in Blocking =>
              apQueue[i].thread \in Threads /\ pc[apQueue[i].thread] = apQueue[i].type

NotAsking(h) == \A i \in 1 .. Len(apQueue) : apQueue[i].type \in Blocking => apQueue[i].thread # h

\* A thread has at most one blocking request in the queue, and none while its
\* semaphore is kept, in one place only.
OneRequest ==
    \A i, j \in 1 .. Len(apQueue) :
        /\ apQueue[i].type \in Blocking
        /\ apQueue[j].type \in Blocking
        /\ apQueue[i].thread = apQueue[j].thread
        => i = j

SemaphoresOK ==
    \A a \in Apps :
        semaphore[a] # None => /\ AppOf[semaphore[a]] = a
                               /\ pc[semaphore[a]] \in {"barrier", "endOfApp"}
                               /\ NotAsking(semaphore[a])

WaitedOK ==
    \A t \in Tasks : \A h \in waitedTasks[t] :
        /\ pc[h] = "wait"
        /\ NotAsking(h)
        /\ \A u \in Tasks : h \in waitedTasks[u] => u = t

\* A thread that accesses a datum has a target.
TargetsOK ==
    \A h \in Threads :
        pc[h] \in {"register", "registered", "wait"} =>
            /\ target[h] \in [data : Data, mode : Modes]
            /\ target[h].data \in MainData[h]
            /\ target[h].data \in Objects => target[h].mode = "RW"

ExecutionsOK ==
    \A t \in Tasks : running[t] <= pending[t] /\ executionCount[t] = pending[t]

TypeInv ==
    /\ TypeOK
    /\ QueueOK
    /\ OneRequest
    /\ SemaphoresOK
    /\ WaitedOK
    /\ TargetsOK
    /\ ExecutionsOK

-----------------------------------------------------------------------------
(* Phases of a task *)

\* A task is analysed once: it is in one request, or in the queue of the TD, or
\* has been submitted to the scheduler.
AnalysedOnce ==
    /\ \A i \in 1 .. Len(apQueue) :
          apQueue[i].type = "analyse" =>
              /\ apQueue[i].task < nextTask
              /\ status[apQueue[i].task] = "TO_ANALYSE"
              /\ ~ InQueue(tdQueue, apQueue[i].task)
              /\ \A j \in 1 .. Len(apQueue) :
                    apQueue[j].type = "analyse" /\ apQueue[j].task = apQueue[i].task => i = j
    /\ \A i \in 1 .. Len(tdQueue) :
          /\ tdQueue[i] < nextTask
          /\ status[tdQueue[i]] = "TO_ANALYSE"
          /\ \A j \in 1 .. Len(tdQueue) : tdQueue[j] = tdQueue[i] => i = j

StatusOK ==
    \A t \in Tasks :
        /\ status[t] = "TO_ANALYSE" => pending[t] = 0
        /\ status[t] = "TO_EXECUTE" => pending[t] > 0
        /\ status[t] # "TO_ANALYSE" => t < nextTask

EndsOK ==
    \A i \in 1 .. Len(apQueue) :
        apQueue[i].type = "end" => status[apQueue[i].task] \in {"FINISHED", "FAILED"}

OwnersOK == \A t \in Tasks : t < nextTask => owner[t] \in Threads

PhaseInv == AnalysedOnce /\ StatusOK /\ EndsOK /\ OwnersOK

-----------------------------------------------------------------------------
(* Dependencies *)

\* The analysis of the task has been done.
Known(p) == status[p] # "TO_ANALYSE" \/ InQueue(tdQueue, p)

SignaturesOK ==
    \A i \in 1 .. Len(apQueue) :
        apQueue[i].type = "analyse" =>
            \A d \in Data : signature[apQueue[i].task][d] # "none" => d \in TaskData[apQueue[i].thread]

\* The tasks of a thread that registers or waits for a datum were analysed before.
AnalysedFirst ==
    \A i \in 1 .. Len(apQueue) :
        apQueue[i].type = "analyse" =>
            /\ pc[apQueue[i].thread] \notin {"registered", "wait"}
            /\ \A j \in 1 .. Len(apQueue) :
                  /\ apQueue[j].type = "register"
                  /\ apQueue[j].thread = apQueue[i].thread
                  => i < j

\* The object that a main program has taken is not produced by any task.
TakenObjects ==
    \A h \in Threads :
        pc[h] \in {"registered", "wait"} /\ target[h].data \in Objects => producer[target[h].data] = None

\* The last writer known to the AP is the producer of the current version.
WritersOK ==
    \A d \in Data : producer[d] # None => /\ Known(producer[d])
                                          /\ writers[d] = producer[d] \/ Done(producer[d])

\* The needs of a task that waits for the TD are among its predecessors, and were
\* analysed before it.
NeedsAnalysed ==
    \A i \in 1 .. Len(tdQueue) : \A p \in needs[tdQueue[i]] :
        /\ p \in predecessors[tdQueue[i]] \/ Done(p)
        /\ status[p] # "TO_ANALYSE" \/ \E j \in 1 .. i - 1 : tdQueue[j] = p

NeedsSubmitted ==
    \A t \in Tasks :
        status[t] # "TO_ANALYSE" => \A p \in needs[t] : p \in waitsFor[t] \/ Done(p)

NothingToWaitFor == \A t \in Tasks : running[t] > 0 => waitsFor[t] = {}

DependencyInv ==
    /\ SignaturesOK
    /\ AnalysedFirst
    /\ TakenObjects
    /\ WritersOK
    /\ NeedsAnalysed
    /\ NeedsSubmitted
    /\ NothingToWaitFor
-----------------------------------------------------------------------------
(* Queues *)

\* What Append does to a queue.
LEMMA AppendFacts ==
    ASSUME NEW S, NEW s \in Seq(S), NEW x \in S
    PROVE  /\ Append(s, x) \in Seq(S)
           /\ Len(s) \in Nat
           /\ Len(Append(s, x)) = Len(s) + 1
           /\ \A i \in 1 .. Len(s) : Append(s, x)[i] = s[i] /\ s[i] \in S
           /\ Append(s, x)[Len(s) + 1] = x
  OBVIOUS

\* What Head and Tail do to a queue that is not empty.
LEMMA TailFacts ==
    ASSUME NEW S, NEW s \in Seq(S), s # << >>
    PROVE  /\ Tail(s) \in Seq(S)
           /\ Len(s) \in Nat /\ Len(s) >= 1
           /\ Len(Tail(s)) = Len(s) - 1
           /\ Head(s) = s[1] /\ Head(s) \in S
           /\ \A i \in 1 .. Len(s) - 1 : Tail(s)[i] = s[i + 1]
           /\ \A i \in 1 .. Len(s) : s[i] \in S
  OBVIOUS

\* A request is put in the queue of the AP: the others stay where they are.
LEMMA QueueAppend ==
    ASSUME TypeOK, NEW r \in Requests, apQueue' = Append(apQueue, r)
    PROVE  /\ apQueue' \in Seq(Requests)
           /\ Len(apQueue) \in Nat
           /\ Len(apQueue') = Len(apQueue) + 1
           /\ \A i \in 1 .. Len(apQueue) : apQueue'[i] = apQueue[i] /\ apQueue[i] \in Requests
           /\ apQueue'[Len(apQueue) + 1] = r
  BY AppendFacts DEF TypeOK

\* The AP takes a request: each of the others moves one place forward.
LEMMA QueueTail ==
    ASSUME TypeOK, NEW type, Takes(type), apQueue' = Tail(apQueue)
    PROVE  /\ apQueue' \in Seq(Requests)
           /\ Len(apQueue) \in Nat /\ Len(apQueue) >= 1
           /\ Len(apQueue') = Len(apQueue) - 1
           /\ Head(apQueue) = apQueue[1] /\ apQueue[1] \in Requests /\ apQueue[1].type = type
           /\ \A i \in 1 .. Len(apQueue') : /\ apQueue'[i] = apQueue[i + 1]
                                            /\ i + 1 \in 1 .. Len(apQueue)
                                            /\ apQueue[i + 1] \in Requests
  <1>1. apQueue \in Seq(Requests) /\ apQueue # << >> /\ Head(apQueue).type = type
    BY DEF TypeOK, Takes
  <1> QED BY <1>1, TailFacts

-----------------------------------------------------------------------------
(* Type correctness *)

\* The initial states.
LEMMA InitTypeInv == Init => TypeInv
  BY NoneAssumption, NumTasksAssumption, AppOfAssumption, DataAssumption
  DEF Init, TypeInv, TypeOK, QueueOK, OneRequest, SemaphoresOK, WaitedOK, TargetsOK,
      ExecutionsOK, NoTarget, Tasks, States

\* The requests stay well formed when the AP takes one, provided that it changes
\* the control state only of threads that are not asking any more.
LEMMA TailKeepsRequests ==
    ASSUME TypeInv, NEW type, Takes(type), apQueue' = Tail(apQueue), owner' = owner,
           \A g \in Threads : pc'[g] = pc[g] \/ NotAsking(g)'
    PROVE  QueueOK' /\ OneRequest'
  <1>1. QueueOK'
    BY QueueTail DEF TypeInv, QueueOK, NotAsking
  <1>2. OneRequest'
    BY QueueTail DEF TypeInv, OneRequest
  <1> QED BY <1>1, <1>2

\* Who was not asking is not asking after the AP takes a request, and neither is
\* the thread of that request.
LEMMA TailAsking ==
    ASSUME TypeInv, NEW type, Takes(type), apQueue' = Tail(apQueue)
    PROVE  /\ \A g \in Threads : NotAsking(g) => NotAsking(g)'
           /\ type \in Blocking => /\ apQueue[1].thread \in Threads
                                   /\ pc[apQueue[1].thread] = type
                                   /\ ~ NotAsking(apQueue[1].thread)
           /\ \A g \in Threads : type \in Blocking /\ g = apQueue[1].thread => NotAsking(g)'
  <1>1. \A g \in Threads : NotAsking(g) => NotAsking(g)'
    BY QueueTail DEF TypeInv, NotAsking
  <1>2. ASSUME type \in Blocking
        PROVE  /\ apQueue[1].thread \in Threads
               /\ pc[apQueue[1].thread] = type
               /\ ~ NotAsking(apQueue[1].thread)
    BY <1>2, QueueTail DEF TypeInv, QueueOK, NotAsking
  <1>3. ASSUME type \in Blocking, NEW g \in Threads, g = apQueue[1].thread
        PROVE  NotAsking(g)'
    <2> SUFFICES ASSUME NEW i \in 1 .. Len(apQueue'), apQueue'[i].type \in Blocking
                 PROVE  apQueue'[i].thread # g
      BY DEF NotAsking
    <2>1. apQueue'[i] = apQueue[i + 1] /\ i + 1 \in 1 .. Len(apQueue) /\ 1 \in 1 .. Len(apQueue)
          /\ i + 1 # 1 /\ apQueue[1].type = type
      BY QueueTail DEF TypeInv
    <2> QED BY <1>3, <2>1 DEF TypeInv, OneRequest
  <1> QED BY <1>1, <1>2, <1>3

\* ExecuteTask keeps the type invariant.
LEMMA ExecuteTaskTypeInv ==
    ASSUME TypeInv, NEW h \in Threads, NEW sig \in Signatures, ExecuteTask(h, sig)
    PROVE  TypeInv'
  <1> DEFINE r == Request("analyse", nextTask, h)
  <1>1. r \in Requests /\ r.type = "analyse" /\ r.task = nextTask /\ r.thread = h
    BY DEF ExecuteTask, Request, Requests
  <1>2. apQueue' = Append(apQueue, r)
    BY DEF ExecuteTask
  <1> HIDE DEF r
  <1>3. TypeOK'
    <2>1. nextTask' \in 1 .. NumTasks + 1
      BY NumTasksAssumption DEF TypeInv, TypeOK, ExecuteTask, Tasks
    <2>2. signature' \in [Tasks -> [Data -> Modes \cup {"none"}]] /\ owner' \in [Tasks -> Threads \cup {None}]
      BY DataAssumption DEF TypeInv, TypeOK, ExecuteTask
    <2>3. apQueue' \in Seq(Requests)
      BY <1>1, <1>2, QueueAppend DEF TypeInv
    <2> QED
      BY <2>1, <2>2, <2>3 DEF TypeInv, TypeOK, ExecuteTask, stateVars, execVars, countVars, historyVars
  <1>4. QueueOK'
    <2>1. /\ pc' = pc
          /\ nextTask \in Tasks /\ owner'[nextTask] = h
          /\ \A t \in Tasks : owner[t] \in Threads => owner'[t] \in Threads
      BY DEF TypeInv, TypeOK, ExecuteTask
    <2> QED BY <1>1, <1>2, <2>1, QueueAppend DEF TypeInv, QueueOK, Blocking
  <1>5. OneRequest' /\ \A g \in Threads : NotAsking(g) => NotAsking(g)'
    BY <1>1, <1>2, QueueAppend DEF TypeInv, OneRequest, NotAsking, Blocking
  <1>6. SemaphoresOK' /\ WaitedOK' /\ TargetsOK' /\ ExecutionsOK'
    BY <1>5 DEF TypeInv, TypeOK, SemaphoresOK, WaitedOK, TargetsOK, ExecutionsOK,
                ExecuteTask, stateVars, execVars, countVars
  <1> QED BY <1>3, <1>4, <1>5, <1>6 DEF TypeInv

\* A blocking request keeps the type invariant, if the thread was not blocked and
\* has a target when the request is about a datum.
LEMMA AskTypeInv ==
    ASSUME TypeInv, NEW h \in Threads, NEW type \in Blocking, Ask(h, type),
           pc[h] \in {"running", "registered"},
           target' \in [Threads -> [data : Data, mode : Modes] \cup {NoTarget}],
           TargetsOK'
    PROVE  TypeInv'
  <1> DEFINE r == Request(type, None, h)
  <1>1. r \in Requests /\ r.type = type /\ r.thread = h /\ r.type \notin {"analyse", "end"}
    BY DEF Request, Requests, Blocking
  <1>2. apQueue' = Append(apQueue, r)
    BY DEF Ask
  <1> HIDE DEF r
  <1>3. TypeOK'
    <2>1. apQueue' \in Seq(Requests) /\ pc' \in [Threads -> {"running", "registered", "ended"} \cup Blocking]
      BY <1>1, <1>2, QueueAppend DEF TypeInv, TypeOK, Ask
    <2> QED
      BY <2>1 DEF TypeInv, TypeOK, Ask, taskVars, stateVars, execVars, countVars, historyVars
  <1>4. NotAsking(h)
    BY DEF TypeInv, QueueOK, NotAsking, Blocking
  <1>5. pc' = [pc EXCEPT ![h] = type] /\ owner' = owner /\ pc'[h] = type
    BY DEF TypeInv, TypeOK, Ask, taskVars
  <1>6. QueueOK'
    BY <1>1, <1>2, <1>4, <1>5, QueueAppend DEF TypeInv, TypeOK, QueueOK, NotAsking
  <1>7. OneRequest' /\ \A g \in Threads \ {h} : NotAsking(g) => NotAsking(g)'
    BY <1>1, <1>2, <1>4, QueueAppend DEF TypeInv, OneRequest, NotAsking
  <1>8. SemaphoresOK' /\ WaitedOK' /\ ExecutionsOK'
    BY <1>5, <1>7 DEF TypeInv, TypeOK, SemaphoresOK, WaitedOK, ExecutionsOK,
                Ask, stateVars, execVars, countVars
  <1> QED BY <1>3, <1>6, <1>7, <1>8 DEF TypeInv

\* The barrier of a thread.
LEMMA BarrierTypeInv ==
    ASSUME TypeInv, NEW h \in Threads, Barrier(h) \/ NoMoreTasks(h)
    PROVE  TypeInv'
  <1>1. PICK type \in {"barrier", "endOfApp"} : pc[h] = "running" /\ Ask(h, type) /\ target' = target
    BY DEF Barrier, NoMoreTasks
  <1>2. TargetsOK'
    BY <1>1 DEF Ask, TypeInv, TypeOK, TargetsOK
  <1> QED
    BY <1>1, <1>2, AskTypeInv DEF TypeInv, TypeOK, Blocking

\* The first request of a main access.
LEMMA MainAccessTypeInv ==
    ASSUME TypeInv, NEW h \in Threads, NEW d \in Data, NEW m \in Modes, MainAccess(h, d, m)
    PROVE  TypeInv'
  <1>1. /\ target' = [target EXCEPT ![h] = [data |-> d, mode |-> m]]
        /\ pc' = [pc EXCEPT ![h] = "register"]
        /\ pc[h] = "running" /\ Ask(h, "register")
        /\ d \in MainData[h] /\ (d \in Objects => m = "RW")
    BY DEF MainAccess, Ask
  <1>2. target' \in [Threads -> [data : Data, mode : Modes] \cup {NoTarget}]
    BY <1>1 DEF TypeInv, TypeOK
  <1>3. TargetsOK'
    BY <1>1 DEF TypeInv, TypeOK, TargetsOK
  <1> QED
    BY <1>1, <1>2, <1>3, AskTypeInv DEF Blocking

\* What Return leaves in the threads.
LEMMA ReturnFacts ==
    ASSUME TypeInv, NEW S, Return(S)
    PROVE  /\ pc' \in [Threads -> {"running", "registered", "ended"} \cup Blocking]
           /\ target' \in [Threads -> [data : Data, mode : Modes] \cup {NoTarget}]
           /\ mainNeeds' \in [Threads -> SUBSET Tasks]
           /\ \A g \in Threads : IF g \in S THEN pc'[g] \in {"running", "ended"}
                                 ELSE pc'[g] = pc[g] /\ target'[g] = target[g]
           /\ TargetsOK'
  <1>1. \A g \in Threads : IF g \in S THEN pc'[g] \in {"running", "ended"}
                           ELSE pc'[g] = pc[g] /\ target'[g] = target[g]
    BY DEF Return
  <1>2. /\ pc' \in [Threads -> {"running", "registered", "ended"} \cup Blocking]
        /\ target' \in [Threads -> [data : Data, mode : Modes] \cup {NoTarget}]
        /\ mainNeeds' \in [Threads -> SUBSET Tasks]
    BY DEF Return, TypeInv, TypeOK
  <1>3. TargetsOK'
    BY <1>1 DEF TypeInv, TargetsOK
  <1> QED BY <1>1, <1>2, <1>3

\* The semaphores that are still kept after a Return are of threads that it has
\* not released.
LEMMA ReturnKeepsWaiters ==
    ASSUME TypeInv, NEW S, Return(S),
           \A g \in Threads : NotAsking(g) => NotAsking(g)',
           \A a \in Apps : semaphore'[a] # None => semaphore'[a] = semaphore[a] /\ semaphore[a] \notin S,
           \A t \in Tasks : waitedTasks'[t] \subseteq waitedTasks[t] /\ waitedTasks'[t] \cap S = {}
    PROVE  SemaphoresOK' /\ WaitedOK'
  <1>1. SemaphoresOK'
    BY ReturnFacts DEF TypeInv, TypeOK, SemaphoresOK
  <1>2. WaitedOK'
    BY ReturnFacts DEF TypeInv, TypeOK, WaitedOK
  <1> QED BY <1>1, <1>2

\* The second request of a main access.
LEMMA WaitForTaskTypeInv ==
    ASSUME TypeInv, NEW h \in Threads, WaitForTask(h)
    PROVE  TypeInv'
  <1>1. CASE Reads(target[h].mode)
    <2>1. pc[h] = "registered" /\ Ask(h, "wait") /\ target' = target
      BY <1>1 DEF WaitForTask
    <2>2. TargetsOK'
      BY <2>1 DEF Ask, TypeInv, TypeOK, TargetsOK
    <2> QED
      BY <2>1, <2>2, AskTypeInv DEF TypeInv, TypeOK, Blocking
  <1>2. CASE ~ Reads(target[h].mode)
    <2>1. /\ pc[h] = "registered" /\ Return({h})
          /\ UNCHANGED <<nextTask, apQueue, tdQueue, taskVars, stateVars, execVars,
                         writers, countVars, waitedTasks, halt, producer, needs, ended>>
      BY <1>2 DEF WaitForTask
    <2>2. NotAsking(h)
      BY <2>1 DEF TypeInv, QueueOK, NotAsking, Blocking
    <2>3. TypeOK'
      BY <2>1, ReturnFacts DEF TypeInv, TypeOK, taskVars, stateVars, execVars, countVars
    <2>4. QueueOK' /\ OneRequest' /\ ExecutionsOK' /\ \A g \in Threads : NotAsking(g) => NotAsking(g)'
      BY <2>1, <2>2, ReturnFacts
      DEF TypeInv, QueueOK, OneRequest, ExecutionsOK, NotAsking, taskVars, stateVars, execVars
    <2>5. SemaphoresOK' /\ WaitedOK'
      <3>1. \A a \in Apps : semaphore'[a] # None => semaphore'[a] = semaphore[a] /\ semaphore[a] \notin {h}
        BY <2>1 DEF TypeInv, SemaphoresOK, countVars
      <3>2. \A t \in Tasks : waitedTasks'[t] \subseteq waitedTasks[t] /\ waitedTasks'[t] \cap {h} = {}
        BY <2>1 DEF TypeInv, WaitedOK
      <3> QED BY <2>1, <2>4, <3>1, <3>2, ReturnKeepsWaiters
    <2> QED BY <2>1, <2>3, <2>4, <2>5, ReturnFacts DEF TypeInv
  <1> QED BY <1>1, <1>2

\* ProcessTask keeps the type invariant.
LEMMA ProcessTaskTypeInv ==
    ASSUME TypeInv, ProcessTask
    PROVE  TypeInv'
  <1> DEFINE t == apQueue[1].task
             a == AppOf[owner[t]]
  <1>1. Takes("analyse") /\ apQueue' = Tail(apQueue)
    BY DEF ProcessTask
  <1>2. Head(apQueue) = apQueue[1] /\ apQueue[1].type = "analyse" /\ t \in Tasks /\ a \in Apps
    BY <1>1, QueueTail, AppOfAssumption DEF TypeInv, QueueOK
  <1>3. /\ taskCount' = [taskCount EXCEPT ![a] = @ + 1]
        /\ counted' = counted \cup {a}
        /\ predecessors' = [predecessors EXCEPT ![t] = LastWriters(t)]
        /\ writers' = [d \in Data |-> IF d \in WrittenData(t) THEN t ELSE writers[d]]
        /\ needs' = [needs EXCEPT ![t] = {producer[d] : d \in ReadData(t)} \ {None}]
        /\ producer' = [d \in Data |-> IF d \in WrittenData(t) THEN t ELSE producer[d]]
        /\ tdQueue' = Append(tdQueue, t)
        /\ UNCHANGED <<threadVars, owner, signature, stateVars, execVars, semaphore,
                       barrierFlags, waitedTasks, halt, mainNeeds, ended>>
    BY <1>2 DEF ProcessTask
  <1> HIDE DEF t, a
  <1>4. TypeOK'
    <2>1. tdQueue' \in Seq(Tasks) /\ apQueue' \in Seq(Requests)
      BY <1>1, <1>2, <1>3, AppendFacts, QueueTail DEF TypeInv, TypeOK
    <2>2. taskCount' \in [Apps -> Int] /\ counted' \in SUBSET Apps
      BY <1>2, <1>3 DEF TypeInv, TypeOK
    <2>3. writers' \in [Data -> Tasks \cup {None}] /\ producer' \in [Data -> Tasks \cup {None}]
      BY <1>2, <1>3 DEF TypeInv, TypeOK
    <2>4. predecessors' \in [Tasks -> SUBSET Tasks] /\ needs' \in [Tasks -> SUBSET Tasks]
      <3>1. LastWriters(t) \in SUBSET Tasks /\ {producer[d] : d \in ReadData(t)} \ {None} \in SUBSET Tasks
        BY DEF LastWriters, ReadData, TypeInv, TypeOK
      <3> QED BY <1>3, <3>1 DEF TypeInv, TypeOK
    <2> QED
      BY <1>3, <2>1, <2>2, <2>3, <2>4 DEF TypeInv, TypeOK, threadVars, stateVars, execVars
  <1>5. /\ pc' = pc /\ target' = target /\ owner' = owner /\ semaphore' = semaphore
        /\ waitedTasks' = waitedTasks /\ running' = running /\ pending' = pending
        /\ executionCount' = executionCount
    BY <1>3 DEF threadVars, stateVars, execVars
  <1>6. QueueOK' /\ OneRequest' /\ \A g \in Threads : NotAsking(g) => NotAsking(g)'
    BY <1>1, <1>5, TailKeepsRequests, TailAsking
  <1>7. SemaphoresOK' /\ WaitedOK'
    BY <1>5, <1>6 DEF TypeInv, TypeOK, SemaphoresOK, WaitedOK
  <1>8. TargetsOK' /\ ExecutionsOK'
    BY <1>5 DEF TypeInv, TargetsOK, ExecutionsOK
  <1> QED BY <1>4, <1>6, <1>7, <1>8 DEF TypeInv

\* EndTask keeps the type invariant: the threads that it releases are those whose
\* semaphores it forgets.
LEMMA EndTaskTypeInv ==
    ASSUME TypeInv, EndTask
    PROVE  TypeInv'
  <1> DEFINE t == apQueue[1].task
             a == AppOf[owner[t]]
  <1>1. Takes("end") /\ apQueue' = Tail(apQueue)
    BY DEF EndTask
  <1>2. Head(apQueue) = apQueue[1] /\ apQueue[1].type = "end" /\ t \in Tasks /\ a \in Apps
    BY <1>1, QueueTail, AppOfAssumption DEF TypeInv, QueueOK
  <1>3. /\ owner' = owner /\ executionCount' = executionCount /\ pending' = pending /\ running' = running
        /\ UNCHANGED <<nextTask, tdQueue, signature, stateVars, execVars, writers, producer, needs>>
    BY DEF EndTask, stateVars, execVars
  <1>4. apQueue' \in Seq(Requests) /\ \A g \in Threads : NotAsking(g) => NotAsking(g)'
    BY <1>1, QueueTail, TailAsking DEF TypeInv
  <1>5. ExecutionsOK'
    BY <1>3 DEF TypeInv, ExecutionsOK
  <1>6. CASE UNCHANGED <<callVars, predecessors, countVars, waitedTasks, ended>> /\ halt' \in {halt, "requested"}
    <2>1. TypeOK'
      BY <1>3, <1>4, <1>6 DEF TypeInv, TypeOK, callVars, countVars, stateVars, execVars
    <2>2. QueueOK' /\ OneRequest'
      BY <1>1, <1>3, <1>6, TailKeepsRequests DEF callVars
    <2>3. SemaphoresOK' /\ WaitedOK' /\ TargetsOK'
      BY <1>4, <1>6 DEF TypeInv, TypeOK, SemaphoresOK, WaitedOK, TargetsOK, callVars, countVars
    <2> QED BY <1>5, <2>1, <2>2, <2>3 DEF TypeInv
  <1>7. CASE TreatEnd(t, a)
    <2> DEFINE S == Released(t, a)
    <2>1. Return(S)
      BY <1>7 DEF TreatEnd
    <2>2. TypeOK'
      <3> HIDE DEF t, a
      <3>1. taskCount' \in [Apps -> Int] /\ counted' \in SUBSET Apps /\ barrierFlags' \in SUBSET Apps
        BY <1>2, <1>7 DEF TypeInv, TypeOK, TreatEnd
      <3>2. semaphore' \in [Apps -> Threads \cup {None}] /\ waitedTasks' \in [Tasks -> SUBSET Threads]
        BY <1>2, <1>7 DEF TypeInv, TypeOK, TreatEnd
      <3>3. predecessors' \in [Tasks -> SUBSET Tasks]
        BY <1>2, <1>7 DEF TypeInv, TypeOK, TreatEnd
      <3>4. ended' \in [Tasks -> Nat] /\ halt' = halt
        BY <1>2, <1>7 DEF TypeInv, TypeOK, TreatEnd
      <3> QED
        BY <1>3, <1>4, <2>1, <3>1, <3>2, <3>3, <3>4, ReturnFacts DEF TypeInv, TypeOK, stateVars, execVars
    <2>3. \A g \in S : g \in Threads /\ NotAsking(g)
      BY <1>2 DEF Released, TypeInv, TypeOK, SemaphoresOK, WaitedOK
    <2>4. QueueOK' /\ OneRequest'
      <3>1. \A g \in Threads : pc'[g] = pc[g] \/ NotAsking(g)'
        BY <1>4, <2>1, <2>3, ReturnFacts
      <3> QED BY <1>1, <1>3, <3>1, TailKeepsRequests
    <2>5. \A b \in Apps : semaphore'[b] # None => semaphore'[b] = semaphore[b] /\ semaphore[b] \notin S
      <3> SUFFICES ASSUME NEW b \in Apps, semaphore'[b] # None
                   PROVE  semaphore'[b] = semaphore[b] /\ semaphore[b] \notin S
        OBVIOUS
      <3>1. semaphore'[b] = semaphore[b] /\ ~ (taskCount[a] = 1 /\ b = a)
        BY <1>2, <1>7 DEF TreatEnd, TypeInv, TypeOK
      <3>2. semaphore[b] \notin waitedTasks[t]
        BY <1>2, <3>1 DEF TypeInv, SemaphoresOK, WaitedOK
      <3>3. taskCount[a] = 1 => semaphore[b] # semaphore[a]
        BY <1>2, <3>1 DEF TypeInv, SemaphoresOK
      <3> QED BY <3>1, <3>2, <3>3 DEF Released
    <2>6. \A u \in Tasks : waitedTasks'[u] \subseteq waitedTasks[u] /\ waitedTasks'[u] \cap S = {}
      <3> SUFFICES ASSUME NEW u \in Tasks, NEW g \in waitedTasks'[u]
                   PROVE  g \in waitedTasks[u] /\ g \notin S
        OBVIOUS
      <3>1. g \in waitedTasks[u] /\ u # t
        BY <1>2, <1>7 DEF TreatEnd, TypeInv, TypeOK
      <3>2. g \notin waitedTasks[t]
        BY <1>2, <3>1 DEF TypeInv, WaitedOK
      <3>3. semaphore[a] # None => g # semaphore[a]
        BY <1>2, <3>1 DEF TypeInv, SemaphoresOK, WaitedOK
      <3> QED BY <3>1, <3>2, <3>3 DEF Released
    <2>7. SemaphoresOK' /\ WaitedOK' /\ TargetsOK'
      <3> HIDE DEF S
      <3> QED BY <1>4, <2>1, <2>5, <2>6, ReturnKeepsWaiters, ReturnFacts
    <2> QED BY <1>5, <2>2, <2>4, <2>7 DEF TypeInv
  <1>8. \/ UNCHANGED <<callVars, predecessors, countVars, waitedTasks, ended>> /\ halt' \in {halt, "requested"}
        \/ TreatEnd(t, a)
    BY <1>2 DEF EndTask
  <1> QED BY <1>6, <1>7, <1>8

\* Synchronise keeps the type invariant: the semaphore that it keeps is of the
\* thread whose request it takes.
LEMMA SynchroniseTypeInv ==
    ASSUME TypeInv, NEW type \in {"barrier", "endOfApp"}, Synchronise(type)
    PROVE  TypeInv'
  <1> DEFINE h == apQueue[1].thread
             a == AppOf[h]
  <1>1. Takes(type) /\ apQueue' = Tail(apQueue)
    BY DEF Synchronise
  <1>2. Head(apQueue) = apQueue[1] /\ apQueue' \in Seq(Requests)
    BY <1>1, QueueTail DEF TypeInv
  <1>3. /\ h \in Threads /\ a \in Apps /\ pc[h] = type
        /\ ~ NotAsking(h)
    BY <1>1, TailAsking, AppOfAssumption DEF Blocking
  <1>4. \A g \in Threads : (NotAsking(g) \/ g = h) => NotAsking(g)'
    BY <1>1, TailAsking DEF Blocking
  <1>5. /\ owner' = owner /\ executionCount' = executionCount /\ pending' = pending /\ running' = running
        /\ waitedTasks' = waitedTasks /\ taskCount' = taskCount
        /\ UNCHANGED <<nextTask, tdQueue, taskVars, stateVars, execVars, writers,
                       halt, producer, needs, ended>>
    BY DEF Synchronise, taskVars, stateVars, execVars
  <1>6. \/ /\ Return({h})
           /\ counted' = IF type = "endOfApp" THEN counted \ {a} ELSE counted
           /\ semaphore' = semaphore /\ barrierFlags' = barrierFlags
        \/ /\ semaphore' = [semaphore EXCEPT ![a] = h]
           /\ barrierFlags' = IF type = "barrier" THEN barrierFlags \cup {a} ELSE barrierFlags
           /\ pc' = pc /\ target' = target /\ mainNeeds' = mainNeeds /\ counted' = counted
    BY <1>2 DEF Synchronise, callVars
  <1>7. ExecutionsOK'
    BY <1>5 DEF TypeInv, ExecutionsOK
  <1>8. h \notin {semaphore[b] : b \in Apps} /\ \A u \in Tasks : h \notin waitedTasks[u]
    BY <1>3, NoneAssumption DEF TypeInv, SemaphoresOK, WaitedOK
  <1> HIDE DEF h, a
  <1>9. CASE /\ Return({h})
             /\ counted' = IF type = "endOfApp" THEN counted \ {a} ELSE counted
             /\ semaphore' = semaphore /\ barrierFlags' = barrierFlags
    <2>1. TypeOK'
      BY <1>2, <1>5, <1>9, ReturnFacts DEF TypeInv, TypeOK, taskVars, stateVars, execVars
    <2>2. QueueOK' /\ OneRequest'
      <3>1. \A g \in Threads : pc'[g] = pc[g] \/ NotAsking(g)'
        BY <1>4, <1>9, ReturnFacts
      <3> QED BY <1>1, <1>5, <3>1, TailKeepsRequests
    <2>3. SemaphoresOK' /\ WaitedOK' /\ TargetsOK'
      <3>1. \A b \in Apps : semaphore'[b] # None => semaphore'[b] = semaphore[b] /\ semaphore[b] \notin {h}
        BY <1>8, <1>9
      <3>2. \A u \in Tasks : waitedTasks'[u] \subseteq waitedTasks[u] /\ waitedTasks'[u] \cap {h} = {}
        BY <1>5, <1>8
      <3> QED BY <1>4, <1>9, <3>1, <3>2, ReturnKeepsWaiters, ReturnFacts
    <2> QED BY <1>7, <2>1, <2>2, <2>3 DEF TypeInv
  <1>10. CASE /\ semaphore' = [semaphore EXCEPT ![a] = h]
              /\ barrierFlags' = IF type = "barrier" THEN barrierFlags \cup {a} ELSE barrierFlags
              /\ pc' = pc /\ target' = target /\ mainNeeds' = mainNeeds /\ counted' = counted
    <2>1. TypeOK'
      BY <1>2, <1>3, <1>5, <1>10 DEF TypeInv, TypeOK, taskVars, stateVars, execVars
    <2>2. QueueOK' /\ OneRequest'
      BY <1>1, <1>5, <1>10, TailKeepsRequests
    <2>3. SemaphoresOK'
      BY <1>3, <1>4, <1>10 DEF TypeInv, TypeOK, SemaphoresOK, a
    <2>4. WaitedOK' /\ TargetsOK'
      BY <1>4, <1>5, <1>10 DEF TypeInv, TypeOK, WaitedOK, TargetsOK
    <2> QED BY <1>7, <2>1, <2>2, <2>3, <2>4 DEF TypeInv
  <1> QED BY <1>6, <1>9, <1>10

\* RegisterDataAccess keeps the type invariant.
LEMMA RegisterDataAccessTypeInv ==
    ASSUME TypeInv, RegisterDataAccess
    PROVE  TypeInv'
  <1> DEFINE h == apQueue[1].thread
             d == target[h].data
  <1>1. Takes("register") /\ apQueue' = Tail(apQueue)
    BY DEF RegisterDataAccess
  <1>2. Head(apQueue) = apQueue[1] /\ apQueue' \in Seq(Requests)
    BY <1>1, QueueTail DEF TypeInv
  <1>3. h \in Threads /\ pc[h] = "register" /\ ~ NotAsking(h)
    BY <1>1, TailAsking DEF Blocking
  <1>4. \A g \in Threads : (NotAsking(g) \/ g = h) => NotAsking(g)'
    BY <1>1, TailAsking DEF Blocking
  <1>5. d \in Data
    BY <1>3 DEF TypeInv, TargetsOK
  <1>6. /\ pc' = [pc EXCEPT ![h] = "registered"]
        /\ mainNeeds' = [mainNeeds EXCEPT
                            ![h] = IF Reads(target[h].mode) THEN {producer[d]} \ {None} ELSE {}]
        /\ producer' = IF Writes(target[h].mode)
                       THEN [producer EXCEPT ![d] = None] ELSE producer
        /\ owner' = owner /\ executionCount' = executionCount /\ pending' = pending /\ running' = running
        /\ semaphore' = semaphore /\ waitedTasks' = waitedTasks /\ target' = target
        /\ UNCHANGED <<nextTask, tdQueue, taskVars, stateVars, execVars, writers,
                       countVars, halt, needs, ended>>
    BY <1>2 DEF RegisterDataAccess, taskVars, stateVars, execVars, countVars
  <1> HIDE DEF h, d
  <1>7. TypeOK'
    <2>1. pc' \in [Threads -> {"running", "registered", "ended"} \cup Blocking]
      BY <1>6 DEF TypeInv, TypeOK
    <2>2. mainNeeds' \in [Threads -> SUBSET Tasks] /\ producer' \in [Data -> Tasks \cup {None}]
      BY <1>5, <1>6 DEF TypeInv, TypeOK
    <2> QED
      BY <1>2, <1>6, <2>1, <2>2 DEF TypeInv, TypeOK, taskVars, stateVars, execVars, countVars
  <1>8. \A g \in Threads : g # h => pc'[g] = pc[g]
    BY <1>6 DEF TypeInv, TypeOK
  <1>9. QueueOK' /\ OneRequest'
    BY <1>1, <1>4, <1>6, <1>8, TailKeepsRequests
  <1>10. SemaphoresOK' /\ WaitedOK'
    BY <1>3, <1>4, <1>6, <1>8 DEF TypeInv, TypeOK, SemaphoresOK, WaitedOK
  <1>11. TargetsOK' /\ ExecutionsOK'
    BY <1>3, <1>6, <1>8 DEF TypeInv, TargetsOK, ExecutionsOK
  <1> QED BY <1>7, <1>9, <1>10, <1>11 DEF TypeInv

\* FindWaitedTask keeps the type invariant: the thread is released, or its
\* semaphore is kept for one task.
LEMMA FindWaitedTaskTypeInv ==
    ASSUME TypeInv, FindWaitedTask
    PROVE  TypeInv'
  <1> DEFINE h == apQueue[1].thread
             d == target[h].data
             w == writers[d]
  <1>1. Takes("wait") /\ apQueue' = Tail(apQueue)
    BY DEF FindWaitedTask
  <1>2. Head(apQueue) = apQueue[1] /\ apQueue' \in Seq(Requests)
    BY <1>1, QueueTail DEF TypeInv
  <1>3. h \in Threads /\ pc[h] = "wait" /\ ~ NotAsking(h)
    BY <1>1, TailAsking DEF Blocking
  <1>4. \A g \in Threads : (NotAsking(g) \/ g = h) => NotAsking(g)'
    BY <1>1, TailAsking DEF Blocking
  <1>5. /\ owner' = owner /\ executionCount' = executionCount /\ pending' = pending /\ running' = running
        /\ semaphore' = semaphore
        /\ UNCHANGED <<nextTask, tdQueue, taskVars, stateVars, execVars, countVars,
                       halt, producer, needs, ended>>
    BY DEF FindWaitedTask, taskVars, stateVars, execVars, countVars
  <1>6. \/ Return({h}) /\ waitedTasks' = waitedTasks
        \/ /\ w \in Tasks /\ waitedTasks' = [waitedTasks EXCEPT ![w] = @ \cup {h}]
           /\ pc' = pc /\ target' = target /\ mainNeeds' = mainNeeds
    <2>1. w \in Tasks \cup {None}
      BY <1>3 DEF TypeInv, TypeOK, TargetsOK
    <2> QED BY <1>2, <2>1 DEF FindWaitedTask, callVars
  <1>7. writers' \in [Data -> Tasks \cup {None}]
    BY DEF FindWaitedTask, TypeInv, TypeOK
  <1>8. h \notin {semaphore[b] : b \in Apps} /\ \A u \in Tasks : h \notin waitedTasks[u]
    BY <1>3, NoneAssumption DEF TypeInv, SemaphoresOK, WaitedOK
  <1>9. ExecutionsOK'
    BY <1>5 DEF TypeInv, ExecutionsOK
  <1> HIDE DEF h, d, w
  <1>10. CASE Return({h}) /\ waitedTasks' = waitedTasks
    <2>1. TypeOK'
      BY <1>2, <1>5, <1>7, <1>10, ReturnFacts DEF TypeInv, TypeOK, taskVars, stateVars, execVars, countVars
    <2>2. QueueOK' /\ OneRequest'
      <3>1. \A g \in Threads : pc'[g] = pc[g] \/ NotAsking(g)'
        BY <1>4, <1>10, ReturnFacts
      <3> QED BY <1>1, <1>5, <3>1, TailKeepsRequests
    <2>3. SemaphoresOK' /\ WaitedOK' /\ TargetsOK'
      <3>1. \A b \in Apps : semaphore'[b] # None => semaphore'[b] = semaphore[b] /\ semaphore[b] \notin {h}
        BY <1>5, <1>8
      <3>2. \A u \in Tasks : waitedTasks'[u] \subseteq waitedTasks[u] /\ waitedTasks'[u] \cap {h} = {}
        BY <1>8, <1>10
      <3> QED BY <1>4, <1>10, <3>1, <3>2, ReturnKeepsWaiters, ReturnFacts
    <2> QED BY <1>9, <2>1, <2>2, <2>3 DEF TypeInv
  <1>11. CASE /\ w \in Tasks /\ waitedTasks' = [waitedTasks EXCEPT ![w] = @ \cup {h}]
              /\ pc' = pc /\ target' = target /\ mainNeeds' = mainNeeds
    <2>1. TypeOK'
      <3>1. waitedTasks' \in [Tasks -> SUBSET Threads]
        BY <1>3, <1>11 DEF TypeInv, TypeOK
      <3> QED
        BY <1>2, <1>5, <1>7, <1>11, <3>1 DEF TypeInv, TypeOK, taskVars, stateVars, execVars, countVars
    <2>2. QueueOK' /\ OneRequest'
      BY <1>1, <1>5, <1>11, TailKeepsRequests
    <2>3. \A u \in Tasks : waitedTasks'[u] = IF u = w THEN waitedTasks[u] \cup {h} ELSE waitedTasks[u]
      BY <1>11 DEF TypeInv, TypeOK
    <2>4. WaitedOK'
      BY <1>3, <1>4, <1>8, <1>11, <2>3 DEF TypeInv, TypeOK, WaitedOK
    <2>5. SemaphoresOK' /\ TargetsOK'
      BY <1>4, <1>5, <1>11 DEF TypeInv, TypeOK, SemaphoresOK, TargetsOK
    <2> QED BY <1>9, <2>1, <2>2, <2>4, <2>5 DEF TypeInv
  <1> QED BY <1>6, <1>10, <1>11

\* The steps of the TD that leave the requests alone keep the type invariant: a
\* task that is submitted had no executions.
LEMMA SubmitTypeInv ==
    ASSUME TypeInv, PhaseInv, SubmitExecutions \/ \E t \in Tasks : StartExecution(t)
    PROVE  TypeInv'
  <1>1. /\ pc' = pc /\ target' = target /\ apQueue' = apQueue /\ owner' = owner
        /\ semaphore' = semaphore /\ waitedTasks' = waitedTasks
        /\ UNCHANGED <<nextTask, signature, predecessors, failed, writers, countVars, halt, historyVars, ended>>
    BY DEF SubmitExecutions, StartExecution, threadVars, taskVars, countVars
  <1>2. /\ tdQueue' \in Seq(Tasks) /\ status' \in [Tasks -> States] /\ executionCount' \in [Tasks -> Nat]
        /\ pending' \in [Tasks -> Nat] /\ running' \in [Tasks -> Nat]
        /\ waitsFor' \in [Tasks -> SUBSET Tasks]
        /\ ExecutionsOK'
    <2>1. CASE SubmitExecutions
      <3> DEFINE t == Head(tdQueue)
      <3>0. tdQueue \in Seq(Tasks) /\ tdQueue # << >> /\ tdQueue' = Tail(tdQueue)
        BY <2>1 DEF SubmitExecutions, TypeInv, TypeOK
      <3>1. t \in Tasks /\ t = tdQueue[1] /\ 1 \in 1 .. Len(tdQueue) /\ tdQueue' \in Seq(Tasks)
            /\ Executions[t] \in Nat /\ Executions[t] > 0
        BY <3>0, TailFacts, ExecutionsAssumption
      <3>2. /\ status' = [status EXCEPT ![t] = "TO_EXECUTE"]
            /\ executionCount' = [executionCount EXCEPT ![t] = Executions[t]]
            /\ pending' = [pending EXCEPT ![t] = Executions[t]]
            /\ waitsFor' = [waitsFor EXCEPT ![t] = {p \in predecessors[t] : pending[p] > 0}]
            /\ running' = running
        BY <2>1 DEF SubmitExecutions
      <3> HIDE DEF t
      <3>3. status' \in [Tasks -> States] /\ running' \in [Tasks -> Nat]
        BY <3>2 DEF TypeInv, TypeOK, States
      <3>4. executionCount' \in [Tasks -> Nat] /\ pending' \in [Tasks -> Nat]
        BY <3>1, <3>2 DEF TypeInv, TypeOK
      <3>5. waitsFor' \in [Tasks -> SUBSET Tasks]
        BY <3>1, <3>2 DEF TypeInv, TypeOK
      <3>6. running[t] = 0
        BY <3>1 DEF PhaseInv, AnalysedOnce, StatusOK, TypeInv, TypeOK, ExecutionsOK
      <3>7. ExecutionsOK'
        BY <3>1, <3>2, <3>6 DEF TypeInv, TypeOK, ExecutionsOK
      <3> QED BY <3>1, <3>3, <3>4, <3>5, <3>7
    <2>2. ASSUME NEW t \in Tasks, StartExecution(t)
          PROVE  /\ tdQueue' \in Seq(Tasks) /\ status' \in [Tasks -> States] /\ executionCount' \in [Tasks -> Nat]
                 /\ pending' \in [Tasks -> Nat] /\ running' \in [Tasks -> Nat]
                 /\ waitsFor' \in [Tasks -> SUBSET Tasks]
                 /\ ExecutionsOK'
      <3>1. /\ running' = [running EXCEPT ![t] = @ + 1] /\ running[t] < pending[t]
            /\ UNCHANGED <<tdQueue, status, executionCount, pending, waitsFor>>
        BY <2>2 DEF StartExecution, stateVars
      <3>2. ExecutionsOK'
        BY <3>1 DEF TypeInv, TypeOK, ExecutionsOK
      <3> QED BY <3>1, <3>2 DEF TypeInv, TypeOK
    <2> QED BY <2>1, <2>2
  <1>3. TypeOK'
    BY <1>1, <1>2 DEF TypeInv, TypeOK, countVars, historyVars
  <1>4. QueueOK' /\ OneRequest' /\ SemaphoresOK' /\ WaitedOK' /\ TargetsOK'
    BY <1>1 DEF TypeInv, QueueOK, OneRequest, SemaphoresOK, WaitedOK, TargetsOK, NotAsking
  <1> QED BY <1>2, <1>3, <1>4 DEF TypeInv

\* The end of an execution keeps the type invariant.
LEMMA EndExecutionTypeInv ==
    ASSUME TypeInv, NEW t \in Tasks, CompleteExecution(t) \/ FailExecution(t),
           owner[t] \in Threads
    PROVE  TypeInv'
  <1> DEFINE r == Request("end", t, None)
  <1>1. r \in Requests /\ r.type = "end" /\ r.task = t
    BY DEF Request, Requests
  <1>2. PICK result \in {"FINISHED", "FAILED"} : EndExecution(t, result)
    BY DEF CompleteExecution, FailExecution
  <1>3. /\ apQueue' = Append(apQueue, r)
        /\ running[t] > 0
        /\ running' = [running EXCEPT ![t] = @ - 1]
        /\ pending' = [pending EXCEPT ![t] = @ - 1]
        /\ executionCount' = [executionCount EXCEPT ![t] = @ - 1]
        /\ status' = [status EXCEPT ![t] = result]
        /\ UNCHANGED <<threadVars, tdQueue, taskVars, writers, countVars, waitedTasks, halt,
                   historyVars, ended>>
    BY <1>2 DEF EndExecution
  <1>4. waitsFor' \in [Tasks -> SUBSET Tasks] /\ failed' \in SUBSET Tasks
    BY DEF CompleteExecution, FailExecution, TypeInv, TypeOK
  <1> HIDE DEF r
  <1>5. /\ running' \in [Tasks -> Nat] /\ pending' \in [Tasks -> Nat] /\ executionCount' \in [Tasks -> Nat]
        /\ ExecutionsOK'
    BY <1>3 DEF TypeInv, TypeOK, ExecutionsOK
  <1>6. TypeOK'
    <2>1. apQueue' \in Seq(Requests)
      BY <1>1, <1>3, QueueAppend DEF TypeInv
    <2>2. status' \in [Tasks -> States]
      BY <1>3 DEF TypeInv, TypeOK, States
    <2> QED
      BY <1>3, <1>4, <1>5, <2>1, <2>2 DEF TypeInv, TypeOK, threadVars, taskVars, countVars, historyVars
  <1>7. pc' = pc /\ owner' = owner /\ target' = target /\ semaphore' = semaphore /\ waitedTasks' = waitedTasks
    BY <1>3 DEF threadVars, taskVars, countVars
  <1>8. QueueOK'
    BY <1>1, <1>3, <1>7, QueueAppend DEF TypeInv, QueueOK, Blocking
  <1>9. OneRequest' /\ \A g \in Threads : NotAsking(g) => NotAsking(g)'
    BY <1>1, <1>3, QueueAppend DEF TypeInv, OneRequest, NotAsking, Blocking
  <1>10. SemaphoresOK' /\ WaitedOK' /\ TargetsOK'
    BY <1>7, <1>9 DEF TypeInv, TypeOK, SemaphoresOK, WaitedOK, TargetsOK
  <1> QED BY <1>5, <1>6, <1>8, <1>9, <1>10 DEF TypeInv

-----------------------------------------------------------------------------
(* The phases of a task *)

\* The initial states.
LEMMA InitPhaseInv == Init => PhaseInv
  BY DEF Init, PhaseInv, AnalysedOnce, StatusOK, EndsOK, OwnersOK, Tasks

\* A step that puts in the queue a request that is not about a task, or none.
LEMMA AppendPhaseInv ==
    ASSUME TypeInv, PhaseInv, UNCHANGED <<nextTask, tdQueue, status, pending, owner>>,
           \/ apQueue' = apQueue
           \/ \E r \in Requests : r.type \in Blocking /\ apQueue' = Append(apQueue, r)
    PROVE  PhaseInv'
  <1>1. StatusOK' /\ OwnersOK'
    BY DEF PhaseInv, StatusOK, OwnersOK
  <1>2. CASE apQueue' = apQueue
    BY <1>1, <1>2 DEF PhaseInv, AnalysedOnce, EndsOK, InQueue
  <1>3. ASSUME NEW r \in Requests, r.type \in Blocking, apQueue' = Append(apQueue, r)
        PROVE  PhaseInv'
    <2>1. r.type \notin {"analyse", "end"}
      BY <1>3 DEF Blocking
    <2>2. AnalysedOnce'
      BY <1>3, <2>1, QueueAppend DEF TypeInv, PhaseInv, AnalysedOnce, InQueue
    <2>3. EndsOK'
      BY <1>3, <2>1, QueueAppend DEF TypeInv, PhaseInv, EndsOK
    <2> QED BY <1>1, <2>2, <2>3 DEF PhaseInv
  <1> QED BY <1>2, <1>3

\* A step of the AP that takes a request and submits nothing to the TD.
LEMMA TailPhaseInv ==
    ASSUME TypeInv, PhaseInv, UNCHANGED <<nextTask, tdQueue, status, pending, owner>>,
           NEW type, Takes(type), apQueue' = Tail(apQueue)
    PROVE  PhaseInv'
  <1>1. StatusOK' /\ OwnersOK'
    BY DEF PhaseInv, StatusOK, OwnersOK
  <1>2. AnalysedOnce'
    BY QueueTail DEF TypeInv, PhaseInv, AnalysedOnce, InQueue
  <1>3. EndsOK'
    BY QueueTail DEF TypeInv, PhaseInv, EndsOK
  <1> QED BY <1>1, <1>2, <1>3 DEF PhaseInv

\* A task that is submitted is new.
LEMMA ExecuteTaskPhaseInv ==
    ASSUME TypeInv, PhaseInv, NEW h \in Threads, NEW sig \in Signatures, ExecuteTask(h, sig)
    PROVE  PhaseInv'
  <1> DEFINE r == Request("analyse", nextTask, h)
  <1>1. r \in Requests /\ r.type = "analyse" /\ r.task = nextTask /\ r.thread = h
    BY DEF ExecuteTask, Request, Requests
  <1>2. /\ apQueue' = Append(apQueue, r) /\ nextTask \in Tasks /\ nextTask' = nextTask + 1
        /\ owner' = [owner EXCEPT ![nextTask] = h]
        /\ tdQueue' = tdQueue /\ status' = status /\ pending' = pending
    BY DEF ExecuteTask, stateVars, execVars
  <1> HIDE DEF r
  <1>3. nextTask \in Int /\ \A t \in Tasks : t \in Int
    BY <1>2 DEF Tasks
  <1>4. status[nextTask] = "TO_ANALYSE" /\ ~ InQueue(tdQueue, nextTask)
    BY <1>2, <1>3 DEF TypeInv, TypeOK, PhaseInv, StatusOK, AnalysedOnce, States, InQueue
  <1>5. AnalysedOnce'
    <2>0. \A i \in 1 .. Len(tdQueue) : tdQueue[i] \in Tasks
      BY DEF TypeInv, TypeOK
    <2>1. \A i \in 1 .. Len(tdQueue) : tdQueue[i] \in Int /\ tdQueue[i] < nextTask
      BY <1>3, <2>0 DEF PhaseInv, AnalysedOnce
    <2>2. \A i \in 1 .. Len(apQueue) : apQueue[i].type = "analyse" =>
             apQueue[i].task \in Int /\ apQueue[i].task < nextTask
      BY <1>3 DEF TypeInv, QueueOK, PhaseInv, AnalysedOnce
    <2>3. \A i \in 1 .. Len(tdQueue) :
              /\ tdQueue[i] < nextTask'
              /\ status[tdQueue[i]] = "TO_ANALYSE"
              /\ \A j \in 1 .. Len(tdQueue) : tdQueue[j] = tdQueue[i] => i = j
      BY <1>2, <1>3, <2>1 DEF PhaseInv, AnalysedOnce
    <2>4. \A i \in 1 .. Len(apQueue') :
              apQueue'[i].type = "analyse" =>
                  /\ apQueue'[i].task < nextTask'
                  /\ status[apQueue'[i].task] = "TO_ANALYSE"
                  /\ ~ InQueue(tdQueue, apQueue'[i].task)
      BY <1>1, <1>2, <1>3, <1>4, <2>2, QueueAppend DEF TypeInv, PhaseInv, AnalysedOnce
    <2>5. \A i, j \in 1 .. Len(apQueue') :
              apQueue'[i].type = "analyse" /\ apQueue'[j].type = "analyse"
              /\ apQueue'[j].task = apQueue'[i].task => i = j
      BY <1>1, <1>2, <1>3, <2>2, QueueAppend DEF TypeInv, PhaseInv, AnalysedOnce
    <2> QED BY <1>2, <2>3, <2>4, <2>5 DEF AnalysedOnce, InQueue
  <1>6. StatusOK' /\ OwnersOK'
    BY <1>2, <1>3 DEF TypeInv, TypeOK, PhaseInv, StatusOK, OwnersOK
  <1>7. EndsOK'
    BY <1>1, <1>2, QueueAppend DEF TypeInv, PhaseInv, EndsOK
  <1> QED BY <1>5, <1>6, <1>7 DEF PhaseInv

\* A task that is analysed goes from the queue of the AP to that of the TD.
LEMMA ProcessTaskPhaseInv ==
    ASSUME TypeInv, PhaseInv, ProcessTask
    PROVE  PhaseInv'
  <1> DEFINE t == apQueue[1].task
  <1>1. Takes("analyse") /\ apQueue' = Tail(apQueue)
    BY DEF ProcessTask
  <1>2. Head(apQueue) = apQueue[1] /\ apQueue[1].type = "analyse" /\ t \in Tasks /\ 1 \in 1 .. Len(apQueue)
    BY <1>1, QueueTail DEF TypeInv, QueueOK
  <1>3. tdQueue' = Append(tdQueue, t) /\ UNCHANGED <<nextTask, status, pending, owner>>
    BY <1>2 DEF ProcessTask, threadVars, stateVars, execVars
  <1>4. t < nextTask /\ status[t] = "TO_ANALYSE" /\ ~ InQueue(tdQueue, t)
    BY <1>2 DEF PhaseInv, AnalysedOnce
  <1>5. /\ Len(tdQueue) \in Nat /\ Len(tdQueue') = Len(tdQueue) + 1
        /\ \A i \in 1 .. Len(tdQueue) : tdQueue'[i] = tdQueue[i]
        /\ tdQueue'[Len(tdQueue) + 1] = t
    BY <1>2, <1>3, AppendFacts DEF TypeInv, TypeOK
  <1>6. \A i \in 1 .. Len(apQueue') : apQueue'[i].type = "analyse" => apQueue'[i].task # t
    <2> SUFFICES ASSUME NEW i \in 1 .. Len(apQueue'), apQueue'[i].type = "analyse", apQueue'[i].task = t
                 PROVE  FALSE
      OBVIOUS
    <2>1. apQueue'[i] = apQueue[i + 1] /\ i + 1 \in 1 .. Len(apQueue) /\ i + 1 # 1
      BY <1>1, QueueTail DEF TypeInv
    <2> QED BY <1>2, <2>1 DEF PhaseInv, AnalysedOnce
  <1> HIDE DEF t
  <1>7. StatusOK' /\ OwnersOK'
    BY <1>3 DEF PhaseInv, StatusOK, OwnersOK
  <1>8. EndsOK'
    BY <1>1, <1>3, QueueTail DEF TypeInv, PhaseInv, EndsOK
  <1>9. AnalysedOnce'
    <2>1. \A i \in 1 .. Len(tdQueue') :
              /\ tdQueue'[i] < nextTask'
              /\ status'[tdQueue'[i]] = "TO_ANALYSE"
              /\ \A j \in 1 .. Len(tdQueue') : tdQueue'[j] = tdQueue'[i] => i = j
      BY <1>3, <1>4, <1>5 DEF PhaseInv, AnalysedOnce, InQueue
    <2>2. \A x : x # t /\ ~ InQueue(tdQueue, x) => ~ InQueue(tdQueue', x)
      BY <1>5 DEF InQueue
    <2>3. \A i \in 1 .. Len(apQueue') :
              apQueue'[i].type = "analyse" =>
                  /\ apQueue'[i].task < nextTask'
                  /\ status'[apQueue'[i].task] = "TO_ANALYSE"
                  /\ ~ InQueue(tdQueue', apQueue'[i].task)
                  /\ \A j \in 1 .. Len(apQueue') :
                        apQueue'[j].type = "analyse" /\ apQueue'[j].task = apQueue'[i].task => i = j
      BY <1>1, <1>3, <1>6, <2>2, QueueTail DEF TypeInv, PhaseInv, AnalysedOnce
    <2> QED BY <2>1, <2>3 DEF AnalysedOnce, InQueue
  <1> QED BY <1>7, <1>8, <1>9 DEF PhaseInv

\* A task that is submitted to the scheduler leaves the queue of the TD for good.
LEMMA SubmitPhaseInv ==
    ASSUME TypeInv, PhaseInv, SubmitExecutions
    PROVE  PhaseInv'
  <1> DEFINE t == tdQueue[1]
  <1>1. tdQueue \in Seq(Tasks) /\ tdQueue # << >> /\ tdQueue' = Tail(tdQueue)
    BY DEF SubmitExecutions, TypeInv, TypeOK
  <1>2. /\ t \in Tasks /\ Head(tdQueue) = t /\ 1 \in 1 .. Len(tdQueue)
        /\ Executions[t] \in Nat /\ Executions[t] > 0
    BY <1>1, TailFacts, ExecutionsAssumption
  <1>3. /\ Len(tdQueue) \in Nat /\ Len(tdQueue') = Len(tdQueue) - 1
        /\ \A i \in 1 .. Len(tdQueue') : tdQueue'[i] = tdQueue[i + 1] /\ i + 1 \in 1 .. Len(tdQueue)
    BY <1>1, TailFacts
  <1>4. /\ status' = [status EXCEPT ![t] = "TO_EXECUTE"]
        /\ pending' = [pending EXCEPT ![t] = Executions[t]]
        /\ UNCHANGED <<nextTask, apQueue, owner>>
    BY <1>2 DEF SubmitExecutions, threadVars, taskVars
  <1>5. t < nextTask /\ status[t] = "TO_ANALYSE" /\ InQueue(tdQueue, t)
    BY <1>2 DEF PhaseInv, AnalysedOnce, InQueue
  <1>6. \A i \in 1 .. Len(tdQueue') : tdQueue'[i] # t
    <2> SUFFICES ASSUME NEW i \in 1 .. Len(tdQueue'), tdQueue'[i] = t
                 PROVE  FALSE
      OBVIOUS
    <2>1. tdQueue'[i] = tdQueue[i + 1] /\ i + 1 \in 1 .. Len(tdQueue) /\ i + 1 # 1
      BY <1>3
    <2> QED BY <1>2, <2>1 DEF PhaseInv, AnalysedOnce
  <1> HIDE DEF t
  <1>7. \A u \in Tasks : u # t => status'[u] = status[u] /\ pending'[u] = pending[u]
    BY <1>4 DEF TypeInv, TypeOK
  <1>8. status'[t] = "TO_EXECUTE" /\ pending'[t] > 0
    BY <1>2, <1>4 DEF TypeInv, TypeOK
  <1>9. StatusOK' /\ OwnersOK'
    BY <1>4, <1>5, <1>7, <1>8 DEF PhaseInv, StatusOK, OwnersOK
  <1>10. EndsOK'
    BY <1>4, <1>5, <1>7 DEF TypeInv, QueueOK, PhaseInv, EndsOK
  <1>11. AnalysedOnce'
    <2>1. \A i \in 1 .. Len(tdQueue) : tdQueue[i] \in Tasks
      BY DEF TypeInv, TypeOK
    <2>2. \A i \in 1 .. Len(tdQueue') :
              /\ tdQueue'[i] < nextTask
              /\ status'[tdQueue'[i]] = "TO_ANALYSE"
              /\ \A j \in 1 .. Len(tdQueue') : tdQueue'[j] = tdQueue'[i] => i = j
      <3> SUFFICES ASSUME NEW i \in 1 .. Len(tdQueue')
                   PROVE  /\ tdQueue'[i] < nextTask
                          /\ status'[tdQueue'[i]] = "TO_ANALYSE"
                          /\ \A j \in 1 .. Len(tdQueue') : tdQueue'[j] = tdQueue'[i] => i = j
        OBVIOUS
      <3>1. tdQueue'[i] = tdQueue[i + 1] /\ i + 1 \in 1 .. Len(tdQueue) /\ tdQueue[i + 1] \in Tasks
        BY <1>3, <2>1
      <3>2. tdQueue[i + 1] < nextTask /\ status[tdQueue[i + 1]] = "TO_ANALYSE"
        BY <3>1 DEF PhaseInv, AnalysedOnce
      <3>3. ASSUME NEW j \in 1 .. Len(tdQueue'), tdQueue'[j] = tdQueue'[i]
            PROVE  i = j
        <4>1. tdQueue'[j] = tdQueue[j + 1] /\ j + 1 \in 1 .. Len(tdQueue)
          BY <1>3
        <4>2. i + 1 = j + 1
          BY <3>1, <3>3, <4>1 DEF PhaseInv, AnalysedOnce
        <4> QED BY <4>2
      <3> QED BY <1>6, <1>7, <3>1, <3>2, <3>3
    <2>3. \A x : InQueue(tdQueue', x) => InQueue(tdQueue, x)
      BY <1>3 DEF InQueue
    <2>4. \A i \in 1 .. Len(apQueue) :
              apQueue[i].type = "analyse" =>
                  /\ apQueue[i].task < nextTask
                  /\ status'[apQueue[i].task] = "TO_ANALYSE"
                  /\ ~ InQueue(tdQueue', apQueue[i].task)
                  /\ \A j \in 1 .. Len(apQueue) :
                        apQueue[j].type = "analyse" /\ apQueue[j].task = apQueue[i].task => i = j
      BY <1>5, <1>7, <2>3 DEF TypeInv, QueueOK, PhaseInv, AnalysedOnce
    <2> QED BY <1>4, <2>2, <2>4 DEF AnalysedOnce, InQueue
  <1> QED BY <1>9, <1>10, <1>11 DEF PhaseInv

\* Only tasks that were submitted run, and they are not in the queues.
LEMMA RunningFacts ==
    ASSUME TypeInv, PhaseInv, NEW t \in Tasks, running[t] > 0
    PROVE  /\ pending[t] > 0
           /\ status[t] # "TO_ANALYSE"
           /\ owner[t] \in Threads
  <1>1. pending[t] > 0
    BY DEF TypeInv, TypeOK, ExecutionsOK
  <1>2. status[t] # "TO_ANALYSE"
    BY <1>1 DEF PhaseInv, StatusOK, TypeInv, TypeOK
  <1> QED BY <1>1, <1>2 DEF PhaseInv, StatusOK, OwnersOK

\* The end of an execution.
LEMMA EndExecutionPhaseInv ==
    ASSUME TypeInv, PhaseInv, NEW t \in Tasks, NEW result \in {"FINISHED", "FAILED"},
           EndExecution(t, result)
    PROVE  PhaseInv'
  <1> DEFINE r == Request("end", t, None)
  <1>1. r \in Requests /\ r.type = "end" /\ r.task = t
    BY DEF Request, Requests
  <1>2. /\ apQueue' = Append(apQueue, r)
        /\ running[t] > 0
        /\ pending' = [pending EXCEPT ![t] = @ - 1]
        /\ status' = [status EXCEPT ![t] = result]
        /\ UNCHANGED <<nextTask, tdQueue, owner>>
    BY DEF EndExecution, threadVars, taskVars
  <1> HIDE DEF r
  <1>3. pending[t] > 0 /\ status[t] # "TO_ANALYSE"
    BY <1>2, RunningFacts
  <1>4. /\ \A u \in Tasks : u # t => status'[u] = status[u] /\ pending'[u] = pending[u]
        /\ status'[t] = result
    BY <1>2 DEF TypeInv, TypeOK
  <1>5. StatusOK' /\ OwnersOK'
    BY <1>2, <1>3, <1>4 DEF PhaseInv, StatusOK, OwnersOK
  <1>6. EndsOK'
    BY <1>1, <1>2, <1>4, QueueAppend DEF TypeInv, QueueOK, PhaseInv, EndsOK
  <1>7. AnalysedOnce'
    <2>1. \A i \in 1 .. Len(tdQueue) :
              /\ tdQueue[i] < nextTask
              /\ status'[tdQueue[i]] = "TO_ANALYSE"
              /\ \A j \in 1 .. Len(tdQueue) : tdQueue[j] = tdQueue[i] => i = j
      <3>1. \A i \in 1 .. Len(tdQueue) : tdQueue[i] \in Tasks
        BY DEF TypeInv, TypeOK
      <3> QED BY <1>3, <1>4, <3>1 DEF PhaseInv, AnalysedOnce
    <2>2. \A i \in 1 .. Len(apQueue') :
              apQueue'[i].type = "analyse" =>
                  /\ apQueue'[i].task < nextTask
                  /\ status'[apQueue'[i].task] = "TO_ANALYSE"
                  /\ ~ InQueue(tdQueue, apQueue'[i].task)
                  /\ \A j \in 1 .. Len(apQueue') :
                        apQueue'[j].type = "analyse" /\ apQueue'[j].task = apQueue'[i].task => i = j
      BY <1>1, <1>2, <1>3, <1>4, QueueAppend DEF TypeInv, QueueOK, PhaseInv, AnalysedOnce
    <2> QED BY <1>2, <2>1, <2>2 DEF AnalysedOnce, InQueue
  <1> QED BY <1>5, <1>6, <1>7 DEF PhaseInv

\* TypeInv and PhaseInv are together an inductive invariant.
LEMMA NextTypeInv ==
    ASSUME TypeInv, PhaseInv, [Next]_vars
    PROVE  TypeInv' /\ PhaseInv'
  <1>1. ASSUME NEW h \in Threads, NEW sig \in Signatures, ExecuteTask(h, sig)
        PROVE  TypeInv' /\ PhaseInv'
    BY <1>1, ExecuteTaskTypeInv, ExecuteTaskPhaseInv
  <1>2. ASSUME NEW h \in Threads, NEW type \in Blocking, Ask(h, type)
        PROVE  PhaseInv'
    <2>1. /\ Request(type, None, h) \in Requests /\ Request(type, None, h).type \in Blocking
          /\ apQueue' = Append(apQueue, Request(type, None, h))
      BY <1>2 DEF Ask, Request, Requests
    <2>2. UNCHANGED <<nextTask, tdQueue, status, pending, owner>>
      BY <1>2 DEF Ask, taskVars, stateVars, execVars
    <2> QED BY <2>1, <2>2, AppendPhaseInv
  <1>3. ASSUME NEW h \in Threads, Barrier(h) \/ NoMoreTasks(h)
        PROVE  TypeInv' /\ PhaseInv'
    BY <1>2, <1>3, BarrierTypeInv DEF Barrier, NoMoreTasks, Blocking
  <1>4. ASSUME NEW h \in Threads, NEW d \in Data, NEW m \in Modes, MainAccess(h, d, m)
        PROVE  TypeInv' /\ PhaseInv'
    BY <1>2, <1>4, MainAccessTypeInv DEF MainAccess, Blocking
  <1>5. ASSUME NEW h \in Threads, WaitForTask(h)
        PROVE  TypeInv' /\ PhaseInv'
    <2>1. CASE Ask(h, "wait")
      BY <1>2, <1>5, <2>1, WaitForTaskTypeInv DEF Blocking
    <2>2. CASE UNCHANGED <<nextTask, apQueue, tdQueue, taskVars, stateVars, execVars>>
      BY <1>5, <2>2, AppendPhaseInv, WaitForTaskTypeInv DEF taskVars, stateVars, execVars
    <2> QED BY <1>5, <2>1, <2>2 DEF WaitForTask
  <1>6. CASE ProcessTask
    BY <1>6, ProcessTaskTypeInv, ProcessTaskPhaseInv
  <1>7. CASE EndTask
    <2>1. /\ UNCHANGED <<nextTask, tdQueue, status, pending, owner>>
          /\ Takes("end") /\ apQueue' = Tail(apQueue)
      BY <1>7 DEF EndTask, stateVars, execVars
    <2> QED BY <1>7, <2>1, EndTaskTypeInv, TailPhaseInv
  <1>8. ASSUME NEW type \in {"barrier", "endOfApp"}, Synchronise(type)
        PROVE  TypeInv' /\ PhaseInv'
    <2>1. /\ UNCHANGED <<nextTask, tdQueue, status, pending, owner>>
          /\ Takes(type) /\ apQueue' = Tail(apQueue)
      BY <1>8 DEF Synchronise, stateVars, execVars, taskVars
    <2> QED BY <1>8, <2>1, SynchroniseTypeInv, TailPhaseInv
  <1>9. CASE RegisterDataAccess
    <2>1. /\ UNCHANGED <<nextTask, tdQueue, status, pending, owner>>
          /\ Takes("register") /\ apQueue' = Tail(apQueue)
      BY <1>9 DEF RegisterDataAccess, stateVars, execVars, taskVars
    <2> QED BY <1>9, <2>1, RegisterDataAccessTypeInv, TailPhaseInv
  <1>10. CASE FindWaitedTask
    <2>1. /\ UNCHANGED <<nextTask, tdQueue, status, pending, owner>>
          /\ Takes("wait") /\ apQueue' = Tail(apQueue)
      BY <1>10 DEF FindWaitedTask, stateVars, execVars, taskVars
    <2> QED BY <1>10, <2>1, FindWaitedTaskTypeInv, TailPhaseInv
  <1>11. CASE SubmitExecutions
    BY <1>11, SubmitTypeInv, SubmitPhaseInv
  <1>12. ASSUME NEW t \in Tasks, StartExecution(t)
         PROVE  TypeInv' /\ PhaseInv'
    <2>1. UNCHANGED <<nextTask, apQueue, tdQueue, status, pending, owner>>
      BY <1>12 DEF StartExecution, threadVars, taskVars, stateVars
    <2> QED BY <1>12, <2>1, SubmitTypeInv, AppendPhaseInv
  <1>13. ASSUME NEW t \in Tasks, CompleteExecution(t) \/ FailExecution(t)
         PROVE  TypeInv' /\ PhaseInv'
    <2>1. PICK result \in {"FINISHED", "FAILED"} : EndExecution(t, result)
      BY <1>13 DEF CompleteExecution, FailExecution
    <2>2. owner[t] \in Threads
      BY <2>1, RunningFacts DEF EndExecution
    <2> QED BY <1>13, <2>1, <2>2, EndExecutionTypeInv, EndExecutionPhaseInv
  <1>14. CASE Shutdown
    <2>1. TypeInv'
      BY <1>14
      DEF Shutdown, TypeInv, TypeOK, QueueOK, OneRequest, NotAsking, SemaphoresOK, WaitedOK, TargetsOK,
          ExecutionsOK, threadVars, taskVars, stateVars, execVars, countVars, historyVars
    <2>2. UNCHANGED <<nextTask, apQueue, tdQueue, status, pending, owner>>
      BY <1>14 DEF Shutdown, threadVars, taskVars, stateVars, execVars
    <2> QED BY <2>1, <2>2, AppendPhaseInv
  <1>15. CASE UNCHANGED vars
    <2>1. TypeInv'
      BY <1>15
      DEF vars, TypeInv, TypeOK, QueueOK, OneRequest, NotAsking, SemaphoresOK, WaitedOK, TargetsOK,
          ExecutionsOK, threadVars, taskVars, stateVars, execVars, countVars, historyVars
    <2>2. UNCHANGED <<nextTask, apQueue, tdQueue, status, pending, owner>>
      BY <1>15 DEF vars, threadVars, taskVars, stateVars, execVars
    <2> QED BY <2>1, <2>2, AppendPhaseInv
  <1> QED
    BY <1>1, <1>3, <1>4, <1>5, <1>6, <1>7, <1>8, <1>9, <1>10, <1>11, <1>12, <1>13, <1>14, <1>15
    DEF Next, ThreadStep, APStep, BarrierRequest, EndOfAppRequest

\* The values of the variables are what the definitions take them for, with any
\* number of threads, tasks, data and executions: in particular no count of
\* executions becomes negative.
THEOREM TypeCorrect == Spec => []TypeOK
  <1>1. Init => TypeInv /\ PhaseInv
    BY InitTypeInv, InitPhaseInv
  <1>2. TypeInv /\ PhaseInv /\ [Next]_vars => (TypeInv /\ PhaseInv)'
    BY NextTypeInv
  <1>3. TypeInv => TypeOK
    BY DEF TypeInv
  <1> QED BY <1>1, <1>2, <1>3, PTL DEF Spec

-----------------------------------------------------------------------------
(* Dependencies *)

\* The initial states.
LEMMA InitDependencyInv == Init => DependencyInv
  BY NoneAssumption
  DEF Init, DependencyInv, SignaturesOK, AnalysedFirst, TakenObjects, WritersOK, NeedsAnalysed,
      NeedsSubmitted, NothingToWaitFor, Tasks

\* What is kept by a step that leaves the executions and the queue of the TD alone,
\* removes only tasks that are done from the predecessors, and forgets the writer
\* only of a datum that no task produces.
LEMMA DependencyFrame ==
    ASSUME TypeInv, DependencyInv,
           UNCHANGED <<tdQueue, status, pending, running, waitsFor, needs>>,
           \A t \in Tasks : \A p \in predecessors[t] : p \in predecessors'[t] \/ Done(p),
           \A d \in Data : producer'[d] \in {producer[d], None},
           \A d \in Data : producer'[d] # None => writers'[d] = writers[d]
    PROVE  WritersOK' /\ NeedsAnalysed' /\ NeedsSubmitted' /\ NothingToWaitFor'
  <1>1. \A p : (Done(p) <=> Done(p)') /\ (Known(p) <=> Known(p)')
    BY DEF Done, Known, InQueue
  <1>2. WritersOK'
    <2> SUFFICES ASSUME NEW d \in Data, producer'[d] # None
                 PROVE  /\ Known(producer[d]) /\ producer'[d] = producer[d]
                        /\ writers'[d] = producer[d] \/ Done(producer[d])
      BY DEF WritersOK, Done, Known, InQueue
    <2>1. producer'[d] = producer[d] /\ writers'[d] = writers[d]
      OBVIOUS
    <2> QED BY <2>1 DEF DependencyInv, WritersOK
  <1>3. NeedsAnalysed'
    <2>1. \A i \in 1 .. Len(tdQueue) : tdQueue[i] \in Tasks
      BY DEF TypeInv, TypeOK
    <2> QED BY <1>1, <2>1 DEF DependencyInv, NeedsAnalysed
  <1>4. NeedsSubmitted' /\ NothingToWaitFor'
    BY <1>1 DEF DependencyInv, NeedsSubmitted, NothingToWaitFor
  <1> QED BY <1>2, <1>3, <1>4

\* What is kept when the AP takes a request, or the queue does not change, and
\* threads can only be released.
LEMMA RequestsFrame ==
    ASSUME TypeInv, DependencyInv,
           apQueue' = apQueue \/ \E type : Takes(type) /\ apQueue' = Tail(apQueue),
           signature' = signature,
           \A g \in Threads : \/ pc'[g] \in {"running", "ended"}
                              \/ pc'[g] = pc[g] /\ target'[g] = target[g]
    PROVE  SignaturesOK' /\ AnalysedFirst'
  <1>1. PICK k \in {0, 1} :
           /\ Len(apQueue) \in Nat /\ Len(apQueue') = Len(apQueue) - k
           /\ \A i \in 1 .. Len(apQueue') : apQueue'[i] = apQueue[i + k] /\ i + k \in 1 .. Len(apQueue)
    <2>1. CASE apQueue' = apQueue
      <3>1. Len(apQueue) \in Nat
        BY DEF TypeInv, TypeOK
      <3> QED BY <2>1, <3>1
    <2>2. ASSUME NEW type, Takes(type), apQueue' = Tail(apQueue)
          PROVE  /\ Len(apQueue) \in Nat /\ Len(apQueue') = Len(apQueue) - 1
                 /\ \A i \in 1 .. Len(apQueue') : apQueue'[i] = apQueue[i + 1] /\ i + 1 \in 1 .. Len(apQueue)
      BY <2>2, QueueTail DEF TypeInv
    <2> QED BY <2>1, <2>2
  <1>2. SignaturesOK'
    <2> SUFFICES ASSUME NEW i \in 1 .. Len(apQueue'), apQueue'[i].type = "analyse", NEW d \in Data,
                        signature[apQueue'[i].task][d] # "none"
                 PROVE  d \in TaskData[apQueue'[i].thread]
      BY DEF SignaturesOK
    <2>1. apQueue'[i] = apQueue[i + k] /\ i + k \in 1 .. Len(apQueue)
      BY <1>1
    <2> QED BY <2>1 DEF DependencyInv, SignaturesOK
  <1>3. AnalysedFirst'
    <2> SUFFICES ASSUME NEW i \in 1 .. Len(apQueue'), apQueue'[i].type = "analyse"
                 PROVE  /\ pc'[apQueue'[i].thread] \notin {"registered", "wait"}
                        /\ \A j \in 1 .. Len(apQueue') :
                              /\ apQueue'[j].type = "register"
                              /\ apQueue'[j].thread = apQueue'[i].thread
                              => i < j
      BY DEF AnalysedFirst
    <2>1. apQueue'[i] = apQueue[i + k] /\ i + k \in 1 .. Len(apQueue)
          /\ apQueue[i + k].thread \in Threads
      BY <1>1 DEF TypeInv, QueueOK
    <2>2. pc[apQueue[i + k].thread] \notin {"registered", "wait"}
      BY <2>1 DEF DependencyInv, AnalysedFirst
    <2>3. ASSUME NEW j \in 1 .. Len(apQueue'), apQueue'[j].type = "register",
                 apQueue'[j].thread = apQueue'[i].thread
          PROVE  i < j
      <3>1. apQueue'[j] = apQueue[j + k] /\ j + k \in 1 .. Len(apQueue)
        BY <1>1
      <3>2. i + k < j + k
        BY <2>1, <2>3, <3>1 DEF DependencyInv, AnalysedFirst
      <3> QED BY <3>2
    <2> QED BY <2>1, <2>2, <2>3
  <1> QED BY <1>2, <1>3

\* ... and no task becomes the producer of a datum.
LEMMA AccessFrame ==
    ASSUME TypeInv, DependencyInv,
           apQueue' = apQueue \/ \E type : Takes(type) /\ apQueue' = Tail(apQueue),
           signature' = signature,
           \A g \in Threads : \/ pc'[g] \in {"running", "ended"}
                              \/ pc'[g] = pc[g] /\ target'[g] = target[g],
           \A d \in Data : producer'[d] \in {producer[d], None}
    PROVE  SignaturesOK' /\ AnalysedFirst' /\ TakenObjects'
  <1>1. TakenObjects'
    <2> SUFFICES ASSUME NEW g \in Threads, pc'[g] \in {"registered", "wait"}, target'[g].data \in Objects
                 PROVE  producer'[target'[g].data] = None
      BY DEF TakenObjects
    <2>1. pc'[g] = pc[g] /\ target'[g] = target[g]
      OBVIOUS
    <2>2. target[g].data \in Data /\ producer[target[g].data] = None
      BY <2>1 DEF TypeInv, TargetsOK, DependencyInv, TakenObjects
    <2> QED BY <2>1, <2>2
  <1> QED BY <1>1, RequestsFrame

\* A new task.
LEMMA ExecuteTaskDependencyInv ==
    ASSUME TypeInv, PhaseInv, DependencyInv, NEW h \in Threads, NEW sig \in Signatures, ExecuteTask(h, sig)
    PROVE  DependencyInv'
  <1> DEFINE r == Request("analyse", nextTask, h)
  <1>1. r \in Requests /\ r.type = "analyse" /\ r.task = nextTask /\ r.thread = h
    BY DEF ExecuteTask, Request, Requests
  <1>2. /\ apQueue' = Append(apQueue, r) /\ nextTask \in Tasks /\ pc[h] = "running"
        /\ signature' = [signature EXCEPT ![nextTask] = sig]
        /\ \A d \in Data : sig[d] # "none" => d \in TaskData[h]
        /\ UNCHANGED <<pc, target, tdQueue, status, pending, running, waitsFor, needs, predecessors,
                       producer, writers>>
    BY DEF ExecuteTask, stateVars, execVars, historyVars
  <1> HIDE DEF r
  <1>3. /\ Len(apQueue) \in Nat /\ Len(apQueue') = Len(apQueue) + 1
        /\ \A i \in 1 .. Len(apQueue) : apQueue'[i] = apQueue[i]
        /\ apQueue'[Len(apQueue) + 1] = r
    BY <1>1, <1>2, QueueAppend DEF TypeInv
  <1>4. WritersOK' /\ NeedsAnalysed' /\ NeedsSubmitted' /\ NothingToWaitFor'
    BY <1>2, DependencyFrame
  <1>5. TakenObjects'
    BY <1>2 DEF DependencyInv, TakenObjects
  <1>6. SignaturesOK'
    <2> SUFFICES ASSUME NEW i \in 1 .. Len(apQueue'), apQueue'[i].type = "analyse", NEW d \in Data,
                        signature'[apQueue'[i].task][d] # "none"
                 PROVE  d \in TaskData[apQueue'[i].thread]
      BY DEF SignaturesOK
    <2>1. CASE i = Len(apQueue) + 1
      BY <1>1, <1>2, <1>3, <2>1 DEF TypeInv, TypeOK
    <2>2. CASE i \in 1 .. Len(apQueue)
      <3>1. apQueue'[i] = apQueue[i] /\ apQueue[i].task \in Tasks /\ apQueue[i].task < nextTask
        BY <1>3, <2>2 DEF TypeInv, QueueOK, PhaseInv, AnalysedOnce
      <3>2. apQueue[i].task # nextTask
        BY <3>1 DEF Tasks
      <3>3. signature'[apQueue[i].task] = signature[apQueue[i].task]
        BY <1>2, <3>1, <3>2 DEF TypeInv, TypeOK
      <3> QED BY <2>2, <3>1, <3>3 DEF DependencyInv, SignaturesOK
    <2> QED BY <1>3, <2>1, <2>2
  <1>7. AnalysedFirst'
    <2> SUFFICES ASSUME NEW i \in 1 .. Len(apQueue'), apQueue'[i].type = "analyse"
                 PROVE  /\ pc[apQueue'[i].thread] \notin {"registered", "wait"}
                        /\ \A j \in 1 .. Len(apQueue') :
                              /\ apQueue'[j].type = "register"
                              /\ apQueue'[j].thread = apQueue'[i].thread
                              => i < j
      BY <1>2 DEF AnalysedFirst
    <2>1. \A j \in 1 .. Len(apQueue') : apQueue'[j].type = "register" =>
              j \in 1 .. Len(apQueue) /\ apQueue'[j] = apQueue[j] /\ apQueue[j].thread # h
      BY <1>1, <1>2, <1>3 DEF TypeInv, QueueOK, Blocking
    <2>2. CASE i = Len(apQueue) + 1
      BY <1>1, <1>2, <1>3, <2>1, <2>2
    <2>3. CASE i \in 1 .. Len(apQueue)
      BY <1>3, <2>1, <2>3 DEF DependencyInv, AnalysedFirst
    <2> QED BY <1>3, <2>2, <2>3
  <1> QED BY <1>4, <1>5, <1>6, <1>7 DEF DependencyInv

\* A blocking request: a thread that waits had nothing more to be analysed when
\* its access was registered.
LEMMA AskDependencyInv ==
    ASSUME TypeInv, DependencyInv, NEW h \in Threads, NEW type \in Blocking, Ask(h, type),
           type = "wait" => pc[h] = "registered",
           pc[h] = "running" \/ target' = target,
           \A g \in Threads : g # h => target'[g] = target[g]
    PROVE  DependencyInv'
  <1> DEFINE r == Request(type, None, h)
  <1>1. r \in Requests /\ r.type = type /\ r.thread = h /\ type # "analyse"
    BY DEF Request, Requests, Blocking
  <1>2. /\ apQueue' = Append(apQueue, r)
        /\ pc' = [pc EXCEPT ![h] = type]
        /\ UNCHANGED <<signature, tdQueue, status, pending, running, waitsFor, needs, predecessors,
                       producer, writers>>
    BY DEF Ask, taskVars, stateVars, execVars, historyVars
  <1> HIDE DEF r
  <1>3. /\ Len(apQueue) \in Nat /\ Len(apQueue') = Len(apQueue) + 1
        /\ \A i \in 1 .. Len(apQueue) : apQueue'[i] = apQueue[i]
        /\ apQueue'[Len(apQueue) + 1] = r
    BY <1>1, <1>2, QueueAppend DEF TypeInv
  <1>4. pc'[h] = type /\ type # "registered" /\ \A g \in Threads : g # h => pc'[g] = pc[g]
    BY <1>2 DEF TypeInv, TypeOK, Blocking
  <1>5. WritersOK' /\ NeedsAnalysed' /\ NeedsSubmitted' /\ NothingToWaitFor'
    BY <1>2, DependencyFrame
  <1>6. TakenObjects'
    <2> SUFFICES ASSUME NEW g \in Threads, pc'[g] \in {"registered", "wait"}, target'[g].data \in Objects
                 PROVE  producer[target'[g].data] = None
      BY <1>2 DEF TakenObjects
    <2>1. target'[g] = target[g] /\ pc[g] \in {"registered", "wait"}
      BY <1>4
    <2> QED BY <2>1 DEF DependencyInv, TakenObjects
  <1>7. SignaturesOK'
    BY <1>1, <1>2, <1>3 DEF DependencyInv, SignaturesOK
  <1>8. AnalysedFirst'
    <2> SUFFICES ASSUME NEW i \in 1 .. Len(apQueue'), apQueue'[i].type = "analyse"
                 PROVE  /\ pc'[apQueue'[i].thread] \notin {"registered", "wait"}
                        /\ \A j \in 1 .. Len(apQueue') :
                              /\ apQueue'[j].type = "register"
                              /\ apQueue'[j].thread = apQueue'[i].thread
                              => i < j
      BY DEF AnalysedFirst
    <2>1. i \in 1 .. Len(apQueue) /\ apQueue'[i] = apQueue[i] /\ apQueue[i].thread \in Threads
      BY <1>1, <1>3 DEF TypeInv, QueueOK
    <2>2. pc[apQueue[i].thread] \notin {"registered", "wait"}
      BY <2>1 DEF DependencyInv, AnalysedFirst
    <2>3. pc'[apQueue[i].thread] \notin {"registered", "wait"}
      BY <1>4, <2>1, <2>2
    <2>4. \A j \in 1 .. Len(apQueue') :
                              /\ apQueue'[j].type = "register"
                              /\ apQueue'[j].thread = apQueue'[i].thread
                              => i < j
      BY <1>3, <2>1 DEF DependencyInv, AnalysedFirst
    <2> QED BY <2>1, <2>3, <2>4
  <1> QED BY <1>5, <1>6, <1>7, <1>8 DEF DependencyInv

\* The analysis of a task: what it reads is produced by its predecessors, and it
\* writes no object that a main program has taken.
LEMMA ProcessTaskDependencyInv ==
    ASSUME PrivateObjects, TypeInv, PhaseInv, DependencyInv, ProcessTask
    PROVE  DependencyInv'
  <1>1. Takes("analyse") /\ apQueue' = Tail(apQueue)
    BY DEF ProcessTask
  <1>2. PICK t \in Tasks, h \in Threads :
           /\ Head(apQueue) = apQueue[1] /\ apQueue[1].type = "analyse" /\ 1 \in 1 .. Len(apQueue)
           /\ t = apQueue[1].task /\ h = apQueue[1].thread
    BY <1>1, QueueTail DEF TypeInv, QueueOK
  <1>3. /\ predecessors' = [predecessors EXCEPT ![t] = LastWriters(t)]
        /\ writers' = [d \in Data |-> IF d \in WrittenData(t) THEN t ELSE writers[d]]
        /\ needs' = [needs EXCEPT ![t] = {producer[d] : d \in ReadData(t)} \ {None}]
        /\ producer' = [d \in Data |-> IF d \in WrittenData(t) THEN t ELSE producer[d]]
        /\ tdQueue' = Append(tdQueue, t)
        /\ UNCHANGED <<pc, target, signature, status, pending, running, waitsFor>>
    BY <1>2 DEF ProcessTask, threadVars, stateVars, execVars
  <1>4. status[t] = "TO_ANALYSE" /\ ~ InQueue(tdQueue, t)
    BY <1>2 DEF PhaseInv, AnalysedOnce
  <1>5. /\ Len(tdQueue) \in Nat /\ Len(tdQueue') = Len(tdQueue) + 1
        /\ \A i \in 1 .. Len(tdQueue) : tdQueue'[i] = tdQueue[i] /\ tdQueue[i] \in Tasks
        /\ tdQueue'[Len(tdQueue) + 1] = t
    BY <1>2, <1>3, AppendFacts DEF TypeInv, TypeOK
  <1>6. \A d \in WrittenData(t) : d \in TaskData[h]
    BY <1>2 DEF WrittenData, Writes, DependencyInv, SignaturesOK
  <1>7. pc[h] \notin {"registered", "wait"}
    BY <1>2 DEF DependencyInv, AnalysedFirst
  <1>8. /\ \A p : Done(p)' <=> Done(p)
        /\ \A p : Known(p) => Known(p)'
        /\ Known(t)'
    BY <1>3, <1>5 DEF Done, Known, InQueue
  <1>9. SignaturesOK' /\ AnalysedFirst'
    BY <1>1, <1>3, RequestsFrame
  <1>10. TakenObjects'
    <2> SUFFICES ASSUME NEW g \in Threads, pc[g] \in {"registered", "wait"}, target[g].data \in Objects
                 PROVE  producer'[target[g].data] = None
      BY <1>3 DEF TakenObjects
    <2>1. target[g].data \in Data /\ target[g].data \in MainData[g]
      BY DEF TypeInv, TargetsOK
    <2>2. g # h
      BY <1>7
    <2>3. target[g].data \notin WrittenData(t)
      BY <1>2, <1>6, <2>1, <2>2 DEF PrivateObjects
    <2> QED BY <1>3, <2>1, <2>3 DEF DependencyInv, TakenObjects
  <1>11. WritersOK'
    <2> SUFFICES ASSUME NEW d \in Data, NEW p, p = producer'[d], p # None
                 PROVE  Known(p)' /\ (writers'[d] = p \/ Done(p)')
      BY DEF WritersOK
    <2>1. CASE d \in WrittenData(t)
      BY <1>3, <1>8, <2>1
    <2>2. CASE d \notin WrittenData(t)
      BY <1>3, <1>8, <2>2 DEF DependencyInv, WritersOK
    <2> QED BY <2>1, <2>2
  <1>12. NeedsAnalysed'
    <2> SUFFICES ASSUME NEW i \in 1 .. Len(tdQueue'), NEW p \in needs'[tdQueue'[i]]
                 PROVE  /\ p \in predecessors'[tdQueue'[i]] \/ Done(p)
                        /\ status[p] # "TO_ANALYSE" \/ \E j \in 1 .. i - 1 : tdQueue'[j] = p
      BY <1>3, <1>8 DEF NeedsAnalysed
    <2>1. CASE i \in 1 .. Len(tdQueue)
      <3>1. tdQueue'[i] = tdQueue[i] /\ tdQueue[i] # t /\ tdQueue[i] \in Tasks
        BY <1>4, <1>5, <2>1 DEF InQueue
      <3>2. needs'[tdQueue[i]] = needs[tdQueue[i]] /\ predecessors'[tdQueue[i]] = predecessors[tdQueue[i]]
        BY <1>3, <3>1 DEF TypeInv, TypeOK
      <3>3. /\ p \in predecessors[tdQueue[i]] \/ Done(p)
            /\ status[p] # "TO_ANALYSE" \/ \E j \in 1 .. i - 1 : tdQueue[j] = p
        BY <2>1, <3>1, <3>2 DEF DependencyInv, NeedsAnalysed
      <3> QED BY <1>5, <2>1, <3>1, <3>2, <3>3
    <2>2. CASE i = Len(tdQueue) + 1
      <3>1. tdQueue'[i] = t /\ predecessors'[t] = LastWriters(t) /\ needs'[t] = {producer[d] : d \in ReadData(t)} \ {None}
        BY <1>2, <1>3, <1>5, <2>2 DEF TypeInv, TypeOK
      <3>2. PICK d \in ReadData(t) : p = producer[d] /\ p # None
        BY <3>1
      <3>3. d \in Data /\ Known(p) /\ (writers[d] = p \/ Done(p))
        BY <3>2 DEF ReadData, DependencyInv, WritersOK
      <3>4. p \in predecessors'[t] \/ Done(p)
        BY <3>1, <3>2, <3>3 DEF LastWriters
      <3>5. status[p] # "TO_ANALYSE" \/ \E j \in 1 .. i - 1 : tdQueue'[j] = p
        BY <1>5, <2>2, <3>3 DEF Known, InQueue
      <3> QED BY <3>1, <3>4, <3>5
    <2> QED BY <1>5, <2>1, <2>2
  <1>13. NeedsSubmitted'
    <2> SUFFICES ASSUME NEW u \in Tasks, status[u] # "TO_ANALYSE", NEW p \in needs'[u]
                 PROVE  p \in waitsFor[u] \/ Done(p)
      BY <1>3, <1>8 DEF NeedsSubmitted
    <2>1. u # t /\ needs'[u] = needs[u]
      BY <1>3, <1>4 DEF TypeInv, TypeOK
    <2> QED BY <2>1 DEF DependencyInv, NeedsSubmitted
  <1>14. NothingToWaitFor'
    BY <1>3 DEF DependencyInv, NothingToWaitFor
  <1> QED BY <1>9, <1>10, <1>11, <1>12, <1>13, <1>14 DEF DependencyInv

\* The requests about tasks that have ended, and those that only release threads
\* or keep their semaphores.
LEMMA EndTaskDependencyInv ==
    ASSUME TypeInv, PhaseInv, DependencyInv, EndTask
    PROVE  DependencyInv'
  <1> DEFINE t == apQueue[1].task
             a == AppOf[owner[t]]
  <1>1. Takes("end") /\ apQueue' = Tail(apQueue)
    BY DEF EndTask
  <1>2. Head(apQueue) = apQueue[1] /\ apQueue[1].type = "end" /\ t \in Tasks /\ 1 \in 1 .. Len(apQueue)
    BY <1>1, QueueTail DEF TypeInv, QueueOK
  <1>3. UNCHANGED <<signature, tdQueue, status, pending, running, waitsFor, needs, producer, writers>>
    BY DEF EndTask, stateVars, execVars
  <1>4. \/ UNCHANGED <<callVars, predecessors>>
        \/ executionCount[t] = 0 /\ TreatEnd(t, a)
    BY <1>2 DEF EndTask
  <1>5. /\ \A g \in Threads : \/ pc'[g] \in {"running", "ended"}
                              \/ pc'[g] = pc[g] /\ target'[g] = target[g]
        /\ \A u \in Tasks : \A p \in predecessors[u] : p \in predecessors'[u] \/ Done(p)
    <2>1. CASE UNCHANGED <<callVars, predecessors>>
      BY <2>1 DEF callVars
    <2>2. CASE executionCount[t] = 0 /\ TreatEnd(t, a)
      <3>1. Done(t)
        BY <1>2, <2>2 DEF Done, PhaseInv, EndsOK, TypeInv, ExecutionsOK
      <3>2. predecessors' = [u \in Tasks |-> predecessors[u] \ {t}] /\ Return(Released(t, a))
        BY <2>2 DEF TreatEnd
      <3> QED BY <3>1, <3>2, ReturnFacts
    <2> QED BY <1>4, <2>1, <2>2
  <1>6. SignaturesOK' /\ AnalysedFirst' /\ TakenObjects'
    BY <1>1, <1>3, <1>5, AccessFrame
  <1>7. WritersOK' /\ NeedsAnalysed' /\ NeedsSubmitted' /\ NothingToWaitFor'
    BY <1>3, <1>5, DependencyFrame
  <1> QED BY <1>6, <1>7 DEF DependencyInv

\* A barrier, or the end of an application.
LEMMA SynchroniseDependencyInv ==
    ASSUME TypeInv, DependencyInv, NEW type, Synchronise(type)
    PROVE  DependencyInv'
  <1>1. Takes(type) /\ apQueue' = Tail(apQueue)
    BY DEF Synchronise
  <1>2. UNCHANGED <<signature, tdQueue, status, pending, running, waitsFor, needs, predecessors,
                    producer, writers>>
    BY DEF Synchronise, taskVars, stateVars, execVars
  <1>3. \A g \in Threads : pc'[g] \in {"running", "ended"} \/ (pc'[g] = pc[g] /\ target'[g] = target[g])
    <2>1. CASE UNCHANGED callVars
      BY <2>1 DEF callVars
    <2>2. CASE Return({Head(apQueue).thread})
      BY <2>2, ReturnFacts
    <2> QED BY <2>1, <2>2 DEF Synchronise
  <1>4. SignaturesOK' /\ AnalysedFirst' /\ TakenObjects'
    BY <1>1, <1>2, <1>3, AccessFrame
  <1>5. WritersOK' /\ NeedsAnalysed' /\ NeedsSubmitted' /\ NothingToWaitFor'
    BY <1>2, DependencyFrame
  <1> QED BY <1>4, <1>5 DEF DependencyInv

\* An access that is registered: the tasks of the thread were analysed before, and
\* an object that it takes has no producer any more.
LEMMA RegisterDataAccessDependencyInv ==
    ASSUME TypeInv, DependencyInv, RegisterDataAccess
    PROVE  DependencyInv'
  <1>1. Takes("register") /\ apQueue' = Tail(apQueue)
    BY DEF RegisterDataAccess
  <1>2. PICK h \in Threads :
           /\ Head(apQueue) = apQueue[1] /\ 1 \in 1 .. Len(apQueue) /\ apQueue[1].type = "register"
           /\ h = apQueue[1].thread /\ pc[h] = "register"
    BY <1>1, QueueTail DEF TypeInv, QueueOK, Blocking
  <1>3. /\ pc' = [pc EXCEPT ![h] = "registered"]
        /\ producer' = IF Writes(target[h].mode)
                       THEN [producer EXCEPT ![target[h].data] = None] ELSE producer
        /\ UNCHANGED <<target, signature, tdQueue, status, pending, running, waitsFor, needs, predecessors,
                       writers>>
    BY <1>2 DEF RegisterDataAccess, taskVars, stateVars, execVars
  <1>4. /\ target[h].data \in Data
        /\ target[h].data \in Objects => target[h].mode = "RW"
    BY <1>2 DEF TypeInv, TargetsOK
  <1>5. /\ pc'[h] = "registered" /\ \A g \in Threads : g # h => pc'[g] = pc[g]
        /\ \A d \in Data : producer'[d] \in {producer[d], None}
        /\ target[h].data \in Objects => producer'[target[h].data] = None
    BY <1>3, <1>4 DEF TypeInv, TypeOK, Writes
  <1>6. WritersOK' /\ NeedsAnalysed' /\ NeedsSubmitted' /\ NothingToWaitFor'
    BY <1>3, <1>5, DependencyFrame
  <1>7. TakenObjects'
    <2> SUFFICES ASSUME NEW g \in Threads, pc'[g] \in {"registered", "wait"}, target[g].data \in Objects
                 PROVE  producer'[target[g].data] = None
      BY <1>3 DEF TakenObjects
    <2>1. CASE g = h
      BY <1>5, <2>1
    <2>2. CASE g # h
      <3>1. target[g].data \in Data /\ producer[target[g].data] = None
        BY <1>5, <2>2 DEF TypeInv, TargetsOK, DependencyInv, TakenObjects
      <3> QED BY <1>5, <3>1
    <2> QED BY <2>1, <2>2
  <1>8. SignaturesOK'
    <2> SUFFICES ASSUME NEW i \in 1 .. Len(apQueue'), apQueue'[i].type = "analyse", NEW d \in Data,
                        signature[apQueue'[i].task][d] # "none"
                 PROVE  d \in TaskData[apQueue'[i].thread]
      BY <1>3 DEF SignaturesOK
    <2>1. apQueue'[i] = apQueue[i + 1] /\ i + 1 \in 1 .. Len(apQueue)
      BY <1>1, QueueTail DEF TypeInv
    <2> QED BY <2>1 DEF DependencyInv, SignaturesOK
  <1>9. AnalysedFirst'
    <2> SUFFICES ASSUME NEW i \in 1 .. Len(apQueue'), apQueue'[i].type = "analyse"
                 PROVE  /\ pc'[apQueue'[i].thread] \notin {"registered", "wait"}
                        /\ \A j \in 1 .. Len(apQueue') :
                              /\ apQueue'[j].type = "register"
                              /\ apQueue'[j].thread = apQueue'[i].thread
                              => i < j
      BY DEF AnalysedFirst
    <2>1. apQueue'[i] = apQueue[i + 1] /\ i + 1 \in 1 .. Len(apQueue) /\ ~ (i + 1 < 1)
          /\ apQueue[i + 1].thread \in Threads
      BY <1>1, QueueTail DEF TypeInv, QueueOK
    <2>2. pc[apQueue[i + 1].thread] \notin {"registered", "wait"} /\ apQueue[i + 1].thread # h
      BY <1>2, <2>1 DEF DependencyInv, AnalysedFirst
    <2>3. ASSUME NEW j \in 1 .. Len(apQueue'), apQueue'[j].type = "register",
                 apQueue'[j].thread = apQueue'[i].thread
          PROVE  i < j
      <3>1. apQueue'[j] = apQueue[j + 1] /\ j + 1 \in 1 .. Len(apQueue)
        BY <1>1, QueueTail DEF TypeInv
      <3>2. i + 1 < j + 1
        BY <2>1, <2>3, <3>1 DEF DependencyInv, AnalysedFirst
      <3> QED BY <3>2
    <2> QED BY <1>5, <2>1, <2>2, <2>3
  <1> QED BY <1>6, <1>7, <1>8, <1>9 DEF DependencyInv

\* A thread that asks for its datum: the writer of an object is forgotten when no
\* task produces it.
LEMMA FindWaitedTaskDependencyInv ==
    ASSUME TypeInv, DependencyInv, FindWaitedTask
    PROVE  DependencyInv'
  <1>1. Takes("wait") /\ apQueue' = Tail(apQueue)
    BY DEF FindWaitedTask
  <1>2. PICK h \in Threads : Head(apQueue) = apQueue[1] /\ h = apQueue[1].thread /\ pc[h] = "wait"
    BY <1>1, QueueTail DEF TypeInv, QueueOK, Blocking
  <1>3. /\ writers' = IF target[h].data \in Objects
                      THEN [writers EXCEPT ![target[h].data] = None] ELSE writers
        /\ UNCHANGED <<signature, tdQueue, status, pending, running, waitsFor, needs, predecessors, producer>>
        /\ Return({h}) \/ UNCHANGED callVars
    BY <1>2 DEF FindWaitedTask, taskVars, stateVars, execVars
  <1>4. \A g \in Threads : pc'[g] \in {"running", "ended"} \/ (pc'[g] = pc[g] /\ target'[g] = target[g])
    BY <1>3, ReturnFacts DEF callVars
  <1>5. \A d \in Data : producer'[d] # None => writers'[d] = writers[d]
    BY <1>2, <1>3 DEF TypeInv, TypeOK, DependencyInv, TakenObjects
  <1>6. SignaturesOK' /\ AnalysedFirst' /\ TakenObjects'
    BY <1>1, <1>3, <1>4, AccessFrame
  <1>7. WritersOK' /\ NeedsAnalysed' /\ NeedsSubmitted' /\ NothingToWaitFor'
    BY <1>3, <1>5, DependencyFrame
  <1> QED BY <1>6, <1>7 DEF DependencyInv

\* The steps of the TD do not touch what the AP knows of accesses.
LEMMA ExecutionFrame ==
    ASSUME TypeInv, DependencyInv, UNCHANGED <<signature, needs, predecessors, producer, writers, pc, target>>
    PROVE  /\ TakenObjects'
           /\ apQueue' = apQueue => SignaturesOK' /\ AnalysedFirst'
  <1>1. TakenObjects'
    BY DEF DependencyInv, TakenObjects
  <1>2. ASSUME apQueue' = apQueue PROVE SignaturesOK' /\ AnalysedFirst'
    BY <1>2 DEF DependencyInv, SignaturesOK, AnalysedFirst
  <1> QED BY <1>1, <1>2

\* The executions of a task wait for every producer that is not done: the TD takes
\* the tasks in the order in which they were analysed.
LEMMA SubmitDependencyInv ==
    ASSUME TypeInv, PhaseInv, DependencyInv, SubmitExecutions
    PROVE  DependencyInv'
  <1>1. tdQueue \in Seq(Tasks) /\ tdQueue # << >> /\ tdQueue' = Tail(tdQueue)
    BY DEF SubmitExecutions, TypeInv, TypeOK
  <1>2. PICK t \in Tasks : t = tdQueue[1] /\ Head(tdQueue) = t /\ 1 \in 1 .. Len(tdQueue)
    BY <1>1, TailFacts
  <1>3. /\ Len(tdQueue) \in Nat /\ Len(tdQueue') = Len(tdQueue) - 1
        /\ \A i \in 1 .. Len(tdQueue') : tdQueue'[i] = tdQueue[i + 1] /\ i + 1 \in 1 .. Len(tdQueue)
        /\ \A i \in 1 .. Len(tdQueue) : tdQueue[i] \in Tasks
    BY <1>1, TailFacts
  <1>4. /\ status' = [status EXCEPT ![t] = "TO_EXECUTE"]
        /\ pending' = [pending EXCEPT ![t] = Executions[t]]
        /\ waitsFor' = [waitsFor EXCEPT ![t] = {p \in predecessors[t] : pending[p] > 0}]
        /\ UNCHANGED <<running, apQueue, signature, needs, predecessors, producer, writers, pc, target>>
    BY <1>2 DEF SubmitExecutions, threadVars, taskVars, historyVars
  <1>5. status[t] = "TO_ANALYSE" /\ pending[t] = 0 /\ running[t] = 0
    BY <1>2 DEF PhaseInv, AnalysedOnce, StatusOK, TypeInv, TypeOK, ExecutionsOK
  <1>6. /\ \A u \in Tasks : u # t => /\ status'[u] = status[u] /\ pending'[u] = pending[u]
                                     /\ waitsFor'[u] = waitsFor[u]
        /\ status'[t] = "TO_EXECUTE"
        /\ waitsFor'[t] = {p \in predecessors[t] : pending[p] > 0}
    BY <1>4 DEF TypeInv, TypeOK
  <1>7. \A p \in Tasks : Done(p) => Done(p)'
    BY <1>5, <1>6 DEF Done
  <1>8. \A p \in Tasks : Known(p) => Known(p)'
    <2> SUFFICES ASSUME NEW p \in Tasks, Known(p), p # t, status[p] = "TO_ANALYSE"
                 PROVE  InQueue(tdQueue', p)
      BY <1>6 DEF Known
    <2>1. PICK i \in 1 .. Len(tdQueue) : tdQueue[i] = p
      BY DEF Known, InQueue
    <2>2. i - 1 \in 1 .. Len(tdQueue') /\ (i - 1) + 1 = i
      BY <1>2, <1>3, <2>1
    <2> QED BY <1>3, <2>1, <2>2 DEF InQueue
  <1>9. SignaturesOK' /\ AnalysedFirst' /\ TakenObjects'
    BY <1>4, ExecutionFrame
  <1>10. WritersOK'
    <2> SUFFICES ASSUME NEW d \in Data, NEW p, p = producer[d], p # None
                 PROVE  Known(p)' /\ (writers[d] = p \/ Done(p)')
      BY <1>4 DEF WritersOK
    <2>1. p \in Tasks
      BY DEF TypeInv, TypeOK
    <2> QED BY <1>7, <1>8, <2>1 DEF DependencyInv, WritersOK
  <1>11. NeedsAnalysed'
    <2> SUFFICES ASSUME NEW i \in 1 .. Len(tdQueue'), NEW p \in needs[tdQueue'[i]]
                 PROVE  /\ p \in predecessors[tdQueue'[i]] \/ Done(p)'
                        /\ status'[p] # "TO_ANALYSE" \/ \E j \in 1 .. i - 1 : tdQueue'[j] = p
      BY <1>4 DEF NeedsAnalysed
    <2>1. /\ tdQueue'[i] = tdQueue[i + 1] /\ i + 1 \in 1 .. Len(tdQueue) /\ tdQueue[i + 1] \in Tasks
      BY <1>3
    <2>2. p \in Tasks
      BY <2>1 DEF TypeInv, TypeOK
    <2>3. /\ p \in predecessors[tdQueue[i + 1]] \/ Done(p)
          /\ status[p] # "TO_ANALYSE" \/ \E j \in 1 .. (i + 1) - 1 : tdQueue[j] = p
      BY <2>1 DEF DependencyInv, NeedsAnalysed
    <2>4. ASSUME NEW j \in 1 .. (i + 1) - 1, tdQueue[j] = p, p # t
          PROVE  j - 1 \in 1 .. i - 1 /\ tdQueue'[j - 1] = p
      <3>1. j # 1 /\ j - 1 \in 1 .. i - 1 /\ j - 1 \in 1 .. Len(tdQueue') /\ (j - 1) + 1 = j
        BY <1>2, <1>3, <2>1, <2>4
      <3> QED BY <1>3, <2>4, <3>1
    <2> QED BY <1>6, <1>7, <2>1, <2>2, <2>3, <2>4
  <1>12. NeedsSubmitted'
    <2> SUFFICES ASSUME NEW u \in Tasks, status'[u] # "TO_ANALYSE", NEW p \in needs[u]
                 PROVE  p \in waitsFor'[u] \/ Done(p)'
      BY <1>4 DEF NeedsSubmitted
    <2>1. p \in Tasks
      BY DEF TypeInv, TypeOK
    <2>2. CASE u # t
      BY <1>6, <1>7, <2>1, <2>2 DEF DependencyInv, NeedsSubmitted
    <2>3. CASE u = t
      <3>1. (p \in predecessors[t] \/ Done(p)) /\ status[p] # "TO_ANALYSE"
        BY <1>2, <2>3 DEF DependencyInv, NeedsAnalysed
      <3>2. pending[p] > 0 \/ Done(p)
        BY <2>1, <3>1 DEF PhaseInv, StatusOK, Done, TypeInv, TypeOK, States
      <3> QED BY <1>6, <1>7, <2>1, <2>3, <3>1, <3>2
    <2> QED BY <2>2, <2>3
  <1>13. NothingToWaitFor'
    BY <1>4, <1>5, <1>6 DEF DependencyInv, NothingToWaitFor
  <1> QED BY <1>9, <1>10, <1>11, <1>12, <1>13 DEF DependencyInv

\* The end of an execution: who is removed from the tasks that are waited for is
\* done.
LEMMA EndExecutionDependencyInv ==
    ASSUME TypeInv, PhaseInv, DependencyInv, NEW t \in Tasks, CompleteExecution(t) \/ FailExecution(t)
    PROVE  DependencyInv'
  <1> DEFINE r == Request("end", t, None)
  <1>1. r \in Requests /\ r.type = "end"
    BY DEF Request, Requests
  <1>2. PICK result \in {"FINISHED", "FAILED"} : EndExecution(t, result)
    BY DEF CompleteExecution, FailExecution
  <1>3. /\ apQueue' = Append(apQueue, r)
        /\ running[t] > 0
        /\ running' = [running EXCEPT ![t] = @ - 1]
        /\ pending' = [pending EXCEPT ![t] = @ - 1]
        /\ status' = [status EXCEPT ![t] = result]
        /\ UNCHANGED <<tdQueue, signature, needs, predecessors, producer, writers, pc, target>>
    BY <1>2 DEF EndExecution, threadVars, taskVars, historyVars
  <1> HIDE DEF r
  <1>4. pending[t] > 0 /\ status[t] # "TO_ANALYSE"
    BY <1>3, RunningFacts
  <1>5. /\ \A u \in Tasks : u # t => status'[u] = status[u] /\ pending'[u] = pending[u] /\ running'[u] = running[u]
        /\ status'[t] = result /\ pending'[t] = pending[t] - 1 /\ running'[t] = running[t] - 1
    BY <1>3 DEF TypeInv, TypeOK
  <1>6. \A p \in Tasks : (Done(p) => Done(p)') /\ (Known(p) => Known(p)')
    BY <1>3, <1>4, <1>5 DEF Done, Known
  <1>7. \/ waitsFor' = waitsFor
        \/ Done(t)' /\ waitsFor' = [u \in Tasks |-> waitsFor[u] \ {t}]
    BY <1>5 DEF CompleteExecution, FailExecution, Done
  <1>8. TakenObjects'
    BY <1>3, ExecutionFrame
  <1>9. SignaturesOK'
    BY <1>1, <1>3, QueueAppend DEF TypeInv, DependencyInv, SignaturesOK
  <1>10. AnalysedFirst'
    BY <1>1, <1>3, QueueAppend DEF TypeInv, DependencyInv, AnalysedFirst
  <1>11. WritersOK'
    <2> SUFFICES ASSUME NEW d \in Data, NEW p, p = producer[d], p # None
                 PROVE  Known(p)' /\ (writers[d] = p \/ Done(p)')
      BY <1>3 DEF WritersOK
    <2>1. p \in Tasks
      BY DEF TypeInv, TypeOK
    <2> QED BY <1>6, <2>1 DEF DependencyInv, WritersOK
  <1>12. NeedsAnalysed'
    <2> SUFFICES ASSUME NEW i \in 1 .. Len(tdQueue), NEW p \in needs[tdQueue[i]]
                 PROVE  /\ p \in predecessors[tdQueue[i]] \/ Done(p)'
                        /\ status'[p] # "TO_ANALYSE" \/ \E j \in 1 .. i - 1 : tdQueue[j] = p
      BY <1>3 DEF NeedsAnalysed
    <2>0. tdQueue[i] \in Tasks
      BY DEF TypeInv, TypeOK
    <2>1. p \in Tasks
      BY <2>0 DEF TypeInv, TypeOK
    <2> QED BY <1>5, <1>6, <2>1 DEF DependencyInv, NeedsAnalysed
  <1>13. NeedsSubmitted'
    <2> SUFFICES ASSUME NEW u \in Tasks, status'[u] # "TO_ANALYSE", NEW p \in needs[u]
                 PROVE  p \in waitsFor'[u] \/ Done(p)'
      BY <1>3 DEF NeedsSubmitted
    <2>1. p \in Tasks /\ status[u] # "TO_ANALYSE"
      BY <1>4, <1>5 DEF TypeInv, TypeOK
    <2>2. p \in waitsFor[u] \/ Done(p)
      BY <2>1 DEF DependencyInv, NeedsSubmitted
    <2> QED BY <1>6, <1>7, <2>1, <2>2
  <1>14. NothingToWaitFor'
    BY <1>3, <1>5, <1>7 DEF DependencyInv, NothingToWaitFor, TypeInv, TypeOK
  <1> QED BY <1>8, <1>9, <1>10, <1>11, <1>12, <1>13, <1>14 DEF DependencyInv

\* With private objects, DependencyInv is inductive relative to TypeInv and PhaseInv.
LEMMA NextDependencyInv ==
    ASSUME PrivateObjects, TypeInv, PhaseInv, DependencyInv, [Next]_vars
    PROVE  DependencyInv'
  <1>1. ASSUME NEW h \in Threads, NEW sig \in Signatures, ExecuteTask(h, sig)
        PROVE  DependencyInv'
    BY <1>1, ExecuteTaskDependencyInv
  <1>2. ASSUME NEW h \in Threads, Barrier(h) \/ NoMoreTasks(h)
        PROVE  DependencyInv'
    <2>1. PICK type \in {"barrier", "endOfApp"} : Ask(h, type) /\ target' = target
      BY <1>2 DEF Barrier, NoMoreTasks
    <2> QED BY <2>1, AskDependencyInv DEF Blocking
  <1>3. ASSUME NEW h \in Threads, NEW d \in Data, NEW m \in Modes, MainAccess(h, d, m)
        PROVE  DependencyInv'
    <2>1. pc[h] = "running" /\ Ask(h, "register") /\ \A g \in Threads : g # h => target'[g] = target[g]
      BY <1>3 DEF MainAccess, TypeInv, TypeOK
    <2> QED BY <2>1, AskDependencyInv DEF Blocking
  <1>4. ASSUME NEW h \in Threads, WaitForTask(h)
        PROVE  DependencyInv'
    <2>1. CASE Ask(h, "wait") /\ target' = target
      BY <1>4, <2>1, AskDependencyInv DEF Blocking, WaitForTask
    <2>2. CASE /\ Return({h})
               /\ UNCHANGED <<apQueue, tdQueue, taskVars, stateVars, execVars, writers, producer, needs>>
      <3>1. UNCHANGED <<apQueue, signature, tdQueue, status, pending, running, waitsFor, needs, predecessors,
                        producer, writers>>
        BY <2>2 DEF taskVars, stateVars, execVars
      <3>2. \A g \in Threads : pc'[g] \in {"running", "ended"} \/ (pc'[g] = pc[g] /\ target'[g] = target[g])
        BY <2>2, ReturnFacts
      <3>3. SignaturesOK' /\ AnalysedFirst' /\ TakenObjects'
        BY <3>1, <3>2, AccessFrame
      <3>4. WritersOK' /\ NeedsAnalysed' /\ NeedsSubmitted' /\ NothingToWaitFor'
        BY <3>1, DependencyFrame
      <3> QED BY <3>3, <3>4 DEF DependencyInv
    <2> QED BY <1>4, <2>1, <2>2 DEF WaitForTask
  <1>5. CASE ProcessTask
    BY <1>5, ProcessTaskDependencyInv
  <1>6. CASE EndTask
    BY <1>6, EndTaskDependencyInv
  <1>7. CASE BarrierRequest \/ EndOfAppRequest
    BY <1>7, SynchroniseDependencyInv DEF BarrierRequest, EndOfAppRequest
  <1>8. CASE RegisterDataAccess
    BY <1>8, RegisterDataAccessDependencyInv
  <1>9. CASE FindWaitedTask
    BY <1>9, FindWaitedTaskDependencyInv
  <1>10. CASE SubmitExecutions
    BY <1>10, SubmitDependencyInv
  <1>11. ASSUME NEW t \in Tasks, StartExecution(t)
         PROVE  DependencyInv'
    <2>1. /\ UNCHANGED <<apQueue, signature, tdQueue, status, pending, waitsFor, needs, predecessors,
                         producer, writers, pc, target>>
          /\ waitsFor[t] = {} /\ running' = [running EXCEPT ![t] = @ + 1]
      BY <1>11 DEF StartExecution, threadVars, taskVars, stateVars, historyVars
    <2>2. SignaturesOK' /\ AnalysedFirst' /\ TakenObjects'
      BY <2>1, ExecutionFrame
    <2>3. WritersOK' /\ NeedsAnalysed' /\ NeedsSubmitted'
      BY <2>1 DEF DependencyInv, WritersOK, NeedsAnalysed, NeedsSubmitted, Known, Done, InQueue
    <2>4. NothingToWaitFor'
      BY <2>1 DEF DependencyInv, NothingToWaitFor, TypeInv, TypeOK
    <2> QED BY <2>2, <2>3, <2>4 DEF DependencyInv
  <1>12. ASSUME NEW t \in Tasks, CompleteExecution(t) \/ FailExecution(t)
         PROVE  DependencyInv'
    BY <1>12, EndExecutionDependencyInv
  <1>13. CASE Shutdown \/ UNCHANGED vars
    <2>1. UNCHANGED <<apQueue, signature, tdQueue, status, pending, running, waitsFor, needs, predecessors,
                      producer, writers, pc, target>>
      BY <1>13 DEF Shutdown, vars, threadVars, taskVars, stateVars, execVars, historyVars
    <2>2. SignaturesOK' /\ AnalysedFirst' /\ TakenObjects'
      BY <2>1, ExecutionFrame
    <2>3. WritersOK' /\ NeedsAnalysed' /\ NeedsSubmitted' /\ NothingToWaitFor'
      BY <2>1, DependencyFrame
    <2> QED BY <2>2, <2>3 DEF DependencyInv
  <1> QED
    BY <1>1, <1>2, <1>3, <1>4, <1>5, <1>6, <1>7, <1>8, <1>9, <1>10, <1>11, <1>12, <1>13
    DEF Next, ThreadStep, APStep

\* For every number of tasks, threads, data and executions of a task: no execution
\* of a task runs before all the executions of each task that produces a version
\* that it reads have ended, provided that the objects a main program accesses are
\* used by the tasks of that program only.
THEOREM ExecutionsWaitForProducers ==
    ASSUME PrivateObjects
    PROVE  Spec => []DependenciesRespected
  <1>1. Init => TypeInv /\ PhaseInv /\ DependencyInv
    BY InitTypeInv, InitPhaseInv, InitDependencyInv
  <1>2. TypeInv /\ PhaseInv /\ DependencyInv /\ [Next]_vars => (TypeInv /\ PhaseInv /\ DependencyInv)'
    BY NextTypeInv, NextDependencyInv
  <1>3. TypeInv /\ PhaseInv /\ DependencyInv => DependenciesRespected
    <2> SUFFICES ASSUME TypeInv, PhaseInv, DependencyInv,
                        NEW t \in Tasks, running[t] > 0, NEW p \in needs[t]
                 PROVE  Done(p)
      BY DEF DependenciesRespected
    <2>1. status[t] # "TO_ANALYSE" /\ waitsFor[t] = {}
      BY RunningFacts DEF DependencyInv, NothingToWaitFor
    <2> QED BY <2>1 DEF DependencyInv, NeedsSubmitted
  <1> QED BY <1>1, <1>2, <1>3, PTL DEF Spec

=============================================================================
