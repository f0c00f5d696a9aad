---------------------- MODULE TaskAnalyserLife_proofs ----------------------
(***************************************************************************)
(* Theorems of TaskAnalyser for tasks that have one execution: what the    *)
(* runtime reports about the end of a task, counts and waits for, and that *)
(* it implements Dataflow.                                                 *)
(*                                                                         *)
(* RequestsInv describes the queue of the Access Processor: no request is  *)
(* in it twice, and the requests to analyse the tasks of a thread are in   *)
(* the order of the tasks and before the request that the thread is blocked*)
(* on. LifeInv says what is known of each task from the moment its         *)
(* execution ends until its end is treated, and that the count of each     *)
(* application is a number of tasks. Both are inductive relative to TypeInv*)
(* and PhaseInv of TaskAnalyser_proofs, and NoLostWakeup is inductive      *)
(* relative to all of them.                                                *)
(*                                                                         *)
(* AccessInv is inductive relative to these invariants, for data that a    *)
(* main program shares with no other thread: the producer of the version   *)
(* that a thread has been given is still the last writer of the datum when *)
(* the second request of the access, the one that waits, looks it up. Then *)
(* every step of TaskAnalyser is mapped to one of Dataflow.                *)
(*                                                                         *)
(* With several executions LifeInv is false: the notification of one       *)
(* execution reads the count that the others have left, and an end is      *)
(* treated twice.                                                          *)
(***************************************************************************)
EXTENDS TaskAnalyserRefinement, TaskAnalyser_proofs, FiniteSetTheorems

\* Hypotheses of the theorems: tasks are not replicated, and no two threads work
\* for the same application.
SingleExecution == \A t \in Tasks : Executions[t] = 1
OneThreadPerApp == \A h, g \in Threads : AppOf[h] = AppOf[g] => h = g

-----------------------------------------------------------------------------
(* The requests *)

AnalyseAsked(t) == InQueue(apQueue, Request("analyse", t, owner[t]))
EndAsked(t)     == InQueue(apQueue, Request("end", t, None))

NoDuplicates ==
    \A i, j \in 1 .. Len(apQueue) : apQueue[i] = apQueue[j] => i = j

\* A request is about one task or about one thread.
FormsOK ==
    \A i \in 1 .. Len(apQueue) :
        /\ apQueue[i].type = "analyse" =>
              apQueue[i] = Request("analyse", apQueue[i].task, owner[apQueue[i].task])
        /\ apQueue[i].type = "end" => apQueue[i] = Request("end", apQueue[i].task, None)
        /\ apQueue[i].type \in Blocking =>
              apQueue[i] = Request(apQueue[i].type, None, apQueue[i].thread)

\* A thread that is not running asked for the analysis of all its tasks before the
\* request that it is blocked on.
AnalysesAhead ==
    \A i \in 1 .. Len(apQueue) :
        apQueue[i].type = "analyse" =>
            \/ pc[apQueue[i].thread] = "running"
            \/ \E j \in 1 .. Len(apQueue) : /\ i < j
                                            /\ apQueue[j].type \in Blocking
                                            /\ apQueue[j].thread = apQueue[i].thread

\* Tasks are analysed in the order of their identifiers.
AnalysesInOrder ==
    \A i, j \in 1 .. Len(apQueue) :
        /\ apQueue[i].type = "analyse"
        /\ apQueue[j].type = "analyse"
        /\ i < j
        => apQueue[i].task < apQueue[j].task

RequestsInv == NoDuplicates /\ FormsOK /\ AnalysesAhead /\ AnalysesInOrder

-----------------------------------------------------------------------------
(* The life of a task *)

\* The execution of a task ends once; its end is on its way to the Access Processor,
\* or has been treated, or was a failure that stops the runtime.
TaskLife(t) ==
    /\ owner[t] # None => t < nextTask
    /\ ended[t] \in {0, 1}
    /\ ended[t] = 1 => status[t] = "FINISHED"
    /\ EndAsked(t) => ended[t] = 0 /\ status[t] \in {"FINISHED", "FAILED"}
    /\ pending[t] = IF status[t] = "TO_EXECUTE" THEN 1 ELSE 0
    /\ status[t] = "FAILED" <=> t \in failed
    /\ status[t] = "FAILED" => halt # "no" \/ EndAsked(t)
    /\ status[t] = "FINISHED" => ended[t] = 1 \/ EndAsked(t)

\* The count of an application is exact, and the application is in the map while it
\* has tasks.
CountOK(a) ==
    /\ taskCount[a] = Cardinality(Unended(a))
    /\ taskCount[a] # 0 => a \in counted

LifeInv ==
    /\ \A t \in Tasks : TaskLife(t)
    /\ \A a \in Apps : CountOK(a)

-----------------------------------------------------------------------------
(* The requests in the queue *)

\* A request is in the queue after an Append if it was, or is the one appended.
LEMMA AskedAppend ==
    ASSUME TypeOK, NEW r \in Requests, apQueue' = Append(apQueue, r), NEW x
    PROVE  InQueue(apQueue', x) <=> InQueue(apQueue, x) \/ x = r
  <1>1. /\ Len(apQueue) \in Nat /\ Len(apQueue') = Len(apQueue) + 1
        /\ \A i \in 1 .. Len(apQueue) : apQueue'[i] = apQueue[i]
        /\ apQueue'[Len(apQueue) + 1] = r
    BY QueueAppend
  <1> QED BY <1>1 DEF InQueue

\* The request that the AP takes is not in the queue any more, and only that one.
LEMMA AskedTail ==
    ASSUME TypeOK, NoDuplicates, NEW type, Takes(type), apQueue' = Tail(apQueue), NEW x
    PROVE  InQueue(apQueue', x) <=> InQueue(apQueue, x) /\ x # apQueue[1]
  <1>1. /\ Len(apQueue) \in Nat /\ Len(apQueue) >= 1 /\ Len(apQueue') = Len(apQueue) - 1
        /\ \A i \in 1 .. Len(apQueue') : apQueue'[i] = apQueue[i + 1] /\ i + 1 \in 1 .. Len(apQueue)
    BY QueueTail
  <1>2. ASSUME InQueue(apQueue', x) PROVE InQueue(apQueue, x) /\ x # apQueue[1]
    BY <1>1, <1>2 DEF InQueue, NoDuplicates
  <1>3. ASSUME InQueue(apQueue, x), x # apQueue[1] PROVE InQueue(apQueue', x)
    <2>1. PICK i \in 1 .. Len(apQueue) : apQueue[i] = x
      BY <1>3 DEF InQueue
    <2>2. i - 1 \in 1 .. Len(apQueue') /\ apQueue'[i - 1] = apQueue[i - 1 + 1] /\ i - 1 + 1 = i
      BY <1>1, <1>3, <2>1
    <2> QED BY <2>1, <2>2 DEF InQueue
  <1> QED BY <1>2, <1>3

\* Requests that differ in a field are different.
LEMMA RequestFacts ==
    ASSUME NEW a, NEW b, NEW c, NEW x, NEW y, NEW z
    PROVE  /\ Request(a, b, c) = Request(x, y, z) <=> a = x /\ b = y /\ c = z
           /\ Request(a, b, c).type = a
           /\ Request(a, b, c).task = b
           /\ Request(a, b, c).thread = c
  BY DEF Request

\* A thread that is neither running nor asking has no task left to analyse.
LEMMA NothingToAnalyse ==
    ASSUME RequestsInv, NEW g \in Threads, pc[g] # "running", NotAsking(g)
    PROVE  \A i \in 1 .. Len(apQueue) : apQueue[i].type = "analyse" => apQueue[i].thread # g
  BY DEF RequestsInv, AnalysesAhead, NotAsking

\* Nor has the thread of the blocking request that the AP takes.
LEMMA NothingToAnalyseFirst ==
    ASSUME TypeInv, RequestsInv, NEW type \in Blocking, Takes(type), apQueue' = Tail(apQueue)
    PROVE  \A i \in 1 .. Len(apQueue) :
              apQueue[i].type = "analyse" => apQueue[i].thread # apQueue[1].thread
  <1>1. 1 \in 1 .. Len(apQueue) /\ apQueue[1].type = type /\ pc[apQueue[1].thread] = type
    BY QueueTail, TailAsking DEF TypeInv
  <1> SUFFICES ASSUME NEW i \in 1 .. Len(apQueue), apQueue[i].type = "analyse",
                      apQueue[i].thread = apQueue[1].thread
               PROVE  FALSE
    OBVIOUS
  <1>2. type # "running"
    BY DEF Blocking
  <1>3. PICK j \in 1 .. Len(apQueue) : /\ i < j
                                       /\ apQueue[j].type \in Blocking
                                       /\ apQueue[j].thread = apQueue[i].thread
    BY <1>1, <1>2 DEF RequestsInv, AnalysesAhead
  <1>4. j = 1
    BY <1>1, <1>3 DEF TypeInv, OneRequest
  <1> QED BY <1>3, <1>4

\* The initial states.
LEMMA InitRequestsInv == Init => RequestsInv
  BY DEF Init, RequestsInv, NoDuplicates, FormsOK, AnalysesAhead, AnalysesInOrder

\* A step that leaves the queue alone and wakes up only threads.
LEMMA SameRequestsInv ==
    ASSUME TypeInv, RequestsInv, UNCHANGED <<apQueue, owner>>,
           \A g \in Threads : \/ pc'[g] \in {pc[g], "running"}
                              \/ pc[g] # "running" /\ NotAsking(g)
    PROVE  RequestsInv'
  <1>1. NoDuplicates' /\ FormsOK' /\ AnalysesInOrder'
    BY DEF RequestsInv, NoDuplicates, FormsOK, AnalysesInOrder
  <1>2. \A i \in 1 .. Len(apQueue) : apQueue[i].type = "analyse" => apQueue[i].thread \in Threads
    BY DEF TypeInv, QueueOK
  <1>3. AnalysesAhead'
    BY <1>2, NothingToAnalyse DEF RequestsInv, AnalysesAhead
  <1> QED BY <1>1, <1>3 DEF RequestsInv

\* A thread sends a request that it waits for.
LEMMA AskRequestsInv ==
    ASSUME TypeInv, RequestsInv, NEW h \in Threads, NEW type \in Blocking, Ask(h, type),
           pc[h] \in {"running", "registered"}
    PROVE  RequestsInv'
  <1> DEFINE r == Request(type, None, h)
  <1>1. /\ r \in Requests /\ r.type = type /\ r.thread = h /\ r.type \notin {"analyse", "end"}
        /\ r = Request(r.type, None, r.thread)
    BY DEF Request, Requests, Blocking
  <1>2. apQueue' = Append(apQueue, r) /\ owner' = owner /\ pc' = [pc EXCEPT ![h] = type]
    BY DEF Ask, taskVars
  <1> HIDE DEF r
  <1>3. /\ Len(apQueue) \in Nat /\ Len(apQueue') = Len(apQueue) + 1
        /\ \A i \in 1 .. Len(apQueue) : apQueue'[i] = apQueue[i]
        /\ apQueue'[Len(apQueue) + 1] = r
    BY <1>1, <1>2, QueueAppend DEF TypeInv
  <1>4. \A i \in 1 .. Len(apQueue) : apQueue[i].type \in Blocking => apQueue[i].thread # h
    BY DEF TypeInv, QueueOK, Blocking
  <1>5. NoDuplicates'
    BY <1>1, <1>3, <1>4 DEF RequestsInv, NoDuplicates
  <1>6. FormsOK'
    BY <1>1, <1>2, <1>3 DEF RequestsInv, FormsOK
  <1>7. AnalysesInOrder'
    BY <1>1, <1>3 DEF RequestsInv, AnalysesInOrder
  <1>8. AnalysesAhead'
    <2> SUFFICES ASSUME NEW i \in 1 .. Len(apQueue'), apQueue'[i].type = "analyse",
                        pc'[apQueue'[i].thread] # "running"
                 PROVE  \E j \in 1 .. Len(apQueue') : /\ i < j
                                                      /\ apQueue'[j].type \in Blocking
                                                      /\ apQueue'[j].thread = apQueue'[i].thread
      BY DEF AnalysesAhead
    <2>1. i \in 1 .. Len(apQueue) /\ apQueue'[i] = apQueue[i] /\ apQueue[i].thread \in Threads
      BY <1>1, <1>3 DEF TypeInv, QueueOK
    <2>2. CASE apQueue[i].thread = h
      BY <1>1, <1>3, <2>1, <2>2
    <2>3. CASE apQueue[i].thread # h
      BY <1>2, <1>3, <2>1, <2>3 DEF RequestsInv, AnalysesAhead, TypeInv, TypeOK
    <2> QED BY <2>2, <2>3
  <1> QED BY <1>5, <1>6, <1>7, <1>8 DEF RequestsInv

\* A thread submits a task.
LEMMA ExecuteTaskRequestsInv ==
    ASSUME TypeInv, PhaseInv, RequestsInv, NEW h \in Threads, NEW sig \in Signatures,
           ExecuteTask(h, sig)
    PROVE  RequestsInv'
  <1> DEFINE r == Request("analyse", nextTask, h)
  <1>1. r \in Requests /\ r.type = "analyse" /\ r.task = nextTask /\ r.thread = h
        /\ r = Request("analyse", nextTask, h)
    BY DEF ExecuteTask, Request, Requests
  <1>2. /\ apQueue' = Append(apQueue, r) /\ nextTask \in Tasks /\ pc' = pc /\ pc[h] = "running"
        /\ owner' = [owner EXCEPT ![nextTask] = h]
    BY DEF ExecuteTask
  <1> HIDE DEF r
  <1>3. /\ Len(apQueue) \in Nat /\ Len(apQueue') = Len(apQueue) + 1
        /\ \A i \in 1 .. Len(apQueue) : apQueue'[i] = apQueue[i]
        /\ apQueue'[Len(apQueue) + 1] = r
    BY <1>1, <1>2, QueueAppend DEF TypeInv
  <1>4. /\ nextTask \in Int
        /\ \A i \in 1 .. Len(apQueue) : apQueue[i].type = "analyse" =>
              /\ apQueue[i].task \in Tasks /\ apQueue[i].task \in Int
              /\ apQueue[i].task < nextTask /\ apQueue[i].task # nextTask
    BY <1>2 DEF TypeInv, QueueOK, PhaseInv, AnalysedOnce, Tasks
  <1>5. NoDuplicates'
    BY <1>1, <1>3, <1>4 DEF RequestsInv, NoDuplicates
  <1>6. FormsOK'
    <2>1. owner'[nextTask] = h /\ \A t \in Tasks : t # nextTask => owner'[t] = owner[t]
      BY <1>2 DEF TypeInv, TypeOK
    <2> QED BY <1>1, <1>3, <1>4, <2>1 DEF RequestsInv, FormsOK, Blocking
  <1>7. AnalysesInOrder'
    BY <1>1, <1>3, <1>4 DEF RequestsInv, AnalysesInOrder
  <1>8. AnalysesAhead'
    BY <1>1, <1>2, <1>3 DEF RequestsInv, AnalysesAhead
  <1> QED BY <1>5, <1>6, <1>7, <1>8 DEF RequestsInv

\* The AP takes a request and wakes up only threads.
LEMMA TailRequestsInv ==
    ASSUME TypeInv, RequestsInv, NEW type, Takes(type), apQueue' = Tail(apQueue), owner' = owner,
           \A g \in Threads : \/ pc'[g] \in {pc[g], "running"}
                              \/ pc[g] # "running" /\ NotAsking(g)
                              \/ type \in Blocking /\ g = apQueue[1].thread
    PROVE  RequestsInv'
  <1>1. /\ Len(apQueue) \in Nat /\ Len(apQueue) >= 1 /\ Len(apQueue') = Len(apQueue) - 1
        /\ apQueue[1].type = type
        /\ \A i \in 1 .. Len(apQueue') : apQueue'[i] = apQueue[i + 1] /\ i + 1 \in 1 .. Len(apQueue)
    BY QueueTail DEF TypeInv
  <1>2. NoDuplicates'
    BY <1>1 DEF RequestsInv, NoDuplicates
  <1>3. FormsOK'
    BY <1>1 DEF RequestsInv, FormsOK
  <1>4. AnalysesInOrder'
    BY <1>1 DEF RequestsInv, AnalysesInOrder
  <1>5. AnalysesAhead'
    <2> SUFFICES ASSUME NEW i \in 1 .. Len(apQueue'), apQueue'[i].type = "analyse",
                        pc'[apQueue'[i].thread] # "running"
                 PROVE  \E j \in 1 .. Len(apQueue') : /\ i < j
                                                      /\ apQueue'[j].type \in Blocking
                                                      /\ apQueue'[j].thread = apQueue'[i].thread
      BY DEF AnalysesAhead
    <2> DEFINE g == apQueue[i + 1].thread
    <2>1. /\ i + 1 \in 1 .. Len(apQueue) /\ apQueue'[i] = apQueue[i + 1]
          /\ apQueue[i + 1].type = "analyse" /\ g \in Threads
      BY <1>1 DEF TypeInv, QueueOK
    <2>2. type \in Blocking => g # apQueue[1].thread
      BY <2>1, NothingToAnalyseFirst
    <2>4. pc'[g] = pc[g]
      BY <2>1, <2>2, NothingToAnalyse
    <2>5. PICK j \in 1 .. Len(apQueue) : /\ i + 1 < j
                                         /\ apQueue[j].type \in Blocking
                                         /\ apQueue[j].thread = g
      BY <2>1, <2>4 DEF RequestsInv, AnalysesAhead
    <2>6. j - 1 \in 1 .. Len(apQueue') /\ apQueue'[j - 1] = apQueue[j - 1 + 1] /\ j - 1 + 1 = j /\ i < j - 1
      BY <1>1, <2>5
    <2> QED BY <2>1, <2>5, <2>6
  <1> QED BY <1>2, <1>3, <1>4, <1>5 DEF RequestsInv

\* An execution ends: its end was not asked for before.
LEMMA EndExecutionRequestsInv ==
    ASSUME TypeInv, PhaseInv, RequestsInv, NEW t \in Tasks, NEW result, EndExecution(t, result),
           ~ EndAsked(t)
    PROVE  RequestsInv'
  <1> DEFINE r == Request("end", t, None)
  <1>1. /\ r \in Requests /\ r.type = "end" /\ r.task = t /\ r = Request("end", r.task, None)
        /\ ~ InQueue(apQueue, r)
    BY DEF Request, Requests, EndAsked
  <1>2. apQueue' = Append(apQueue, r) /\ owner' = owner /\ pc' = pc
    BY DEF EndExecution, taskVars, threadVars
  <1> HIDE DEF r
  <1>3. /\ Len(apQueue) \in Nat /\ Len(apQueue') = Len(apQueue) + 1
        /\ \A i \in 1 .. Len(apQueue) : apQueue'[i] = apQueue[i]
        /\ apQueue'[Len(apQueue) + 1] = r
    BY <1>1, <1>2, QueueAppend DEF TypeInv
  <1>4. NoDuplicates'
    BY <1>1, <1>3 DEF RequestsInv, NoDuplicates, InQueue
  <1>5. FormsOK'
    BY <1>1, <1>2, <1>3 DEF RequestsInv, FormsOK, Blocking
  <1>6. AnalysesInOrder'
    BY <1>1, <1>3 DEF RequestsInv, AnalysesInOrder
  <1>7. AnalysesAhead'
    BY <1>1, <1>2, <1>3 DEF RequestsInv, AnalysesAhead
  <1> QED BY <1>4, <1>5, <1>6, <1>7 DEF RequestsInv

-----------------------------------------------------------------------------
(* Counting tasks *)

\* There are finitely many tasks, so the ones to count are a finite set.
LEMMA UnendedFinite ==
    ASSUME NEW a
    PROVE  IsFiniteSet(Unended(a)) /\ Cardinality(Unended(a)) \in Nat
  <1>1. IsFiniteSet(Tasks)
    BY NumTasksAssumption, FS_Interval DEF Tasks
  <1>2. Unended(a) \subseteq Tasks
    BY DEF Unended
  <1>3. IsFiniteSet(Unended(a))
    BY <1>1, <1>2, FS_Subset
  <1> QED BY <1>3, FS_CardinalityType

\* The count is zero when there is nothing to count, and with a count of one there is
\* nothing but the task that is known to be there.
LEMMA UnendedCount ==
    ASSUME NEW a
    PROVE  /\ Cardinality(Unended(a)) = 0 <=> Unended(a) = {}
           /\ \A t \in Unended(a) : Cardinality(Unended(a)) = 1 => Unended(a) = {t}
  <1>1. IsFiniteSet(Unended(a))
    BY UnendedFinite
  <1>2. Cardinality(Unended(a)) = 0 <=> Unended(a) = {}
    BY <1>1, FS_EmptySet
  <1>3. ASSUME NEW t \in Unended(a), Cardinality(Unended(a)) = 1 PROVE Unended(a) = {t}
    <2> DEFINE S == Unended(a) \ {t}
    <2>1. IsFiniteSet(S) /\ Cardinality(S) = 1 - 1
      BY <1>1, <1>3, FS_RemoveElement
    <2>2. S = {}
      BY <2>1, FS_EmptySet
    <2> QED BY <2>2
  <1> QED BY <1>2, <1>3

\* What is counted depends on the owners, the treated ends and the analyses to do.
LEMMA UnendedFrame ==
    ASSUME NEW a, UNCHANGED <<owner, ended>>,
           \A t \in Tasks : AnalyseAsked(t)' <=> AnalyseAsked(t)
    PROVE  Unended(a)' = Unended(a)
  BY DEF Unended, AnalyseAsked

\* The initial states.
LEMMA InitLifeInv == Init => LifeInv
  <1> SUFFICES ASSUME Init PROVE LifeInv
    OBVIOUS
  <1>1. ASSUME NEW t \in Tasks PROVE TaskLife(t) /\ owner[t] = None
    BY <1>1 DEF Init, TaskLife, EndAsked, InQueue
  <1>2. ASSUME NEW a \in Apps PROVE CountOK(a)
    <2>1. Unended(a) = {}
      BY <1>1 DEF Unended
    <2> QED BY <1>2, <2>1, UnendedCount DEF Init, CountOK
  <1> QED BY <1>1, <1>2 DEF LifeInv

\* A step that leaves tasks, counts and requests about tasks alone, or requests the
\* shutdown, or forgets an application without tasks.
LEMMA LifeFrame ==
    ASSUME LifeInv, UNCHANGED <<owner, nextTask, ended, status, pending, failed, taskCount>>,
           halt' \in {halt, "done"},
           \A a \in counted : taskCount[a] # 0 => a \in counted',
           \A t \in Tasks : AnalyseAsked(t)' <=> AnalyseAsked(t),
           \A t \in Tasks : EndAsked(t)' <=> EndAsked(t)
    PROVE  LifeInv'
  <1>1. ASSUME NEW t \in Tasks PROVE TaskLife(t)'
    BY <1>1 DEF LifeInv, TaskLife
  <1>2. ASSUME NEW a \in Apps PROVE CountOK(a)'
    <2>1. Unended(a)' = Unended(a)
      BY UnendedFrame
    <2> QED BY <1>2, <2>1 DEF LifeInv, CountOK
  <1> QED BY <1>1, <1>2 DEF LifeInv

\* A request that is not about a task is asked, or taken.
LEMMA BlockingAsked ==
    ASSUME TypeInv, RequestsInv, owner' = owner,
           \/ apQueue' = apQueue
           \/ \E h \in Threads, type \in Blocking : apQueue' = Append(apQueue, Request(type, None, h))
           \/ \E type \in Blocking : Takes(type) /\ apQueue' = Tail(apQueue),
           NEW t \in Tasks
    PROVE  /\ AnalyseAsked(t)' <=> AnalyseAsked(t)
           /\ EndAsked(t)' <=> EndAsked(t)
  <1>1. CASE apQueue' = apQueue
    BY <1>1 DEF AnalyseAsked, EndAsked
  <1>2. ASSUME NEW h \in Threads, NEW type \in Blocking, apQueue' = Append(apQueue, Request(type, None, h))
        PROVE  /\ AnalyseAsked(t)' <=> AnalyseAsked(t)
               /\ EndAsked(t)' <=> EndAsked(t)
    <2> DEFINE r == Request(type, None, h)
    <2>1. r \in Requests
      BY DEF Request, Requests
    <2>2. Request("analyse", t, owner[t]) # r /\ Request("end", t, None) # r
      BY RequestFacts DEF Blocking
    <2> HIDE DEF r
    <2> QED BY <1>2, <2>1, <2>2, AskedAppend DEF AnalyseAsked, EndAsked, TypeInv, r
  <1>3. ASSUME NEW type \in Blocking, Takes(type), apQueue' = Tail(apQueue)
        PROVE  /\ AnalyseAsked(t)' <=> AnalyseAsked(t)
               /\ EndAsked(t)' <=> EndAsked(t)
    <2>1. apQueue[1].type = type
      BY <1>3, QueueTail DEF TypeInv
    <2>2. Request("analyse", t, owner[t]) # apQueue[1] /\ Request("end", t, None) # apQueue[1]
      BY <2>1, RequestFacts DEF Blocking
    <2> QED BY <1>3, <2>2, AskedTail DEF AnalyseAsked, EndAsked, TypeInv, RequestsInv
  <1> QED BY <1>1, <1>2, <1>3

\* A new task is not counted before its analysis.
LEMMA ExecuteTaskLifeInv ==
    ASSUME TypeInv, PhaseInv, RequestsInv, LifeInv, NEW h \in Threads, NEW sig \in Signatures,
           ExecuteTask(h, sig)
    PROVE  LifeInv'
  <1>0. PICK n \in Tasks : n = nextTask
    BY DEF ExecuteTask
  <1> DEFINE r == Request("analyse", n, h)
  <1>1. r \in Requests /\ n \in Int
    BY DEF Request, Requests, Tasks
  <1>2. /\ apQueue' = Append(apQueue, r) /\ nextTask' = n + 1
        /\ owner' = [owner EXCEPT ![n] = h]
        /\ UNCHANGED <<status, pending, failed, halt, ended, taskCount, counted>>
    BY <1>0 DEF ExecuteTask, stateVars, execVars, countVars
  <1>3. owner'[n] = h /\ \A t \in Tasks : t # n => owner'[t] = owner[t]
    BY <1>1, <1>2 DEF TypeInv, TypeOK
  <1>4. \A t \in Tasks : EndAsked(t)' <=> EndAsked(t)
    <2>1. \A t \in Tasks : Request("end", t, None) # r
      BY RequestFacts
    <2> QED BY <1>1, <1>2, <2>1, AskedAppend DEF EndAsked, TypeInv
  <1>5. AnalyseAsked(n)'
    BY <1>1, <1>2, <1>3, AskedAppend DEF AnalyseAsked, TypeInv
  <1>6. \A t \in Tasks : t # n => (AnalyseAsked(t)' <=> AnalyseAsked(t))
    <2>1. \A t \in Tasks : t # n => Request("analyse", t, owner[t]) # r
      BY RequestFacts
    <2> QED BY <1>1, <1>2, <1>3, <2>1, AskedAppend DEF AnalyseAsked, TypeInv
  <1>7. ASSUME NEW t \in Tasks PROVE TaskLife(t)'
    <2>1. t \in Int
      BY DEF Tasks
    <2>2. TaskLife(t) /\ (t < n => t < n + 1) /\ n < n + 1
      BY <1>1, <2>1 DEF LifeInv
    <2> QED BY <1>0, <1>2, <1>3, <1>4, <2>2 DEF TaskLife
  <1>8. ASSUME NEW a \in Apps PROVE CountOK(a)'
    <2>1. owner[n] = None
      BY <1>0, <1>1 DEF LifeInv, TaskLife
    <2>2. Unended(a)' = Unended(a)
      BY <1>1, <1>2, <1>3, <1>5, <1>6, <2>1 DEF Unended, AnalyseAsked
    <2> QED BY <1>2, <2>2 DEF LifeInv, CountOK
  <1> QED BY <1>7, <1>8 DEF LifeInv

\* The AP takes a request about a task: the requests about other tasks, and the
\* requests of the other kind about this one, are as they were.
LEMMA TaskAsked ==
    ASSUME TypeInv, RequestsInv, NEW type \in {"analyse", "end"}, Takes(type),
           apQueue' = Tail(apQueue), owner' = owner, NEW t \in Tasks
    PROVE  /\ AnalyseAsked(t)' <=> AnalyseAsked(t) /\ ~ (type = "analyse" /\ t = apQueue[1].task)
           /\ EndAsked(t)' <=> EndAsked(t) /\ ~ (type = "end" /\ t = apQueue[1].task)
  <1> DEFINE u == apQueue[1].task
  <1>1. apQueue[1].type = type /\ 1 \in 1 .. Len(apQueue)
    BY QueueTail DEF TypeInv
  <1>2. /\ type = "analyse" => apQueue[1] = Request("analyse", u, owner[u])
        /\ type = "end" => apQueue[1] = Request("end", u, None)
    BY <1>1 DEF RequestsInv, FormsOK
  <1>3. /\ Request("analyse", t, owner[t]) = apQueue[1] <=> type = "analyse" /\ t = u
        /\ Request("end", t, None) = apQueue[1] <=> type = "end" /\ t = u
    BY <1>1, <1>2, RequestFacts
  <1> QED BY <1>3, AskedTail DEF AnalyseAsked, EndAsked, TypeInv, RequestsInv

\* A task is counted when it is analysed.
LEMMA ProcessTaskLifeInv ==
    ASSUME TypeInv, PhaseInv, RequestsInv, LifeInv, ProcessTask
    PROVE  LifeInv'
  <1>1. Takes("analyse") /\ apQueue' = Tail(apQueue)
    BY DEF ProcessTask
  <1>2. PICK t \in Tasks : t = apQueue[1].task /\ owner[t] \in Threads
    BY <1>1, QueueTail DEF TypeInv, QueueOK
  <1>3. /\ Head(apQueue) = apQueue[1] /\ 1 \in 1 .. Len(apQueue)
        /\ apQueue[1].type = "analyse" /\ apQueue[1] = Request("analyse", t, owner[t])
    BY <1>1, <1>2, QueueTail DEF TypeInv, RequestsInv, FormsOK
  <1> DEFINE b == AppOf[owner[t]]
  <1>4. /\ taskCount' = [taskCount EXCEPT ![b] = @ + 1]
        /\ counted' = counted \cup {b}
        /\ UNCHANGED <<owner, nextTask, status, pending, failed, halt, ended>>
    BY <1>2, <1>3 DEF ProcessTask, threadVars, stateVars, execVars
  <1>5. AnalyseAsked(t) /\ status[t] = "TO_ANALYSE"
    BY <1>2, <1>3 DEF AnalyseAsked, InQueue, PhaseInv, AnalysedOnce
  <1>6. /\ ~ AnalyseAsked(t)'
        /\ \A u \in Tasks : u # t => (AnalyseAsked(u)' <=> AnalyseAsked(u))
        /\ \A u \in Tasks : EndAsked(u)' <=> EndAsked(u)
    BY <1>1, <1>2, <1>4, TaskAsked
  <1>7. ASSUME NEW u \in Tasks PROVE TaskLife(u)'
    BY <1>4, <1>6 DEF LifeInv, TaskLife
  <1>8. b \in Apps /\ ended[t] = 0 /\ owner[t] # None
    BY <1>2, <1>5, AppOfAssumption, NoneAssumption DEF LifeInv, TaskLife
  <1>9. ASSUME NEW a \in Apps PROVE CountOK(a)'
    <2>1. CASE a = b
      <3>1. Unended(a)' = Unended(a) \cup {t} /\ t \notin Unended(a)
        BY <1>4, <1>5, <1>6, <1>8, <2>1 DEF Unended, AnalyseAsked
      <3>2. IsFiniteSet(Unended(a)) /\ Cardinality(Unended(a)) \in Nat
        BY UnendedFinite
      <3>3. Cardinality(Unended(a) \cup {t}) = Cardinality(Unended(a)) + 1
        BY <3>1, <3>2, FS_AddElement
      <3>4. taskCount'[a] = taskCount[a] + 1
        BY <1>4, <1>8, <2>1 DEF TypeInv, TypeOK
      <3> QED BY <1>4, <2>1, <3>1, <3>3, <3>4 DEF LifeInv, CountOK
    <2>2. CASE a # b
      <3>1. Unended(a)' = Unended(a)
        BY <1>4, <1>5, <1>6, <1>8, <2>2 DEF Unended, AnalyseAsked
      <3>2. taskCount'[a] = taskCount[a]
        BY <1>4, <1>8, <2>2 DEF TypeInv, TypeOK
      <3> QED BY <1>4, <3>1, <3>2 DEF LifeInv, CountOK
    <2> QED BY <2>1, <2>2
  <1> QED BY <1>7, <1>9 DEF LifeInv

\* The task whose end the AP takes is counted; its execution has ended.
LEMMA EndTaskFacts ==
    ASSUME TypeInv, PhaseInv, RequestsInv, LifeInv, EndTask
    PROVE  \E t \in Tasks :
              /\ t = apQueue[1].task /\ Head(apQueue) = apQueue[1] /\ owner[t] \in Threads
              /\ EndAsked(t)
              /\ executionCount[t] = 0 /\ pending[t] = 0 /\ status[t] \in {"FINISHED", "FAILED"}
              /\ t \in Unended(AppOf[owner[t]])
              /\ AppOf[owner[t]] \in counted
              /\ taskCount[AppOf[owner[t]]] >= 1
              /\ AppOf[owner[t]] \in Apps
  <1>1. Takes("end") /\ apQueue' = Tail(apQueue)
    BY DEF EndTask
  <1>2. PICK t \in Tasks : t = apQueue[1].task /\ owner[t] \in Threads
    BY <1>1, QueueTail DEF TypeInv, QueueOK
  <1>3. /\ Head(apQueue) = apQueue[1] /\ 1 \in 1 .. Len(apQueue)
        /\ apQueue[1].type = "end" /\ apQueue[1] = Request("end", t, None)
    BY <1>1, <1>2, QueueTail DEF TypeInv, RequestsInv, FormsOK
  <1>4. EndAsked(t)
    BY <1>3 DEF EndAsked, InQueue
  <1>5. executionCount[t] = 0 /\ pending[t] = 0 /\ status[t] \in {"FINISHED", "FAILED"} /\ ended[t] = 0
    BY <1>4 DEF LifeInv, TaskLife, TypeInv, ExecutionsOK
  <1>6. ~ AnalyseAsked(t)
    <2> SUFFICES ASSUME NEW i \in 1 .. Len(apQueue), apQueue[i] = Request("analyse", t, owner[t])
                 PROVE  FALSE
      BY DEF AnalyseAsked, InQueue
    <2>1. apQueue[i].type = "analyse" /\ apQueue[i].task = t
      BY RequestFacts
    <2> QED BY <1>5, <2>1 DEF PhaseInv, AnalysedOnce
  <1> DEFINE b == AppOf[owner[t]]
  <1>7. t \in Unended(b) /\ b \in Apps
    BY <1>2, <1>5, <1>6, AppOfAssumption, NoneAssumption DEF Unended, AnalyseAsked
  <1>8. Cardinality(Unended(b)) \in Nat /\ Cardinality(Unended(b)) # 0
    BY <1>7, UnendedFinite, UnendedCount
  <1>9. taskCount[b] >= 1 /\ b \in counted
    BY <1>7, <1>8 DEF LifeInv, CountOK
  <1> QED BY <1>2, <1>3, <1>4, <1>5, <1>7, <1>9

\* The end of a task that has not failed is treated, and discounted.
LEMMA EndTaskLifeInv ==
    ASSUME TypeInv, PhaseInv, RequestsInv, LifeInv, EndTask
    PROVE  LifeInv'
  <1>1. Takes("end") /\ apQueue' = Tail(apQueue)
    BY DEF EndTask
  <1>2. PICK t \in Tasks :
              /\ t = apQueue[1].task /\ Head(apQueue) = apQueue[1] /\ owner[t] \in Threads
              /\ executionCount[t] = 0 /\ pending[t] = 0 /\ status[t] \in {"FINISHED", "FAILED"}
              /\ t \in Unended(AppOf[owner[t]])
              /\ AppOf[owner[t]] \in counted
              /\ taskCount[AppOf[owner[t]]] >= 1
              /\ AppOf[owner[t]] \in Apps
    BY EndTaskFacts
  <1> DEFINE b == AppOf[owner[t]]
  <1>3. UNCHANGED <<owner, nextTask, status, pending, failed>>
    BY DEF EndTask, stateVars, execVars
  <1>4. /\ \A u \in Tasks : AnalyseAsked(u)' <=> AnalyseAsked(u)
        /\ ~ EndAsked(t)'
        /\ \A u \in Tasks : u # t => (EndAsked(u)' <=> EndAsked(u))
    BY <1>1, <1>2, <1>3, TaskAsked
  <1>5. CASE status[t] = "FAILED"
    <2>1. halt' = "requested" /\ UNCHANGED <<ended, taskCount, counted>>
      BY <1>2, <1>5 DEF EndTask, countVars
    <2>2. ASSUME NEW u \in Tasks PROVE TaskLife(u)'
      <3>1. CASE u = t
        BY <1>3, <1>4, <1>5, <2>1, <3>1 DEF LifeInv, TaskLife
      <3>2. CASE u # t
        BY <1>3, <1>4, <2>1, <3>2 DEF LifeInv, TaskLife
      <3> QED BY <3>1, <3>2
    <2>3. ASSUME NEW a \in Apps PROVE CountOK(a)'
      <3>1. Unended(a)' = Unended(a)
        BY <1>3, <1>4, <2>1, UnendedFrame
      <3> QED BY <2>1, <3>1 DEF LifeInv, CountOK
    <2> QED BY <2>2, <2>3 DEF LifeInv
  <1>6. CASE status[t] # "FAILED"
    <2>1. TreatEnd(t, b)
      BY <1>2, <1>6 DEF EndTask
    <2>2. /\ taskCount' = [taskCount EXCEPT ![b] = @ - 1]
          /\ counted' = IF taskCount[b] = 1 /\ semaphore[b] # None THEN counted \ {b} ELSE counted
          /\ ended' = [ended EXCEPT ![t] = @ + 1]
          /\ halt' = halt
      BY <2>1 DEF TreatEnd
    <2>3. status[t] = "FINISHED" /\ ended[t] = 0 /\ b \in Apps
      BY <1>2, <1>6 DEF Unended
    <2>4. ended'[t] = 1 /\ \A u \in Tasks : u # t => ended'[u] = ended[u]
      BY <2>2, <2>3 DEF TypeInv, TypeOK
    <2>5. taskCount'[b] = taskCount[b] - 1 /\ \A a \in Apps : a # b => taskCount'[a] = taskCount[a]
      BY <2>2, <2>3 DEF TypeInv, TypeOK
    <2>6. ASSUME NEW u \in Tasks PROVE TaskLife(u)'
      <3>1. CASE u = t
        BY <1>3, <1>4, <2>2, <2>3, <2>4, <3>1 DEF LifeInv, TaskLife
      <3>2. CASE u # t
        BY <1>3, <1>4, <2>2, <2>4, <3>2 DEF LifeInv, TaskLife
      <3> QED BY <3>1, <3>2
    <2>7. ASSUME NEW a \in Apps PROVE CountOK(a)'
      <3>1. CASE a = b
        <4>1. Unended(a)' = Unended(a) \ {t} /\ t \in Unended(a)
          BY <1>2, <1>3, <1>4, <2>4, <3>1 DEF Unended, AnalyseAsked
        <4>2. IsFiniteSet(Unended(a)) /\ Cardinality(Unended(a)) \in Nat
          BY UnendedFinite
        <4>3. Cardinality(Unended(a) \ {t}) = Cardinality(Unended(a)) - 1
          BY <4>1, <4>2, FS_RemoveElement
        <4>4. taskCount[a] = Cardinality(Unended(a))
          BY DEF LifeInv, CountOK
        <4>5. taskCount'[a] # 0 => a \in counted'
          BY <1>2, <2>2, <2>5, <3>1, <4>2, <4>4
        <4> QED BY <2>5, <3>1, <4>1, <4>3, <4>4, <4>5 DEF CountOK
      <3>2. CASE a # b
        <4>1. Unended(a)' = Unended(a)
          BY <1>2, <1>3, <1>4, <2>4, <3>2 DEF Unended, AnalyseAsked
        <4> QED BY <2>2, <2>5, <3>2, <4>1 DEF LifeInv, CountOK
      <3> QED BY <3>1, <3>2
    <2> QED BY <2>6, <2>7 DEF LifeInv
  <1> QED BY <1>5, <1>6

\* A task that is submitted has one execution.
LEMMA SubmitLifeInv ==
    ASSUME SingleExecution, TypeInv, PhaseInv, RequestsInv, LifeInv, SubmitExecutions
    PROVE  LifeInv'
  <1>1. tdQueue \in Seq(Tasks) /\ tdQueue # << >>
    BY DEF SubmitExecutions, TypeInv, TypeOK
  <1>2. PICK t \in Tasks : t = tdQueue[1] /\ Head(tdQueue) = t /\ 1 \in 1 .. Len(tdQueue)
    BY <1>1, TailFacts
  <1>3. /\ status' = [status EXCEPT ![t] = "TO_EXECUTE"]
        /\ pending' = [pending EXCEPT ![t] = 1]
        /\ UNCHANGED <<apQueue, owner, nextTask, failed, halt, ended, taskCount, counted>>
    BY <1>2 DEF SubmitExecutions, SingleExecution, threadVars, taskVars, countVars
  <1>4. status[t] = "TO_ANALYSE"
    BY <1>2 DEF PhaseInv, AnalysedOnce
  <1>5. \A u \in Tasks : (AnalyseAsked(u)' <=> AnalyseAsked(u)) /\ (EndAsked(u)' <=> EndAsked(u))
    BY <1>3 DEF AnalyseAsked, EndAsked
  <1>6. ASSUME NEW u \in Tasks PROVE TaskLife(u)'
    <2>1. CASE u = t
      <3>1. status'[t] = "TO_EXECUTE" /\ pending'[t] = 1
        BY <1>3 DEF TypeInv, TypeOK
      <3> QED BY <1>3, <1>4, <1>5, <2>1, <3>1 DEF LifeInv, TaskLife
    <2>2. CASE u # t
      <3>1. status'[u] = status[u] /\ pending'[u] = pending[u]
        BY <1>3, <2>2 DEF TypeInv, TypeOK
      <3> QED BY <1>3, <1>5, <3>1 DEF LifeInv, TaskLife
    <2> QED BY <2>1, <2>2
  <1>7. ASSUME NEW a \in Apps PROVE CountOK(a)'
    <2>1. Unended(a)' = Unended(a)
      BY <1>3, <1>5, UnendedFrame
    <2> QED BY <1>3, <2>1 DEF LifeInv, CountOK
  <1> QED BY <1>6, <1>7 DEF LifeInv

\* The execution of a task that runs is the only one, and its end was not asked for.
LEMMA RunningLife ==
    ASSUME TypeInv, PhaseInv, LifeInv, NEW t \in Tasks, running[t] > 0
    PROVE  /\ pending[t] = 1 /\ running[t] = 1 /\ status[t] = "TO_EXECUTE"
           /\ ended[t] = 0 /\ t \notin failed /\ ~ EndAsked(t)
  <1>1. pending[t] > 0
    BY RunningFacts
  <1>2. TaskLife(t)
    BY DEF LifeInv
  <1>3. pending[t] = 1 /\ status[t] = "TO_EXECUTE"
    BY <1>1, <1>2 DEF TaskLife
  <1>4. running[t] = 1
    BY <1>3 DEF TypeInv, TypeOK, ExecutionsOK
  <1> QED BY <1>2, <1>3, <1>4 DEF TaskLife

\* The end of an execution is asked for when it happens.
LEMMA EndExecutionLifeInv ==
    ASSUME TypeInv, PhaseInv, RequestsInv, LifeInv, NEW t \in Tasks,
           CompleteExecution(t) \/ FailExecution(t)
    PROVE  LifeInv'
  <1> DEFINE r == Request("end", t, None)
  <1>1. PICK result \in {"FINISHED", "FAILED"} :
           /\ EndExecution(t, result)
           /\ failed' = IF result = "FAILED" THEN failed \cup {t} ELSE failed
    BY DEF CompleteExecution, FailExecution
  <1>2. /\ pending' = [pending EXCEPT ![t] = @ - 1]
        /\ status' = [status EXCEPT ![t] = result]
        /\ apQueue' = Append(apQueue, r) /\ r \in Requests
        /\ UNCHANGED <<owner, nextTask, halt, ended, taskCount, counted>>
        /\ running[t] > 0
    BY <1>1 DEF EndExecution, Request, Requests, threadVars, taskVars, countVars
  <1>3. /\ pending[t] = 1 /\ status[t] = "TO_EXECUTE" /\ ended[t] = 0
        /\ t \notin failed /\ ~ EndAsked(t)
    BY <1>2, RunningLife
  <1>4. /\ EndAsked(t)'
        /\ \A u \in Tasks : u # t => (EndAsked(u)' <=> EndAsked(u))
        /\ \A u \in Tasks : AnalyseAsked(u)' <=> AnalyseAsked(u)
    <2>1. /\ \A u \in Tasks : u # t => Request("end", u, None) # r
          /\ \A u \in Tasks : Request("analyse", u, owner[u]) # r
      BY RequestFacts
    <2> HIDE DEF r
    <2>2. \A x : InQueue(apQueue', x) <=> InQueue(apQueue, x) \/ x = r
      BY <1>2, AskedAppend DEF TypeInv
    <2> QED BY <1>2, <2>1, <2>2 DEF EndAsked, AnalyseAsked, r
  <1>5. ASSUME NEW u \in Tasks PROVE TaskLife(u)'
    <2>1. CASE u = t
      <3>1. status'[t] = result /\ pending'[t] = 0
        BY <1>2, <1>3 DEF TypeInv, TypeOK
      <3> QED BY <1>1, <1>2, <1>3, <1>4, <2>1, <3>1 DEF LifeInv, TaskLife
    <2>2. CASE u # t
      <3>1. status'[u] = status[u] /\ pending'[u] = pending[u] /\ (u \in failed' <=> u \in failed)
        BY <1>1, <1>2, <2>2 DEF TypeInv, TypeOK
      <3> QED BY <1>2, <1>4, <2>2, <3>1 DEF LifeInv, TaskLife
    <2> QED BY <2>1, <2>2
  <1>6. ASSUME NEW a \in Apps PROVE CountOK(a)'
    <2>1. Unended(a)' = Unended(a)
      BY <1>2, <1>4, UnendedFrame
    <2> QED BY <1>2, <2>1 DEF LifeInv, CountOK
  <1> QED BY <1>5, <1>6 DEF LifeInv

-----------------------------------------------------------------------------
(* The steps *)

\* A step that leaves the tasks alone, and puts in the queue or takes from it at most
\* a request that a thread is blocked on.
LEMMA BlockingLifeInv ==
    ASSUME TypeInv, RequestsInv, LifeInv,
           UNCHANGED <<owner, nextTask, ended, status, pending, failed, taskCount>>,
           halt' \in {halt, "done"},
           \A a \in counted : taskCount[a] # 0 => a \in counted',
           \/ apQueue' = apQueue
           \/ \E h \in Threads, type \in Blocking : apQueue' = Append(apQueue, Request(type, None, h))
           \/ \E type \in Blocking : Takes(type) /\ apQueue' = Tail(apQueue)
    PROVE  LifeInv'
  BY BlockingAsked, LifeFrame

\* The threads that the end of a task releases are blocked and not asking.
LEMMA ReleasedFacts ==
    ASSUME TypeInv, NEW t \in Tasks, NEW a \in Apps, NEW g \in Released(t, a)
    PROVE  /\ g \in Threads /\ NotAsking(g)
           /\ \/ g \in waitedTasks[t] /\ pc[g] = "wait"
              \/ /\ taskCount[a] = 1 /\ g = semaphore[a] /\ g # None
                 /\ AppOf[g] = a /\ pc[g] \in {"barrier", "endOfApp"}
  BY DEF Released, TypeInv, TypeOK, SemaphoresOK, WaitedOK

\* A thread sends a request that it waits for.
LEMMA AskLifeInv ==
    ASSUME TypeInv, RequestsInv, LifeInv, NEW h \in Threads, NEW type \in Blocking, Ask(h, type)
    PROVE  LifeInv'
  <1>1. /\ UNCHANGED <<owner, nextTask, ended, status, pending, failed, taskCount, halt, counted>>
        /\ apQueue' = Append(apQueue, Request(type, None, h))
    BY DEF Ask, taskVars, stateVars, execVars, countVars
  <1> QED BY <1>1, BlockingLifeInv

\* FindWaitedTask wakes up the thread of the request, or nobody.
LEMMA FindWaitedThread ==
    ASSUME TypeInv, FindWaitedTask, NEW g \in Threads
    PROVE  pc'[g] = pc[g] \/ g = apQueue[1].thread
  <1>1. Takes("wait") /\ apQueue' = Tail(apQueue)
    BY DEF FindWaitedTask
  <1>2. Head(apQueue) = apQueue[1]
    BY <1>1, QueueTail DEF TypeInv
  <1> QED BY <1>2 DEF FindWaitedTask, Return, callVars

\* RequestsInv and LifeInv are inductive relative to TypeInv and PhaseInv.
LEMMA NextLifeInv ==
    ASSUME SingleExecution, TypeInv, PhaseInv, RequestsInv, LifeInv, [Next]_vars
    PROVE  RequestsInv' /\ LifeInv'
  <1>1. ASSUME NEW h \in Threads, NEW sig \in Signatures, ExecuteTask(h, sig)
        PROVE  RequestsInv' /\ LifeInv'
    BY <1>1, ExecuteTaskRequestsInv, ExecuteTaskLifeInv
  <1>2. ASSUME NEW h \in Threads, NEW type \in Blocking, Ask(h, type), pc[h] \in {"running", "registered"}
        PROVE  RequestsInv' /\ LifeInv'
    BY <1>2, AskRequestsInv, AskLifeInv
  <1>3. ASSUME NEW h \in Threads, Barrier(h) \/ NoMoreTasks(h)
        PROVE  RequestsInv' /\ LifeInv'
    BY <1>2, <1>3 DEF Barrier, NoMoreTasks, Blocking
  <1>4. ASSUME NEW h \in Threads, NEW d \in Data, NEW m \in Modes, MainAccess(h, d, m)
        PROVE  RequestsInv' /\ LifeInv'
    BY <1>2, <1>4 DEF MainAccess, Blocking
  <1>5. ASSUME NEW h \in Threads, WaitForTask(h)
        PROVE  RequestsInv' /\ LifeInv'
    <2>1. CASE Ask(h, "wait")
      BY <1>2, <1>5, <2>1 DEF Blocking, WaitForTask
    <2>2. CASE /\ Return({h})
               /\ UNCHANGED <<nextTask, apQueue, tdQueue, taskVars, stateVars, execVars,
                              writers, countVars, waitedTasks, halt, producer, needs, ended>>
      <3>1. UNCHANGED <<apQueue, owner, nextTask, ended, status, pending, failed, taskCount, halt, counted>>
        BY <2>2 DEF taskVars, stateVars, execVars, countVars
      <3>2. \A g \in Threads : pc'[g] \in {pc[g], "running"}
        BY <1>5, <2>2 DEF Return, WaitForTask
      <3> QED BY <3>1, <3>2, SameRequestsInv, BlockingLifeInv
    <2> QED BY <1>5, <2>1, <2>2 DEF WaitForTask
  <1>6. CASE ProcessTask
    <2>1. Takes("analyse") /\ apQueue' = Tail(apQueue) /\ owner' = owner /\ pc' = pc
      BY <1>6 DEF ProcessTask, threadVars
    <2> QED BY <1>6, <2>1, TailRequestsInv, ProcessTaskLifeInv
  <1>7. CASE EndTask
    <2>1. Takes("end") /\ apQueue' = Tail(apQueue) /\ owner' = owner
      BY <1>7 DEF EndTask
    <2>2. PICK t \in Tasks : t = apQueue[1].task /\ Head(apQueue) = apQueue[1] /\ AppOf[owner[t]] \in Apps
      BY <1>7, EndTaskFacts
    <2>3. ASSUME NEW g \in Threads PROVE pc'[g] = pc[g] \/ (pc[g] # "running" /\ NotAsking(g))
      <3>1. CASE pc' = pc
        BY <3>1
      <3>2. CASE TreatEnd(t, AppOf[owner[t]])
        BY <2>2, <3>2, ReturnFacts, ReleasedFacts DEF TreatEnd
      <3> QED BY <1>7, <2>2, <3>1, <3>2 DEF EndTask, callVars
    <2> QED BY <1>7, <2>1, <2>3, TailRequestsInv, EndTaskLifeInv
  <1>8. ASSUME NEW type \in {"barrier", "endOfApp"}, Synchronise(type)
        PROVE  RequestsInv' /\ LifeInv'
    <2>1. /\ type \in Blocking /\ Takes(type) /\ apQueue' = Tail(apQueue)
          /\ UNCHANGED <<owner, nextTask, ended, status, pending, failed, taskCount, halt>>
      BY <1>8 DEF Synchronise, Blocking, stateVars, execVars, taskVars
    <2>2. Head(apQueue) = apQueue[1] /\ apQueue[1].thread \in Threads
      BY <2>1, QueueTail, TailAsking DEF TypeInv
    <2>3. \A g \in Threads : pc'[g] = pc[g] \/ g = apQueue[1].thread
      BY <1>8, <2>2 DEF Synchronise, Return, callVars
    <2>4. \A a \in counted : taskCount[a] # 0 => a \in counted'
      BY <1>8, <2>2 DEF Synchronise
    <2>5. LifeInv'
      BY <2>1, <2>4, BlockingLifeInv
    <2> QED BY <2>1, <2>3, <2>5, TailRequestsInv
  <1>9. CASE RegisterDataAccess
    <2>1. /\ "register" \in Blocking /\ Takes("register") /\ apQueue' = Tail(apQueue)
          /\ UNCHANGED <<owner, nextTask, ended, status, pending, failed, taskCount, halt, counted>>
      BY <1>9 DEF RegisterDataAccess, Blocking, stateVars, execVars, taskVars, countVars
    <2>2. Head(apQueue) = apQueue[1] /\ apQueue[1].thread \in Threads
      BY <2>1, QueueTail, TailAsking DEF TypeInv
    <2>3. \A g \in Threads : pc'[g] = pc[g] \/ g = apQueue[1].thread
      BY <1>9, <2>2 DEF RegisterDataAccess, TypeInv, TypeOK
    <2>4. LifeInv'
      BY <2>1, BlockingLifeInv
    <2> QED BY <2>1, <2>3, <2>4, TailRequestsInv
  <1>10. CASE FindWaitedTask
    <2>1. /\ "wait" \in Blocking /\ Takes("wait") /\ apQueue' = Tail(apQueue)
          /\ UNCHANGED <<owner, nextTask, ended, status, pending, failed, taskCount, halt, counted>>
      BY <1>10 DEF FindWaitedTask, Blocking, stateVars, execVars, taskVars, countVars
    <2>2. \A g \in Threads : pc'[g] = pc[g] \/ g = apQueue[1].thread
      BY <1>10, FindWaitedThread
    <2>3. LifeInv'
      BY <2>1, BlockingLifeInv
    <2> QED BY <2>1, <2>2, <2>3, TailRequestsInv
  <1>11. CASE SubmitExecutions
    <2>1. UNCHANGED <<apQueue, owner, pc>>
      BY <1>11 DEF SubmitExecutions, threadVars, taskVars
    <2> QED BY <1>11, <2>1, SameRequestsInv, SubmitLifeInv
  <1>12. ASSUME NEW t \in Tasks, CompleteExecution(t) \/ FailExecution(t)
         PROVE  RequestsInv' /\ LifeInv'
    <2>1. PICK result \in {"FINISHED", "FAILED"} : EndExecution(t, result)
      BY <1>12 DEF CompleteExecution, FailExecution
    <2>2. ~ EndAsked(t)
      BY <2>1, RunningLife DEF EndExecution
    <2> QED BY <1>12, <2>1, <2>2, EndExecutionRequestsInv, EndExecutionLifeInv
  <1>13. CASE Shutdown \/ UNCHANGED vars \/ \E t \in Tasks : StartExecution(t)
    <2>1. /\ UNCHANGED <<apQueue, owner, pc, nextTask, ended, status, pending, failed, taskCount, counted>>
          /\ halt' \in {halt, "done"}
      BY <1>13 DEF Shutdown, vars, StartExecution, threadVars, taskVars, stateVars, execVars, countVars
    <2> QED BY <2>1, SameRequestsInv, BlockingLifeInv
  <1> QED
    BY <1>1, <1>3, <1>4, <1>5, <1>6, <1>7, <1>8, <1>9, <1>10, <1>11, <1>12, <1>13
    DEF Next, ThreadStep, APStep, BarrierRequest, EndOfAppRequest

-----------------------------------------------------------------------------
(* Theorems *)

\* Failures and counts, for any number of threads, applications and tasks of one
\* execution each.
LEMMA LifeInvariance ==
    ASSUME SingleExecution
    PROVE  Spec => [](TypeInv /\ PhaseInv /\ RequestsInv /\ LifeInv)
  <1>1. Init => TypeInv /\ PhaseInv /\ RequestsInv /\ LifeInv
    BY InitTypeInv, InitPhaseInv, InitRequestsInv, InitLifeInv
  <1>2. TypeInv /\ PhaseInv /\ RequestsInv /\ LifeInv /\ [Next]_vars
        => (TypeInv /\ PhaseInv /\ RequestsInv /\ LifeInv)'
    BY NextTypeInv, NextLifeInv
  <1> QED BY <1>1, <1>2, PTL DEF Spec

\* A failed task stops the runtime (ErrorManager.error, from endTask): the shutdown was
\* requested, or the notification of the failure is in the queue of the AP.
THEOREM FailuresReachTheRuntime ==
    ASSUME SingleExecution
    PROVE  Spec => []FailuresStopTheRuntime
  <1>1. TypeInv /\ LifeInv => FailuresStopTheRuntime
    BY DEF TypeInv, TypeOK, LifeInv, TaskLife, EndAsked, FailuresStopTheRuntime
  <1> QED BY <1>1, LifeInvariance, PTL

\* appIdToTaskCount is exact, and the end of a task is treated at most once, whatever
\* the order in which the ends are notified.
THEOREM CountsAreExact ==
    ASSUME SingleExecution
    PROVE  Spec => []CountExact
  <1>1. LifeInv => CountExact
    BY DEF LifeInv, TaskLife, CountOK, CountExact
  <1> QED BY <1>1, LifeInvariance, PTL

\* Of the tasks of a thread that has nothing to analyse in the queue, those that are
\* not counted have finished.
LEMMA UncountedFinished ==
    ASSUME LifeInv, NEW t \in Tasks, owner[t] \in Threads, t \notin Unended(AppOf[owner[t]]),
           \A i \in 1 .. Len(apQueue) : apQueue[i].type = "analyse" => apQueue[i].thread # owner[t]
    PROVE  Finished(t)
  <1>1. ~ AnalyseAsked(t)
    BY RequestFacts DEF AnalyseAsked, InQueue
  <1>2. ended[t] = 1
    BY <1>1, NoneAssumption DEF Unended, AnalyseAsked, LifeInv, TaskLife
  <1> QED BY <1>2 DEF LifeInv, TaskLife, Finished

\* The step of a thread that waits for its tasks: if it returns they have finished.
LEMMA BarrierStep ==
    ASSUME TypeInv, PhaseInv, RequestsInv, LifeInv, [Next]_vars,
           NEW h \in Threads, pc[h] \in {"barrier", "endOfApp"}, pc'[h] \in {"running", "ended"},
           NEW t \in Tasks, owner[t] = h
    PROVE  Finished(t)
  <1>1. CASE EndTask
    <2>1. PICK u \in Tasks :
              /\ u = apQueue[1].task /\ Head(apQueue) = apQueue[1] /\ owner[u] \in Threads
              /\ pending[u] = 0 /\ status[u] \in {"FINISHED", "FAILED"}
              /\ u \in Unended(AppOf[owner[u]])
              /\ AppOf[owner[u]] \in Apps
      BY <1>1, EndTaskFacts
    <2> DEFINE a == AppOf[owner[u]]
    <2>2. pc'[h] # pc[h]
      OBVIOUS
    <2>3. TreatEnd(u, a) /\ status[u] # "FAILED"
      BY <1>1, <2>1, <2>2 DEF EndTask, callVars
    <2>4. h \in Released(u, a)
      BY <2>2, <2>3, ReturnFacts DEF TreatEnd
    <2>5. taskCount[a] = 1 /\ AppOf[h] = a /\ NotAsking(h) /\ pc[h] # "running"
      BY <2>1, <2>4, ReleasedFacts
    <2>6. Unended(a) = {u}
      BY <2>1, <2>5, UnendedCount DEF LifeInv, CountOK
    <2>7. CASE t = u
      BY <2>1, <2>3, <2>7 DEF Finished
    <2>8. CASE t # u
      BY <2>5, <2>6, <2>8, UncountedFinished, NothingToAnalyse
    <2> QED BY <2>7, <2>8
  <1>2. ASSUME NEW type \in {"barrier", "endOfApp"}, Synchronise(type)
        PROVE  Finished(t)
    <2>1. type \in Blocking /\ Takes(type) /\ apQueue' = Tail(apQueue)
      BY <1>2 DEF Synchronise, Blocking
    <2>2. Head(apQueue) = apQueue[1]
      BY <2>1, QueueTail DEF TypeInv
    <2>3. h = apQueue[1].thread /\ taskCount[AppOf[h]] = 0
      BY <1>2, <2>2 DEF Synchronise, Return, callVars
    <2>4. AppOf[h] \in Apps /\ Unended(AppOf[h]) = {}
      BY <2>3, AppOfAssumption, UnendedCount DEF LifeInv, CountOK
    <2> QED BY <2>1, <2>3, <2>4, NothingToAnalyseFirst, UncountedFinished
  <1>3. ASSUME NEW g \in Threads, ThreadStep(g) PROVE FALSE
    <2>1. g # h => pc'[h] = pc[h]
      BY <1>3
      DEF ThreadStep, ExecuteTask, Barrier, NoMoreTasks, MainAccess, WaitForTask, Ask, Return, TypeInv, TypeOK
    <2>2. g = h => pc[h] \in {"running", "registered"}
      BY <1>3 DEF ThreadStep, ExecuteTask, Barrier, NoMoreTasks, MainAccess, WaitForTask
    <2> QED BY <2>1, <2>2
  <1>4. CASE RegisterDataAccess \/ FindWaitedTask
    <2>1. PICK type \in {"register", "wait"} : Takes(type) /\ apQueue' = Tail(apQueue)
      BY <1>4 DEF RegisterDataAccess, FindWaitedTask
    <2>2. Head(apQueue) = apQueue[1] /\ pc[apQueue[1].thread] = type
      BY <2>1, QueueTail, TailAsking DEF TypeInv, Blocking
    <2>3. h # apQueue[1].thread
      BY <2>2
    <2>4. CASE RegisterDataAccess
      BY <2>2, <2>3, <2>4 DEF RegisterDataAccess, TypeInv, TypeOK
    <2>5. CASE FindWaitedTask
      BY <2>3, <2>5, FindWaitedThread
    <2> QED BY <1>4, <2>4, <2>5
  <1>5. CASE \/ ProcessTask \/ Shutdown \/ SubmitExecutions \/ UNCHANGED vars
             \/ \E u \in Tasks : StartExecution(u) \/ CompleteExecution(u) \/ FailExecution(u)
    BY <1>5
    DEF ProcessTask, Shutdown, SubmitExecutions, vars, StartExecution, CompleteExecution, FailExecution,
        EndExecution, threadVars
  <1> QED
    BY <1>1, <1>2, <1>3, <1>4, <1>5 DEF Next, APStep, BarrierRequest, EndOfAppRequest

\* barrier and noMoreTasks release a thread only when all the tasks that it submitted
\* have finished, although what is counted is the tasks of the application.
THEOREM BarriersWaitForTasks ==
    ASSUME SingleExecution
    PROVE  Spec => BarrierWaitsForTasks
  <1>1. TypeInv /\ PhaseInv /\ RequestsInv /\ LifeInv /\ [Next]_vars
        => [\A h \in Threads :
              /\ pc[h] \in {"barrier", "endOfApp"}
              /\ pc'[h] \in {"running", "ended"}
              => \A t \in Tasks : owner[t] = h => Finished(t)]_vars
    BY BarrierStep
  <1> QED BY <1>1, LifeInvariance, PTL DEF Spec, BarrierWaitsForTasks

-----------------------------------------------------------------------------
(* Blocked threads *)

\* What a blocked thread waits for, with the count of its application for its tasks.
Kept(h) ==
    /\ pc[h] \in {"barrier", "endOfApp"} =>
          \/ InQueue(apQueue, Request(pc[h], None, h))
          \/ semaphore[AppOf[h]] = h /\ taskCount[AppOf[h]] # 0
    /\ pc[h] = "wait" =>
          \/ InQueue(apQueue, Request("wait", None, h))
          \/ \E t \in Tasks : h \in waitedTasks[t] /\ ended[t] = 0

WakeupInv == \A h \in Threads : Kept(h)

\* A thread stays blocked while what it waits for stays.
LEMMA KeptFrame ==
    ASSUME NEW h \in Threads, Kept(h), pc'[h] = pc[h],
           \A type \in Blocking :
               InQueue(apQueue, Request(type, None, h)) => InQueue(apQueue', Request(type, None, h)),
           semaphore[AppOf[h]] = h /\ taskCount[AppOf[h]] # 0
               => semaphore'[AppOf[h]] = h /\ taskCount'[AppOf[h]] # 0,
           \A t \in Tasks : h \in waitedTasks[t] /\ ended[t] = 0 => h \in waitedTasks'[t] /\ ended'[t] = 0
    PROVE  Kept(h)'
  <1>1. ASSUME pc'[h] \in {"barrier", "endOfApp"}
        PROVE  \/ InQueue(apQueue', Request(pc'[h], None, h))
               \/ semaphore'[AppOf[h]] = h /\ taskCount'[AppOf[h]] # 0
    BY <1>1 DEF Kept, Blocking
  <1>2. ASSUME pc'[h] = "wait"
        PROVE  \/ InQueue(apQueue', Request("wait", None, h))
               \/ \E t \in Tasks : h \in waitedTasks'[t] /\ ended'[t] = 0
    BY <1>2 DEF Kept, Blocking
  <1> QED BY <1>1, <1>2 DEF Kept

\* The initial states.
LEMMA InitWakeupInv == Init => WakeupInv
  BY DEF Init, WakeupInv, Kept

\* A step that leaves the semaphores, the counts and the waited tasks alone, and takes
\* nothing from the queue.
LEMMA SameKept ==
    ASSUME TypeInv, NEW h \in Threads, Kept(h), pc'[h] = pc[h],
           UNCHANGED <<semaphore, taskCount, waitedTasks, ended>>,
           apQueue' = apQueue \/ \E r \in Requests : apQueue' = Append(apQueue, r)
    PROVE  Kept(h)'
  <1>1. \A x : InQueue(apQueue, x) => InQueue(apQueue', x)
    BY AskedAppend DEF TypeInv
  <1> QED BY <1>1, KeptFrame

\* The AP takes a request that is not of this thread: the requests of the thread stay.
LEMMA TailKept ==
    ASSUME TypeInv, RequestsInv, NEW type, Takes(type), apQueue' = Tail(apQueue),
           NEW h \in Threads, type \in Blocking => apQueue[1].thread # h,
           NEW kind \in Blocking, InQueue(apQueue, Request(kind, None, h))
    PROVE  InQueue(apQueue', Request(kind, None, h))
  <1>1. apQueue[1].type = type
    BY QueueTail DEF TypeInv
  <1>2. Request(kind, None, h) # apQueue[1]
    BY <1>1, RequestFacts
  <1> QED BY <1>2, AskedTail DEF TypeInv, RequestsInv

\* An end that is treated releases the threads that wait for that task, and the one
\* that waits for the application when no task is left.
LEMMA EndTaskWakeup ==
    ASSUME TypeInv, PhaseInv, RequestsInv, LifeInv, WakeupInv, EndTask, NEW h \in Threads
    PROVE  Kept(h)'
  <1>1. Takes("end") /\ apQueue' = Tail(apQueue) /\ "end" \notin Blocking
    BY DEF EndTask, Blocking
  <1>2. PICK t \in Tasks :
              /\ t = apQueue[1].task /\ Head(apQueue) = apQueue[1] /\ owner[t] \in Threads
              /\ executionCount[t] = 0 /\ AppOf[owner[t]] \in counted
              /\ taskCount[AppOf[owner[t]]] >= 1
              /\ AppOf[owner[t]] \in Apps
    BY EndTaskFacts
  <1> DEFINE a == AppOf[owner[t]]
  <1>3. \A kind \in Blocking :
           InQueue(apQueue, Request(kind, None, h)) => InQueue(apQueue', Request(kind, None, h))
    BY <1>1, TailKept
  <1>4. CASE UNCHANGED <<pc, semaphore, taskCount, waitedTasks, ended>>
    BY <1>3, <1>4, KeptFrame DEF WakeupInv
  <1>5. CASE TreatEnd(t, a)
    <2>1. CASE h \in Released(t, a)
      <3>1. pc'[h] \in {"running", "ended"}
        BY <1>5, <2>1, ReturnFacts DEF TreatEnd
      <3> QED BY <3>1 DEF Kept
    <2>2. CASE h \notin Released(t, a)
      <3>1. pc'[h] = pc[h]
        BY <1>5, <2>2, ReturnFacts DEF TreatEnd
      <3>2. /\ taskCount' = [taskCount EXCEPT ![a] = @ - 1]
            /\ semaphore' = IF taskCount[a] = 1 THEN [semaphore EXCEPT ![a] = None] ELSE semaphore
            /\ waitedTasks' = [waitedTasks EXCEPT ![t] = {}]
            /\ ended' = [ended EXCEPT ![t] = @ + 1]
        BY <1>5 DEF TreatEnd
      <3>3. ASSUME semaphore[AppOf[h]] = h, taskCount[AppOf[h]] # 0
            PROVE  semaphore'[AppOf[h]] = h /\ taskCount'[AppOf[h]] # 0
        <4>1. AppOf[h] \in Apps /\ h # None
          BY AppOfAssumption, NoneAssumption
        <4>2. CASE AppOf[h] = a
          <5>1. taskCount[a] # 1
            BY <2>2, <3>3, <4>1, <4>2 DEF Released
          <5> QED BY <1>2, <3>2, <3>3, <4>2, <5>1 DEF TypeInv, TypeOK
        <4>3. CASE AppOf[h] # a
          BY <1>2, <3>2, <3>3, <4>1, <4>3 DEF TypeInv, TypeOK
        <4> QED BY <4>2, <4>3
      <3>4. ASSUME NEW u \in Tasks, h \in waitedTasks[u], ended[u] = 0
            PROVE  h \in waitedTasks'[u] /\ ended'[u] = 0
        <4>1. u # t
          BY <2>2, <3>4 DEF Released
        <4> QED BY <3>2, <3>4, <4>1 DEF TypeInv, TypeOK
      <3> QED BY <1>3, <3>1, <3>3, <3>4, KeptFrame DEF WakeupInv
    <2> QED BY <2>1, <2>2
  <1> QED BY <1>2, <1>4, <1>5 DEF EndTask, callVars, countVars

\* A semaphore is kept while there are tasks to wait for; it replaces no other, because
\* the application has no other thread.
LEMMA SynchroniseWakeup ==
    ASSUME OneThreadPerApp, TypeInv, RequestsInv, WakeupInv,
           NEW type \in {"barrier", "endOfApp"}, Synchronise(type), NEW h \in Threads
    PROVE  Kept(h)'
  <1>1. type \in Blocking /\ Takes(type) /\ apQueue' = Tail(apQueue)
    BY DEF Synchronise, Blocking
  <1>2. PICK g \in Threads : g = apQueue[1].thread /\ Head(apQueue) = apQueue[1] /\ pc[g] = type
    BY <1>1, QueueTail, TailAsking DEF TypeInv
  <1>3. UNCHANGED <<taskCount, waitedTasks, ended>>
    BY DEF Synchronise
  <1>4. CASE h # g
    <2>1. pc'[h] = pc[h]
      BY <1>2, <1>4 DEF Synchronise, Return, callVars
    <2>2. AppOf[h] # AppOf[g] /\ AppOf[h] \in Apps /\ AppOf[g] \in Apps
      BY <1>4, AppOfAssumption DEF OneThreadPerApp
    <2>3. semaphore'[AppOf[h]] = semaphore[AppOf[h]]
      BY <1>2, <2>2 DEF Synchronise, TypeInv, TypeOK
    <2>4. \A kind \in Blocking :
             InQueue(apQueue, Request(kind, None, h)) => InQueue(apQueue', Request(kind, None, h))
      BY <1>1, <1>2, <1>4, TailKept
    <2> QED BY <1>3, <2>1, <2>3, <2>4, KeptFrame DEF WakeupInv
  <1>5. CASE h = g
    <2>1. CASE Return({g})
      <3>1. pc'[h] \in {"running", "ended"}
        BY <1>5, <2>1 DEF Return
      <3> QED BY <3>1 DEF Kept
    <2>2. CASE taskCount[AppOf[g]] # 0 /\ semaphore' = [semaphore EXCEPT ![AppOf[g]] = g] /\ pc' = pc
      <3>1. semaphore'[AppOf[h]] = h /\ taskCount'[AppOf[h]] # 0 /\ pc'[h] # "wait"
        BY <1>2, <1>3, <1>5, <2>2, AppOfAssumption DEF TypeInv, TypeOK
      <3> QED BY <3>1 DEF Kept
    <2> QED BY <1>2, <2>1, <2>2 DEF Synchronise, callVars
  <1> QED BY <1>4, <1>5

\* A thread waits for a task whose end has not been treated: that of a finished task
\* is not waited for.
LEMMA FindWaitedWakeup ==
    ASSUME TypeInv, RequestsInv, LifeInv, WakeupInv, FindWaitedTask, NEW h \in Threads
    PROVE  Kept(h)'
  <1>1. "wait" \in Blocking /\ Takes("wait") /\ apQueue' = Tail(apQueue)
    BY DEF FindWaitedTask, Blocking
  <1>2. PICK g \in Threads : g = apQueue[1].thread /\ Head(apQueue) = apQueue[1] /\ pc[g] = "wait"
    BY <1>1, QueueTail, TailAsking DEF TypeInv
  <1> DEFINE w == writers[target[g].data]
  <1>3. UNCHANGED <<taskCount, semaphore, ended>>
    BY DEF FindWaitedTask, countVars
  <1>4. target[g].data \in Data
    BY <1>2 DEF TypeInv, TargetsOK
  <1>5. \/ Return({g}) /\ waitedTasks' = waitedTasks
        \/ /\ w # None /\ status[w] # "FINISHED"
           /\ waitedTasks' = [waitedTasks EXCEPT ![w] = @ \cup {g}]
           /\ pc' = pc
    BY <1>2 DEF FindWaitedTask, callVars
  <1>6. w \in Tasks \cup {None}
    BY <1>4 DEF TypeInv, TypeOK
  <1> HIDE DEF w
  <1>7. CASE h # g
    <2>1. pc'[h] = pc[h]
      BY <1>2, <1>7, FindWaitedThread
    <2>2. \A t \in Tasks : h \in waitedTasks[t] => h \in waitedTasks'[t]
      <3>1. \/ waitedTasks' = waitedTasks
            \/ waitedTasks' = [waitedTasks EXCEPT ![w] = @ \cup {g}]
        BY <1>5
      <3>2. waitedTasks \in [Tasks -> SUBSET Threads]
        BY DEF TypeInv, TypeOK
      <3> QED BY <3>1, <3>2
    <2>3. \A kind \in Blocking :
             InQueue(apQueue, Request(kind, None, h)) => InQueue(apQueue', Request(kind, None, h))
      BY <1>1, <1>2, <1>7, TailKept
    <2> QED BY <1>3, <2>1, <2>2, <2>3, KeptFrame DEF WakeupInv
  <1>8. CASE h = g
    <2>1. CASE Return({g})
      <3>1. pc'[h] \in {"running", "ended"}
        BY <1>8, <2>1 DEF Return
      <3> QED BY <3>1 DEF Kept
    <2>2. CASE /\ w # None /\ status[w] # "FINISHED"
               /\ waitedTasks' = [waitedTasks EXCEPT ![w] = @ \cup {g}]
               /\ pc' = pc
      <3>1. w \in Tasks /\ TaskLife(w)
        BY <1>6, <2>2 DEF LifeInv
      <3>2. ended[w] = 0 /\ h \in waitedTasks'[w] /\ pc'[h] = "wait"
        BY <1>2, <1>8, <2>2, <3>1 DEF TaskLife, TypeInv, TypeOK
      <3> QED BY <1>3, <3>1, <3>2 DEF Kept
    <2> QED BY <1>5, <2>1, <2>2
  <1> QED BY <1>7, <1>8

\* WakeupInv is inductive relative to the other invariants.
LEMMA NextWakeupInv ==
    ASSUME OneThreadPerApp, TypeInv, PhaseInv, RequestsInv, LifeInv, WakeupInv, [Next]_vars,
           NEW h \in Threads
    PROVE  Kept(h)'
  <1>0. Kept(h)
    BY DEF WakeupInv
  <1>1. ASSUME NEW g \in Threads, NEW type \in Blocking, Ask(g, type)
        PROVE  Kept(h)'
    <2> DEFINE r == Request(type, None, g)
    <2>1. /\ r \in Requests /\ apQueue' = Append(apQueue, r) /\ pc' = [pc EXCEPT ![g] = type]
          /\ UNCHANGED <<semaphore, taskCount, waitedTasks, ended>>
      BY <1>1 DEF Ask, countVars, Request, Requests
    <2>2. CASE h = g
      <3>1. InQueue(apQueue', r) /\ pc'[h] = type
        BY <2>1, <2>2, AskedAppend DEF TypeInv, TypeOK
      <3> QED BY <2>2, <3>1 DEF Kept
    <2>3. CASE h # g
      BY <1>0, <2>1, <2>3, SameKept DEF TypeInv, TypeOK
    <2> QED BY <2>2, <2>3
  <1>2. ASSUME NEW g \in Threads, ThreadStep(g)
        PROVE  Kept(h)'
    <2>1. ASSUME NEW sig \in Signatures, ExecuteTask(g, sig) PROVE Kept(h)'
      <3>1. Request("analyse", nextTask, g) \in Requests
        BY <2>1 DEF ExecuteTask, Request, Requests
      <3>2. /\ apQueue' = Append(apQueue, Request("analyse", nextTask, g))
            /\ UNCHANGED <<pc, semaphore, taskCount, waitedTasks, ended>>
        BY <2>1 DEF ExecuteTask, countVars
      <3> QED BY <1>0, <3>1, <3>2, SameKept
    <2>2. CASE WaitForTask(g) /\ Return({g})
               /\ UNCHANGED <<apQueue, countVars, waitedTasks, ended>>
      <3>1. pc'[g] = "running"
        BY <2>2 DEF WaitForTask, Return
      <3>2. CASE h = g
        BY <3>1, <3>2 DEF Kept
      <3>3. CASE h # g
        BY <1>0, <2>2, <3>3, SameKept DEF Return, countVars
      <3> QED BY <3>2, <3>3
    <2>3. \/ \E sig \in Signatures : ExecuteTask(g, sig)
          \/ \E type \in Blocking : Ask(g, type)
          \/ WaitForTask(g) /\ Return({g}) /\ UNCHANGED <<apQueue, countVars, waitedTasks, ended>>
      BY <1>2 DEF ThreadStep, Barrier, NoMoreTasks, MainAccess, WaitForTask, Blocking
    <2> QED BY <1>1, <2>1, <2>2, <2>3
  <1>3. CASE ProcessTask
    <2>1. Takes("analyse") /\ apQueue' = Tail(apQueue) /\ "analyse" \notin Blocking
      BY <1>3 DEF ProcessTask, Blocking
    <2>2. \A kind \in Blocking :
             InQueue(apQueue, Request(kind, None, h)) => InQueue(apQueue', Request(kind, None, h))
      BY <2>1, TailKept
    <2>3. /\ UNCHANGED <<pc, semaphore, waitedTasks, ended>>
          /\ \E a : taskCount' = [taskCount EXCEPT ![a] = @ + 1]
      BY <1>3 DEF ProcessTask, threadVars
    <2>4. AppOf[h] \in Apps /\ taskCount[AppOf[h]] \in Nat
      BY AppOfAssumption, UnendedFinite DEF LifeInv, CountOK
    <2>5. taskCount[AppOf[h]] # 0 => taskCount'[AppOf[h]] # 0
      BY <2>3, <2>4 DEF TypeInv, TypeOK
    <2> QED BY <1>0, <2>2, <2>3, <2>5, KeptFrame
  <1>4. CASE EndTask
    BY <1>4, EndTaskWakeup
  <1>5. CASE BarrierRequest \/ EndOfAppRequest
    BY <1>5, SynchroniseWakeup DEF BarrierRequest, EndOfAppRequest
  <1>6. CASE RegisterDataAccess
    <2>1. "register" \in Blocking /\ Takes("register") /\ apQueue' = Tail(apQueue)
      BY <1>6 DEF RegisterDataAccess, Blocking
    <2>2. PICK g \in Threads : g = apQueue[1].thread /\ Head(apQueue) = apQueue[1]
      BY <2>1, QueueTail, TailAsking DEF TypeInv
    <2>3. /\ pc' = [pc EXCEPT ![g] = "registered"]
          /\ UNCHANGED <<semaphore, taskCount, waitedTasks, ended>>
      BY <1>6, <2>2 DEF RegisterDataAccess, countVars
    <2>4. CASE h = g
      <3>1. pc'[h] = "registered"
        BY <2>3, <2>4 DEF TypeInv, TypeOK
      <3> QED BY <3>1 DEF Kept
    <2>5. CASE h # g
      <3>1. pc'[h] = pc[h]
        BY <2>3, <2>5 DEF TypeInv, TypeOK
      <3>2. \A kind \in Blocking :
               InQueue(apQueue, Request(kind, None, h)) => InQueue(apQueue', Request(kind, None, h))
        BY <2>1, <2>2, <2>5, TailKept
      <3> QED BY <1>0, <2>3, <3>1, <3>2, KeptFrame
    <2> QED BY <2>4, <2>5
  <1>7. CASE FindWaitedTask
    BY <1>7, FindWaitedWakeup
  <1>8. ASSUME NEW t \in Tasks, CompleteExecution(t) \/ FailExecution(t)
        PROVE  Kept(h)'
    <2>1. Request("end", t, None) \in Requests
      BY DEF Request, Requests
    <2>2. /\ apQueue' = Append(apQueue, Request("end", t, None))
          /\ UNCHANGED <<pc, semaphore, taskCount, waitedTasks, ended>>
      BY <1>8 DEF CompleteExecution, FailExecution, EndExecution, threadVars, countVars
    <2> QED BY <1>0, <2>1, <2>2, SameKept
  <1>9. CASE Shutdown \/ SubmitExecutions \/ UNCHANGED vars \/ \E t \in Tasks : StartExecution(t)
    <2>1. UNCHANGED <<apQueue, pc, semaphore, taskCount, waitedTasks, ended>>
      BY <1>9 DEF Shutdown, SubmitExecutions, vars, StartExecution, threadVars, countVars
    <2> QED BY <1>0, <2>1, SameKept
  <1> QED
    BY <1>2, <1>3, <1>4, <1>5, <1>6, <1>7, <1>8, <1>9 DEF Next, APStep

\* No blocked thread is forgotten: its request is in the queue of the AP, or its
\* semaphore is kept for a task whose end has still to be treated, provided that an
\* application has one thread (appIdToSemaphore keeps one semaphore per application).
THEOREM BlockedThreadsAreKept ==
    ASSUME SingleExecution, OneThreadPerApp
    PROVE  Spec => []NoLostWakeup
  <1>1. Init => WakeupInv
    BY InitWakeupInv
  <1>2. TypeInv /\ PhaseInv /\ RequestsInv /\ LifeInv /\ WakeupInv /\ [Next]_vars => WakeupInv'
    BY NextWakeupInv DEF WakeupInv
  <1>3. LifeInv /\ WakeupInv => NoLostWakeup
    <2> SUFFICES ASSUME LifeInv, WakeupInv, NEW h \in Threads
                 PROVE  /\ pc[h] \in {"barrier", "endOfApp"} =>
                              \/ InQueue(apQueue, Request(pc[h], None, h))
                              \/ semaphore[AppOf[h]] = h /\ Unended(AppOf[h]) # {}
                        /\ pc[h] = "wait" =>
                              \/ InQueue(apQueue, Request("wait", None, h))
                              \/ \E t \in Tasks : h \in waitedTasks[t] /\ ended[t] = 0
      BY DEF NoLostWakeup
    <2>1. taskCount[AppOf[h]] # 0 => Unended(AppOf[h]) # {}
      BY AppOfAssumption, UnendedCount DEF LifeInv, CountOK
    <2> QED BY <2>1 DEF WakeupInv, Kept
  <1> QED BY <1>1, <1>2, <1>3, LifeInvariance, PTL DEF Spec

-----------------------------------------------------------------------------
(* The refinement of Dataflow *)

\* Hypothesis: the tasks of other threads do not access the data of a main program, and
\* neither do other main programs its objects.
OwnData ==
    \A h, g \in Threads :
        h # g => /\ MainData[h] \cap TaskData[g] = {}
                 /\ Objects \cap MainData[h] \cap MainData[g] = {}

\* The last writer that the AP keeps is the producer of the current version.
WritersExact == \A d \in Data : producer[d] # None => writers[d] = producer[d]

\* A thread that only writes needs no version. One that reads needs the version of the
\* last writer of the datum until it waits for that task, and waits for nothing else.
AwaitedOK(h) ==
    /\ pc[h] = "registered" /\ ~ Reads(target[h].mode) => mainNeeds[h] = {}
    /\ pc[h] \in {"registered", "wait"} /\ (\A t \in Tasks : h \notin waitedTasks[t])
         => \A p \in mainNeeds[h] : writers[target[h].data] = p
    /\ \A t \in Tasks : h \in waitedTasks[t] => mainNeeds[h] \subseteq {t}

AccessInv == WritersExact /\ \A h \in Threads : AwaitedOK(h)

\* OwnData is stronger than the hypothesis of DependencyInv.
LEMMA OwnDataIsPrivate == OwnData => PrivateObjects
  BY DEF OwnData, PrivateObjects

-----------------------------------------------------------------------------
(* The accesses of the main programs *)

\* The initial states.
LEMMA InitAccessInv == Init => AccessInv
  BY DEF Init, AccessInv, WritersExact, AwaitedOK

\* A thread that has no access registered waits for no task.
LEMMA IdleAwaited ==
    ASSUME TypeInv', NEW h \in Threads, pc'[h] \notin {"registered", "wait"}
    PROVE  AwaitedOK(h)'
  <1>1. \A t \in Tasks : h \notin waitedTasks'[t]
    BY DEF TypeInv, WaitedOK
  <1> QED BY <1>1 DEF AwaitedOK

\* The access of a thread is as it was, or goes on to wait.
LEMMA AwaitedFrame ==
    ASSUME NEW h \in Threads, AwaitedOK(h), TypeInv',
           \/ pc'[h] = pc[h]
           \/ pc[h] = "registered" /\ pc'[h] = "wait"
           \/ pc'[h] \notin {"registered", "wait"},
           pc'[h] \in {"registered", "wait"} =>
               /\ target'[h] = target[h] /\ mainNeeds'[h] = mainNeeds[h]
               /\ writers'[target[h].data] = writers[target[h].data]
               /\ \A t \in Tasks : h \in waitedTasks'[t] <=> h \in waitedTasks[t]
    PROVE  AwaitedOK(h)'
  <1>1. CASE pc'[h] \notin {"registered", "wait"}
    BY <1>1, IdleAwaited
  <1>2. CASE pc'[h] \in {"registered", "wait"}
    BY <1>2 DEF AwaitedOK
  <1> QED BY <1>1, <1>2

\* A step that leaves the writers, the producers and the waited tasks alone.
LEMMA AccessFrameInv ==
    ASSUME AccessInv, TypeInv', UNCHANGED <<writers, producer, waitedTasks>>,
           \A h \in Threads :
               \/ pc'[h] \notin {"registered", "wait"}
               \/ /\ pc'[h] = pc[h] \/ (pc[h] = "registered" /\ pc'[h] = "wait")
                  /\ target'[h] = target[h] /\ mainNeeds'[h] = mainNeeds[h]
    PROVE  AccessInv'
  <1>1. WritersExact'
    BY DEF AccessInv, WritersExact
  <1>2. \A h \in Threads : AwaitedOK(h)'
    BY AwaitedFrame DEF AccessInv
  <1> QED BY <1>1, <1>2 DEF AccessInv

\* A task that is analysed becomes the producer and the last writer of what it writes,
\* and none of that is accessed by a main program that goes on.
LEMMA ProcessTaskAccessInv ==
    ASSUME OwnData, TypeInv, PhaseInv, DependencyInv, AccessInv, TypeInv', ProcessTask
    PROVE  AccessInv'
  <1>1. Takes("analyse") /\ apQueue' = Tail(apQueue)
    BY DEF ProcessTask
  <1>2. PICK t \in Tasks, g \in Threads :
           /\ Head(apQueue) = apQueue[1] /\ apQueue[1].type = "analyse" /\ 1 \in 1 .. Len(apQueue)
           /\ t = apQueue[1].task /\ g = apQueue[1].thread
    BY <1>1, QueueTail DEF TypeInv, QueueOK
  <1>3. /\ writers' = [d \in Data |-> IF d \in WrittenData(t) THEN t ELSE writers[d]]
        /\ producer' = [d \in Data |-> IF d \in WrittenData(t) THEN t ELSE producer[d]]
        /\ UNCHANGED <<pc, target, mainNeeds, waitedTasks>>
    BY <1>2 DEF ProcessTask, threadVars
  <1>4. WritersExact'
    BY <1>3 DEF AccessInv, WritersExact
  <1>5. ASSUME NEW h \in Threads PROVE AwaitedOK(h)'
    <2>1. ASSUME pc[h] \in {"registered", "wait"}
          PROVE  writers'[target[h].data] = writers[target[h].data]
      <3>1. target[h].data \in Data /\ target[h].data \in MainData[h]
        BY <2>1 DEF TypeInv, TargetsOK
      <3>2. g # h
        BY <1>2, <2>1 DEF DependencyInv, AnalysedFirst
      <3>3. target[h].data \notin TaskData[g]
        BY <3>1, <3>2 DEF OwnData
      <3>4. signature[t][target[h].data] = "none"
        BY <1>2, <3>1, <3>3 DEF DependencyInv, SignaturesOK
      <3>5. target[h].data \notin WrittenData(t)
        BY <3>4 DEF WrittenData, Writes
      <3> QED BY <1>3, <3>1, <3>5
    <2> QED BY <1>3, <2>1, AwaitedFrame DEF AccessInv
  <1> QED BY <1>4, <1>5 DEF AccessInv

\* The threads that the end of a task does not release wait as they did.
LEMMA EndTaskAccessInv ==
    ASSUME TypeInv, PhaseInv, RequestsInv, LifeInv, AccessInv, TypeInv', EndTask
    PROVE  AccessInv'
  <1>1. PICK t \in Tasks : t = apQueue[1].task /\ Head(apQueue) = apQueue[1] /\ AppOf[owner[t]] \in Apps
    BY EndTaskFacts
  <1>2. UNCHANGED <<writers, producer>>
    BY DEF EndTask
  <1>3. CASE UNCHANGED <<pc, target, mainNeeds, waitedTasks>>
    BY <1>2, <1>3, AccessFrameInv
  <1>4. CASE TreatEnd(t, AppOf[owner[t]])
    <2> DEFINE S == Released(t, AppOf[owner[t]])
    <2>1. Return(S) /\ waitedTasks' = [waitedTasks EXCEPT ![t] = {}]
      BY <1>4 DEF TreatEnd
    <2>2. WritersExact'
      BY <1>2 DEF AccessInv, WritersExact
    <2>3. ASSUME NEW h \in Threads PROVE AwaitedOK(h)'
      <3>1. CASE h \in S
        BY <2>1, <3>1, ReturnFacts, IdleAwaited
      <3>2. CASE h \notin S
        <4>1. pc'[h] = pc[h] /\ target'[h] = target[h] /\ mainNeeds'[h] = mainNeeds[h]
          BY <2>1, <3>2 DEF Return
        <4>2. h \notin waitedTasks[t]
          BY <3>2 DEF Released
        <4>3. \A u \in Tasks : h \in waitedTasks'[u] <=> h \in waitedTasks[u]
          BY <2>1, <4>2 DEF TypeInv, TypeOK
        <4> QED BY <1>2, <4>1, <4>3, AwaitedFrame DEF AccessInv
      <3> QED BY <3>1, <3>2
    <2> QED BY <2>2, <2>3 DEF AccessInv
  <1> QED BY <1>1, <1>3, <1>4 DEF EndTask, callVars

\* The version that a thread is given is produced by the last writer.
LEMMA RegisterAccessInv ==
    ASSUME TypeInv, AccessInv, TypeInv', RegisterDataAccess
    PROVE  AccessInv'
  <1>1. Takes("register") /\ apQueue' = Tail(apQueue) /\ "register" \in Blocking
    BY DEF RegisterDataAccess, Blocking
  <1>2. PICK g \in Threads : g = apQueue[1].thread /\ Head(apQueue) = apQueue[1] /\ pc[g] = "register"
    BY <1>1, QueueTail, TailAsking DEF TypeInv
  <1>3. PICK d \in Data : d = target[g].data
    BY <1>2 DEF TypeInv, TargetsOK
  <1>4. /\ pc' = [pc EXCEPT ![g] = "registered"]
        /\ mainNeeds' = [mainNeeds EXCEPT
                            ![g] = IF Reads(target[g].mode) THEN {producer[d]} \ {None} ELSE {}]
        /\ producer' = IF Writes(target[g].mode) THEN [producer EXCEPT ![d] = None] ELSE producer
        /\ UNCHANGED <<target, writers, waitedTasks>>
    BY <1>2, <1>3 DEF RegisterDataAccess
  <1>5. WritersExact'
    BY <1>4 DEF AccessInv, WritersExact, TypeInv, TypeOK
  <1>6. ASSUME NEW h \in Threads PROVE AwaitedOK(h)'
    <2>1. CASE h = g
      <3>1. \A t \in Tasks : h \notin waitedTasks[t]
        BY <1>2, <2>1 DEF TypeInv, WaitedOK
      <3>2. mainNeeds'[h] = IF Reads(target[g].mode) THEN {producer[d]} \ {None} ELSE {}
        BY <1>4, <2>1 DEF TypeInv, TypeOK
      <3> QED BY <1>3, <1>4, <2>1, <3>1, <3>2 DEF AwaitedOK, AccessInv, WritersExact
    <2>2. CASE h # g
      <3>1. pc'[h] = pc[h] /\ mainNeeds'[h] = mainNeeds[h]
        BY <1>4, <2>2 DEF TypeInv, TypeOK
      <3> QED BY <1>4, <3>1, AwaitedFrame DEF AccessInv
    <2> QED BY <2>1, <2>2
  <1> QED BY <1>5, <1>6 DEF AccessInv

\* A thread waits for the task whose version it was given.
LEMMA FindWaitedAccessInv ==
    ASSUME OwnData, TypeInv, DependencyInv, AccessInv, TypeInv', FindWaitedTask
    PROVE  AccessInv'
  <1>1. Takes("wait") /\ apQueue' = Tail(apQueue) /\ "wait" \in Blocking
    BY DEF FindWaitedTask, Blocking
  <1>2. PICK g \in Threads : g = apQueue[1].thread /\ Head(apQueue) = apQueue[1] /\ pc[g] = "wait"
                             /\ ~ NotAsking(g)
    BY <1>1, QueueTail, TailAsking DEF TypeInv
  <1>3. PICK d \in Data : d = target[g].data /\ d \in MainData[g]
    BY <1>2 DEF TypeInv, TargetsOK
  <1>4. PICK w \in Tasks \cup {None} : w = writers[d]
    BY DEF TypeInv, TypeOK
  <1>5. /\ writers' = IF d \in Objects THEN [writers EXCEPT ![d] = None] ELSE writers
        /\ producer' = producer
        /\ \/ Return({g}) /\ waitedTasks' = waitedTasks
           \/ /\ w # None
              /\ waitedTasks' = [waitedTasks EXCEPT ![w] = @ \cup {g}]
              /\ UNCHANGED <<pc, target, mainNeeds>>
    BY <1>2, <1>3, <1>4 DEF FindWaitedTask, callVars
  <1>6. WritersExact'
    <2>1. d \in Objects => producer[d] = None
      BY <1>2, <1>3 DEF DependencyInv, TakenObjects
    <2> QED BY <1>5, <2>1 DEF AccessInv, WritersExact, TypeInv, TypeOK
  <1>7. ASSUME NEW h \in Threads, h # g PROVE AwaitedOK(h)'
    <2>1. pc'[h] = pc[h] /\ target'[h] = target[h] /\ mainNeeds'[h] = mainNeeds[h]
      BY <1>5, <1>7 DEF Return
    <2>2. \A t \in Tasks : h \in waitedTasks'[t] <=> h \in waitedTasks[t]
      <3>1. \/ waitedTasks' = waitedTasks
            \/ waitedTasks' = [waitedTasks EXCEPT ![w] = @ \cup {g}]
        BY <1>5
      <3>2. waitedTasks \in [Tasks -> SUBSET Threads]
        BY DEF TypeInv, TypeOK
      <3> QED BY <1>7, <3>1, <3>2
    <2>3. ASSUME pc[h] \in {"registered", "wait"}
          PROVE  writers'[target[h].data] = writers[target[h].data]
      <3>1. target[h].data \in Data /\ target[h].data \in MainData[h]
        BY <2>3 DEF TypeInv, TargetsOK
      <3>2. d \in Objects => target[h].data # d
        BY <1>3, <1>7, <3>1 DEF OwnData
      <3> QED BY <1>5, <3>1, <3>2 DEF TypeInv, TypeOK
    <2> QED BY <2>1, <2>2, <2>3, AwaitedFrame DEF AccessInv
  <1>8. AwaitedOK(g)'
    <2>1. CASE Return({g})
      BY <2>1, IdleAwaited DEF Return
    <2>2. CASE /\ w # None
               /\ waitedTasks' = [waitedTasks EXCEPT ![w] = @ \cup {g}]
               /\ UNCHANGED <<pc, target, mainNeeds>>
      <3>1. \A t \in Tasks : g \notin waitedTasks[t]
        BY <1>2 DEF TypeInv, WaitedOK
      <3>2. mainNeeds[g] \subseteq {w}
        BY <1>2, <1>3, <1>4, <3>1 DEF AccessInv, AwaitedOK
      <3>3. \A t \in Tasks : g \in waitedTasks'[t] <=> t = w
        BY <1>4, <2>2, <3>1 DEF TypeInv, TypeOK
      <3> QED BY <1>2, <1>4, <2>2, <3>2, <3>3 DEF AwaitedOK
    <2> QED BY <1>5, <2>1, <2>2
  <1> QED BY <1>6, <1>7, <1>8 DEF AccessInv

\* AccessInv is inductive relative to the other invariants.
LEMMA NextAccessInv ==
    ASSUME OwnData, TypeInv, PhaseInv, DependencyInv, RequestsInv, LifeInv, AccessInv, TypeInv',
           [Next]_vars
    PROVE  AccessInv'
  <1>1. ASSUME NEW g \in Threads, ThreadStep(g) PROVE AccessInv'
    <2>1. UNCHANGED <<writers, producer, waitedTasks>>
      BY <1>1
      DEF ThreadStep, ExecuteTask, Barrier, NoMoreTasks, MainAccess, WaitForTask, Ask, historyVars
    <2>2. ASSUME NEW h \in Threads, h # g
          PROVE  pc'[h] = pc[h] /\ target'[h] = target[h] /\ mainNeeds'[h] = mainNeeds[h]
      BY <1>1, <2>2
      DEF ThreadStep, ExecuteTask, Barrier, NoMoreTasks, MainAccess, WaitForTask, Ask, Return, historyVars,
          TypeInv, TypeOK
    <2>3. \/ pc'[g] \notin {"registered", "wait"}
          \/ /\ pc'[g] = pc[g] \/ (pc[g] = "registered" /\ pc'[g] = "wait")
             /\ target'[g] = target[g] /\ mainNeeds'[g] = mainNeeds[g]
      BY <1>1
      DEF ThreadStep, ExecuteTask, Barrier, NoMoreTasks, MainAccess, WaitForTask, Ask, Return, historyVars,
          TypeInv, TypeOK
    <2> QED BY <2>1, <2>2, <2>3, AccessFrameInv
  <1>2. CASE ProcessTask
    BY <1>2, ProcessTaskAccessInv
  <1>3. CASE EndTask
    BY <1>3, EndTaskAccessInv
  <1>4. CASE BarrierRequest \/ EndOfAppRequest
    <2>1. PICK type \in {"barrier", "endOfApp"} : Synchronise(type)
      BY <1>4 DEF BarrierRequest, EndOfAppRequest
    <2>2. UNCHANGED <<writers, producer, waitedTasks>>
      BY <2>1 DEF Synchronise
    <2>3. \A h \in Threads :
               \/ pc'[h] \in {"running", "ended"}
               \/ pc'[h] = pc[h] /\ target'[h] = target[h] /\ mainNeeds'[h] = mainNeeds[h]
      BY <2>1 DEF Synchronise, Return, callVars
    <2> QED BY <2>2, <2>3, AccessFrameInv
  <1>5. CASE RegisterDataAccess
    BY <1>5, RegisterAccessInv
  <1>6. CASE FindWaitedTask
    BY <1>6, FindWaitedAccessInv
  <1>7. CASE \/ Shutdown \/ SubmitExecutions \/ UNCHANGED vars
             \/ \E t \in Tasks : StartExecution(t) \/ CompleteExecution(t) \/ FailExecution(t)
    <2>1. UNCHANGED <<writers, producer, waitedTasks, pc, target, mainNeeds>>
      BY <1>7
      DEF Shutdown, SubmitExecutions, vars, StartExecution, CompleteExecution, FailExecution, EndExecution,
          threadVars, historyVars
    <2> QED BY <2>1, AccessFrameInv
  <1> QED
    BY <1>1, <1>2, <1>3, <1>4, <1>5, <1>6, <1>7 DEF Next, APStep

-----------------------------------------------------------------------------
(* The phases of the tasks and the calls of the threads *)

\* The phase of a task depends on its owner, its state and the request to analyse it.
LEMMA PhaseFrame ==
    ASSUME NEW t \in Tasks, owner'[t] = owner[t], status'[t] = status[t], pending'[t] = pending[t],
           running'[t] = running[t], AnalyseAsked(t)' <=> AnalyseAsked(t)
    PROVE  Phase(t)' = Phase(t)
  BY DEF Phase, AnalyseAsked, Finished, Done

\* Nothing that the phases depend on changes.
LEMMA SamePhases ==
    ASSUME UNCHANGED <<owner, status, pending, running>>,
           \A t \in Tasks : AnalyseAsked(t)' <=> AnalyseAsked(t)
    PROVE  [t \in Tasks |-> Phase(t)]' = [t \in Tasks |-> Phase(t)]
  <1>1. \A t \in Tasks : Phase(t)' = Phase(t)
    BY PhaseFrame
  <1> QED BY <1>1

\* A task that has left TO_ANALYSE was submitted, and is not to be analysed any more.
LEMMA SubmittedFacts ==
    ASSUME TypeInv, PhaseInv, NEW t \in Tasks, status[t] # "TO_ANALYSE"
    PROVE  owner[t] # None /\ ~ AnalyseAsked(t)
  <1>1. owner[t] # None
    BY NoneAssumption DEF PhaseInv, StatusOK, OwnersOK
  <1>2. ASSUME AnalyseAsked(t) PROVE FALSE
    <2>1. PICK i \in 1 .. Len(apQueue) : apQueue[i] = Request("analyse", t, owner[t])
      BY <1>2 DEF AnalyseAsked, InQueue
    <2>2. apQueue[i].type = "analyse" /\ apQueue[i].task = t
      BY <2>1, RequestFacts
    <2> QED BY <2>2 DEF PhaseInv, AnalysedOnce
  <1> QED BY <1>1, <1>2

\* The phase of a task whose execution has ended.
LEMMA EndedPhase ==
    ASSUME TypeInv, PhaseInv, NEW t \in Tasks
    PROVE  /\ Finished(t) => Phase(t) = "finished"
           /\ Done(t) => Phase(t) \in {"finished", "failed"}
  <1>1. Finished(t) \/ Done(t) => owner[t] # None /\ ~ AnalyseAsked(t)
    BY SubmittedFacts DEF Finished, Done
  <1> QED BY <1>1 DEF Phase, AnalyseAsked

\* One task changes phase.
LEMMA OnePhase ==
    ASSUME NEW t \in Tasks, NEW p, Phase(t)' = p,
           \A u \in Tasks : u # t => Phase(u)' = Phase(u)
    PROVE  Flow!MoveTo(t, p)
  <1>1. [u \in Tasks |-> Phase(u)'] = [[u \in Tasks |-> Phase(u)] EXCEPT ![t] = p]
    OBVIOUS
  <1> QED BY <1>1 DEF Flow!MoveTo

\* The call of a thread depends on its control state.
LEMMA CallFrame ==
    ASSUME NEW h \in Threads, pc'[h] = pc[h]
    PROVE  CallOf(h)' = CallOf(h)
  BY DEF CallOf

\* One thread changes call.
LEMMA OneCall ==
    ASSUME NEW h \in Threads, NEW c, CallOf(h)' = c,
           \A g \in Threads : g # h => pc'[g] = pc[g]
    PROVE  [g \in Threads |-> CallOf(g)]' = [[g \in Threads |-> CallOf(g)] EXCEPT ![h] = c]
  <1>1. \A g \in Threads : g # h => CallOf(g)' = CallOf(g)
    BY CallFrame
  <1> QED BY <1>1

\* A step that changes nothing that Dataflow sees.
LEMMA FlowStutter ==
    ASSUME UNCHANGED <<owner, signature, status, pending, running, producer, needs, target, mainNeeds>>,
           \A t \in Tasks : AnalyseAsked(t)' <=> AnalyseAsked(t),
           \A h \in Threads : CallOf(h)' = CallOf(h)
    PROVE  UNCHANGED Flow!vars
  <1>1. [t \in Tasks |-> Phase(t)]' = [t \in Tasks |-> Phase(t)]
    BY SamePhases
  <1>2. [h \in Threads |-> CallOf(h)]' = [h \in Threads |-> CallOf(h)]
    OBVIOUS
  <1> QED BY <1>1, <1>2 DEF Flow!vars, Flow!taskVars, Flow!mainVars

\* Return is that of Dataflow, if the threads may return.
LEMMA FlowReturn ==
    ASSUME TypeInv, NEW H \in SUBSET Threads, Return(H),
           UNCHANGED <<owner, signature, status, pending, running, producer, needs>>,
           \A t \in Tasks : AnalyseAsked(t)' <=> AnalyseAsked(t),
           \A h \in H : pc[h] \in {"barrier", "endOfApp", "registered", "wait"},
           \A h \in H : Flow!MayReturn(h)
    PROVE  Flow!Next
  <1>1. [t \in Tasks |-> Phase(t)]' = [t \in Tasks |-> Phase(t)]
    BY SamePhases
  <1>2. ASSUME NEW h \in Threads
        PROVE  CallOf(h)' = IF h \notin H THEN CallOf(h)
                            ELSE IF CallOf(h) = "endOfApp" THEN "ended" ELSE "none"
    BY <1>2 DEF CallOf, Return
  <1>3. [h \in Threads |-> CallOf(h)]' =
           [h \in Threads |-> IF h \notin H THEN [g \in Threads |-> CallOf(g)][h]
                              ELSE IF [g \in Threads |-> CallOf(g)][h] = "endOfApp" THEN "ended" ELSE "none"]
    BY <1>2
  <1>4. Flow!Return(H)
    BY <1>1, <1>3 DEF Flow!Return, Return, Flow!taskVars, Flow!NoTarget, NoTarget
  <1> QED BY <1>4 DEF Flow!Next

-----------------------------------------------------------------------------
(* The steps of the threads *)

\* ExecuteTask creates a task.
LEMMA ExecuteTaskFlow ==
    ASSUME TypeInv, PhaseInv, RequestsInv, LifeInv, NEW h \in Threads, NEW sig \in Signatures,
           ExecuteTask(h, sig)
    PROVE  Flow!Next
  <1>1. PICK n \in Tasks : n = nextTask
    BY DEF ExecuteTask
  <1>2. /\ apQueue' = Append(apQueue, Request("analyse", n, h)) /\ pc[h] = "running"
        /\ owner' = [owner EXCEPT ![n] = h]
        /\ signature' = [signature EXCEPT ![n] = sig]
        /\ UNCHANGED <<pc, target, status, pending, running, producer, needs, mainNeeds>>
    BY <1>1 DEF ExecuteTask, stateVars, execVars, historyVars
  <1>3. owner'[n] = h /\ h # None /\ \A t \in Tasks : t # n => owner'[t] = owner[t]
    BY <1>2, NoneAssumption DEF TypeInv, TypeOK
  <1>4. Request("analyse", n, h) \in Requests
    BY DEF Request, Requests
  <1>5. \A x : InQueue(apQueue', x) <=> InQueue(apQueue, x) \/ x = Request("analyse", n, h)
    BY <1>2, <1>4, AskedAppend DEF TypeInv
  <1>6. AnalyseAsked(n)' /\ \A t \in Tasks : t # n => (AnalyseAsked(t)' <=> AnalyseAsked(t))
    BY <1>3, <1>5, RequestFacts DEF AnalyseAsked
  <1>7. owner[n] = None
    BY <1>1 DEF LifeInv, TaskLife, Tasks
  <1>8. Phase(n) = "none" /\ CallOf(h) = "none"
    BY <1>2, <1>7 DEF Phase, CallOf
  <1>9. Phase(n)' = "created"
    BY <1>3, <1>6 DEF Phase, AnalyseAsked
  <1>10. \A t \in Tasks : t # n => Phase(t)' = Phase(t)
    BY <1>2, <1>3, <1>6, PhaseFrame
  <1>11. Flow!MoveTo(n, "created")
    BY <1>9, <1>10, OnePhase
  <1>12. [g \in Threads |-> CallOf(g)]' = [g \in Threads |-> CallOf(g)]
    <2>1. \A g \in Threads : CallOf(g)' = CallOf(g)
      BY <1>2, CallFrame
    <2> QED BY <2>1
  <1>13. Flow!Create(h, n, sig)
    BY <1>2, <1>8, <1>11, <1>12 DEF Flow!Create, Flow!mainVars
  <1> QED BY <1>13 DEF Flow!Next

\* What Ask does.
LEMMA AskFacts ==
    ASSUME TypeInv, RequestsInv, NEW h \in Threads, NEW type \in Blocking, Ask(h, type)
    PROVE  /\ UNCHANGED <<owner, signature, status, pending, running, producer, needs, mainNeeds>>
           /\ pc'[h] = type /\ \A g \in Threads : g # h => pc'[g] = pc[g]
           /\ \A t \in Tasks : AnalyseAsked(t)' <=> AnalyseAsked(t)
           /\ [t \in Tasks |-> Phase(t)]' = [t \in Tasks |-> Phase(t)]
  <1>1. UNCHANGED <<owner, signature, status, pending, running, producer, needs, mainNeeds>>
    BY DEF Ask, taskVars, stateVars, execVars, historyVars
  <1>2. pc'[h] = type /\ \A g \in Threads : g # h => pc'[g] = pc[g]
    BY DEF Ask, TypeInv, TypeOK
  <1>3. apQueue' = Append(apQueue, Request(type, None, h))
    BY DEF Ask
  <1>4. \A t \in Tasks : AnalyseAsked(t)' <=> AnalyseAsked(t)
    BY <1>1, <1>3, BlockingAsked
  <1>5. [t \in Tasks |-> Phase(t)]' = [t \in Tasks |-> Phase(t)]
    BY <1>1, <1>4, SamePhases
  <1> QED BY <1>1, <1>2, <1>4, <1>5

\* Barrier and NoMoreTasks synchronise.
LEMMA BarrierFlow ==
    ASSUME TypeInv, RequestsInv, NEW h \in Threads, Barrier(h) \/ NoMoreTasks(h)
    PROVE  Flow!Next
  <1>1. PICK type \in {"barrier", "endOfApp"} : pc[h] = "running" /\ Ask(h, type) /\ target' = target
    BY DEF Barrier, NoMoreTasks
  <1>2. /\ UNCHANGED <<owner, signature, producer, needs, mainNeeds>>
        /\ pc'[h] = type /\ \A g \in Threads : g # h => pc'[g] = pc[g]
        /\ [t \in Tasks |-> Phase(t)]' = [t \in Tasks |-> Phase(t)]
    BY <1>1, AskFacts DEF Blocking
  <1>3. CallOf(h) = "none" /\ CallOf(h)' = type
    BY <1>1, <1>2 DEF CallOf
  <1>4. [g \in Threads |-> CallOf(g)]' = [[g \in Threads |-> CallOf(g)] EXCEPT ![h] = type]
    BY <1>2, <1>3, OneCall
  <1>5. Flow!Synchronise(h, type)
    BY <1>1, <1>2, <1>3, <1>4 DEF Flow!Synchronise, Flow!taskVars
  <1> QED BY <1>5 DEF Flow!Next

\* MainAccess is an access.
LEMMA MainAccessFlow ==
    ASSUME TypeInv, RequestsInv, NEW h \in Threads, NEW d \in Data, NEW m \in Modes, MainAccess(h, d, m)
    PROVE  Flow!Next
  <1>1. /\ pc[h] = "running" /\ Ask(h, "register")
        /\ target' = [target EXCEPT ![h] = [data |-> d, mode |-> m]]
    BY DEF MainAccess
  <1>2. /\ UNCHANGED <<owner, signature, producer, needs, mainNeeds>>
        /\ pc'[h] = "register" /\ \A g \in Threads : g # h => pc'[g] = pc[g]
        /\ [t \in Tasks |-> Phase(t)]' = [t \in Tasks |-> Phase(t)]
    BY <1>1, AskFacts DEF Blocking
  <1>3. CallOf(h) = "none" /\ CallOf(h)' = "access"
    BY <1>1, <1>2 DEF CallOf
  <1>4. [g \in Threads |-> CallOf(g)]' = [[g \in Threads |-> CallOf(g)] EXCEPT ![h] = "access"]
    BY <1>2, <1>3, OneCall
  <1>5. Flow!Access(h, d, m)
    BY <1>1, <1>2, <1>3, <1>4 DEF Flow!Access, Flow!taskVars
  <1> QED BY <1>5 DEF Flow!Next, Modes

\* The second request of an access changes nothing; without it, the access only writes
\* and the thread returns.
LEMMA WaitForTaskFlow ==
    ASSUME TypeInv, RequestsInv, AccessInv, NEW h \in Threads, WaitForTask(h)
    PROVE  Flow!Next \/ UNCHANGED Flow!vars
  <1>1. pc[h] = "registered"
    BY DEF WaitForTask
  <1>2. CASE Ask(h, "wait") /\ target' = target
    <2>1. /\ UNCHANGED <<owner, signature, status, pending, running, producer, needs, mainNeeds>>
          /\ pc'[h] = "wait" /\ \A g \in Threads : g # h => pc'[g] = pc[g]
          /\ \A t \in Tasks : AnalyseAsked(t)' <=> AnalyseAsked(t)
      BY <1>2, AskFacts DEF Blocking
    <2>2. CallOf(h)' = CallOf(h)
      BY <1>1, <2>1 DEF CallOf
    <2>3. \A g \in Threads : CallOf(g)' = CallOf(g)
      BY <2>1, <2>2, CallFrame
    <2> QED BY <1>2, <2>1, <2>3, FlowStutter
  <1>3. CASE /\ ~ Reads(target[h].mode)
             /\ Return({h})
             /\ UNCHANGED <<nextTask, apQueue, tdQueue, taskVars, stateVars, execVars,
                            writers, countVars, waitedTasks, halt, producer, needs, ended>>
    <2>1. UNCHANGED <<apQueue, owner, signature, status, pending, running, producer, needs>>
      BY <1>3 DEF taskVars, stateVars, execVars
    <2>2. mainNeeds[h] = {} /\ CallOf(h) = "ordered"
      BY <1>1, <1>3 DEF AccessInv, AwaitedOK, CallOf
    <2>3. Flow!MayReturn(h)
      BY <2>2 DEF Flow!MayReturn
    <2>4. \A t \in Tasks : AnalyseAsked(t)' <=> AnalyseAsked(t)
      BY <2>1 DEF AnalyseAsked
    <2> QED BY <1>1, <1>3, <2>1, <2>3, <2>4, FlowReturn
  <1> QED BY <1>2, <1>3 DEF WaitForTask

-----------------------------------------------------------------------------
(* The steps of the Access Processor *)

\* ProcessTask gives the task its place in the order of the accesses.
LEMMA ProcessTaskFlow ==
    ASSUME TypeInv, PhaseInv, RequestsInv, LifeInv, ProcessTask
    PROVE  Flow!Next
  <1>1. Takes("analyse") /\ apQueue' = Tail(apQueue)
    BY DEF ProcessTask
  <1>2. PICK t \in Tasks : t = apQueue[1].task /\ owner[t] \in Threads
    BY <1>1, QueueTail DEF TypeInv, QueueOK
  <1>3. /\ Head(apQueue) = apQueue[1] /\ 1 \in 1 .. Len(apQueue)
        /\ apQueue[1].type = "analyse" /\ apQueue[1] = Request("analyse", t, owner[t])
    BY <1>1, <1>2, QueueTail DEF TypeInv, RequestsInv, FormsOK
  <1>4. /\ needs' = [needs EXCEPT ![t] = {producer[d] : d \in ReadData(t)} \ {None}]
        /\ producer' = [d \in Data |-> IF d \in WrittenData(t) THEN t ELSE producer[d]]
        /\ UNCHANGED <<owner, signature, pc, target, mainNeeds, status, pending, running>>
    BY <1>2, <1>3 DEF ProcessTask, threadVars, stateVars, execVars
  <1>5. AnalyseAsked(t) /\ status[t] = "TO_ANALYSE"
    BY <1>2, <1>3 DEF AnalyseAsked, InQueue, PhaseInv, AnalysedOnce
  <1>6. ~ AnalyseAsked(t)' /\ \A u \in Tasks : u # t => (AnalyseAsked(u)' <=> AnalyseAsked(u))
    BY <1>1, <1>2, <1>4, TaskAsked
  <1>7. running[t] = 0
    BY <1>5 DEF PhaseInv, StatusOK, TypeInv, TypeOK, ExecutionsOK
  <1>8. Phase(t) = "created" /\ Phase(t)' = "ordered"
    <2>1. owner[t] # None
      BY <1>2, NoneAssumption
    <2>2. Phase(t) = "created"
      BY <1>5, <2>1 DEF Phase, AnalyseAsked
    <2>3. Phase(t)' = "ordered"
      BY <1>4, <1>5, <1>6, <1>7, <2>1 DEF Phase, AnalyseAsked, Finished, Done
    <2> QED BY <2>2, <2>3
  <1>9. ASSUME NEW u \in Tasks, u < t, owner[u] = owner[t] PROVE Phase(u) # "created"
    <2>1. SUFFICES ASSUME AnalyseAsked(u) PROVE FALSE
      BY DEF Phase, AnalyseAsked
    <2>2. PICK i \in 1 .. Len(apQueue) : apQueue[i] = Request("analyse", u, owner[u])
      BY <2>1 DEF AnalyseAsked, InQueue
    <2>3. apQueue[i].type = "analyse" /\ apQueue[i].task = u
      BY <2>2, RequestFacts
    <2>4. u \in Int /\ t \in Int
      BY DEF Tasks
    <2>5. i # 1
      BY <1>2, <1>9, <2>3, <2>4
    <2>6. t < u
      BY <1>2, <1>3, <2>3, <2>5 DEF RequestsInv, AnalysesInOrder
    <2> QED BY <1>9, <2>4, <2>6
  <1>10. Flow!MoveTo(t, "ordered")
    <2>1. \A u \in Tasks : u # t => Phase(u)' = Phase(u)
      BY <1>4, <1>6, PhaseFrame
    <2> QED BY <1>8, <2>1, OnePhase
  <1>11. /\ needs' = [needs EXCEPT ![t] = Flow!Producers({d \in Data : Flow!Reads(signature[t][d])})]
         /\ producer' = [d \in Data |-> IF Flow!Writes(signature[t][d]) THEN t ELSE producer[d]]
    <2>1. needs' = [needs EXCEPT ![t] = Flow!Producers({d \in Data : Flow!Reads(signature[t][d])})]
      BY <1>4 DEF Flow!Producers, Flow!Reads, ReadData, Reads
    <2>2. producer' = [d \in Data |-> IF Flow!Writes(signature[t][d]) THEN t ELSE producer[d]]
      BY <1>4 DEF Flow!Writes, WrittenData, Writes
    <2> QED BY <2>1, <2>2
  <1>12. [g \in Threads |-> CallOf(g)]' = [g \in Threads |-> CallOf(g)]
    <2>1. \A g \in Threads : CallOf(g)' = CallOf(g)
      BY <1>4, CallFrame
    <2> QED BY <2>1
  <1>13. Flow!Order(t)
    BY <1>4, <1>8, <1>9, <1>10, <1>11, <1>12 DEF Flow!Order, Flow!taskVars, Flow!mainVars
  <1> QED BY <1>13 DEF Flow!Next

\* The threads that EndTask releases may return.
LEMMA EndTaskFlow ==
    ASSUME TypeInv, PhaseInv, RequestsInv, LifeInv, AccessInv, EndTask
    PROVE  Flow!Next \/ UNCHANGED Flow!vars
  <1>1. Takes("end") /\ apQueue' = Tail(apQueue)
    BY DEF EndTask
  <1>2. PICK t \in Tasks : /\ t = apQueue[1].task /\ Head(apQueue) = apQueue[1]
                           /\ pending[t] = 0 /\ status[t] \in {"FINISHED", "FAILED"}
                           /\ AppOf[owner[t]] \in Apps
    BY EndTaskFacts
  <1>3. UNCHANGED <<owner, signature, status, pending, running, producer, needs>>
    BY DEF EndTask, stateVars, execVars
  <1>4. \A u \in Tasks : AnalyseAsked(u)' <=> AnalyseAsked(u)
    BY <1>1, <1>3, TaskAsked
  <1>5. CASE UNCHANGED callVars
    <2>1. UNCHANGED <<pc, target, mainNeeds>>
      BY <1>5 DEF callVars
    <2>2. \A g \in Threads : CallOf(g)' = CallOf(g)
      BY <2>1, CallFrame
    <2> QED BY <1>3, <1>4, <2>1, <2>2, FlowStutter
  <1>6. CASE status[t] # "FAILED" /\ TreatEnd(t, AppOf[owner[t]])
    <2> DEFINE H == Released(t, AppOf[owner[t]])
    <2>1. Return(H) /\ H \in SUBSET Threads
      BY <1>2, <1>6, ReleasedFacts DEF TreatEnd
    <2>2. Finished(t)
      BY <1>2, <1>6 DEF Finished
    <2>3. ASSUME NEW h \in H
          PROVE  /\ pc[h] \in {"barrier", "endOfApp", "registered", "wait"}
                 /\ Flow!MayReturn(h)
      <3>1. h \in Threads
        BY <2>1
      <3>2. CASE h \in waitedTasks[t] /\ pc[h] = "wait"
        <4>1. CallOf(h) = "ordered" /\ mainNeeds[h] \subseteq {t}
          BY <3>1, <3>2 DEF CallOf, AccessInv, AwaitedOK
        <4>2. \A p \in mainNeeds[h] : p \in Tasks /\ Phase(p) = "finished"
          BY <2>2, <4>1, EndedPhase
        <4> QED BY <3>1, <3>2, <4>1, <4>2 DEF Flow!MayReturn
      <3>3. CASE pc[h] \in {"barrier", "endOfApp"}
        <4>1. pc'[h] \in {"running", "ended"}
          BY <2>1, <3>1, ReturnFacts
        <4>2. [Next]_vars
          BY DEF Next, APStep
        <4>3. \A u \in Tasks : owner[u] = h => Phase(u) = "finished"
          BY <3>1, <3>3, <4>1, <4>2, BarrierStep, EndedPhase
        <4>4. CallOf(h) = pc[h]
          BY <3>3 DEF CallOf
        <4> QED BY <3>1, <3>3, <4>3, <4>4 DEF Flow!MayReturn
      <3> QED BY <1>2, <3>2, <3>3, ReleasedFacts
    <2> HIDE DEF H
    <2> QED BY <1>3, <1>4, <2>1, <2>3, FlowReturn
  <1> QED BY <1>2, <1>5, <1>6 DEF EndTask

\* A barrier with nothing to wait for returns; otherwise a semaphore is kept.
LEMMA SynchroniseFlow ==
    ASSUME TypeInv, PhaseInv, RequestsInv, LifeInv, NEW type \in {"barrier", "endOfApp"}, Synchronise(type)
    PROVE  Flow!Next \/ UNCHANGED Flow!vars
  <1>1. type \in Blocking /\ Takes(type) /\ apQueue' = Tail(apQueue)
    BY DEF Synchronise, Blocking
  <1>2. PICK h \in Threads : h = apQueue[1].thread /\ Head(apQueue) = apQueue[1] /\ pc[h] = type
    BY <1>1, QueueTail, TailAsking DEF TypeInv
  <1>3. UNCHANGED <<owner, signature, status, pending, running, producer, needs>>
    BY DEF Synchronise, taskVars, stateVars, execVars
  <1>4. \A t \in Tasks : AnalyseAsked(t)' <=> AnalyseAsked(t)
    BY <1>1, <1>3, BlockingAsked
  <1>5. CASE UNCHANGED callVars
    <2>1. UNCHANGED <<pc, target, mainNeeds>>
      BY <1>5 DEF callVars
    <2>2. \A g \in Threads : CallOf(g)' = CallOf(g)
      BY <2>1, CallFrame
    <2> QED BY <1>3, <1>4, <2>1, <2>2, FlowStutter
  <1>6. CASE Return({h})
    <2>1. pc'[h] \in {"running", "ended"}
      BY <1>6, ReturnFacts
    <2>2. [Next]_vars
      BY DEF Next, APStep, BarrierRequest, EndOfAppRequest
    <2>3. \A u \in Tasks : owner[u] = h => Phase(u) = "finished"
      BY <1>2, <2>1, <2>2, BarrierStep, EndedPhase
    <2>4. CallOf(h) = type
      BY <1>2 DEF CallOf
    <2>5. Flow!MayReturn(h)
      BY <2>3, <2>4 DEF Flow!MayReturn
    <2> QED BY <1>2, <1>3, <1>4, <1>6, <2>5, FlowReturn
  <1> QED BY <1>2, <1>5, <1>6 DEF Synchronise

\* RegisterDataAccess gives the access of the thread its place after those of its tasks.
LEMMA RegisterFlow ==
    ASSUME TypeInv, RequestsInv, RegisterDataAccess
    PROVE  Flow!Next
  <1>1. Takes("register") /\ apQueue' = Tail(apQueue) /\ "register" \in Blocking
    BY DEF RegisterDataAccess, Blocking
  <1>2. PICK h \in Threads : h = apQueue[1].thread /\ Head(apQueue) = apQueue[1] /\ pc[h] = "register"
    BY <1>1, QueueTail, TailAsking DEF TypeInv
  <1> DEFINE d == target[h].data
             m == target[h].mode
  <1>3. /\ pc' = [pc EXCEPT ![h] = "registered"]
        /\ mainNeeds' = [mainNeeds EXCEPT ![h] = IF Reads(m) THEN {producer[d]} \ {None} ELSE {}]
        /\ producer' = IF Writes(m) THEN [producer EXCEPT ![d] = None] ELSE producer
        /\ UNCHANGED <<target, owner, signature, status, pending, running, needs>>
    BY <1>2 DEF RegisterDataAccess, taskVars, stateVars, execVars
  <1>4. \A t \in Tasks : AnalyseAsked(t)' <=> AnalyseAsked(t)
    BY <1>1, <1>3, BlockingAsked
  <1>5. [t \in Tasks |-> Phase(t)]' = [t \in Tasks |-> Phase(t)]
    BY <1>3, <1>4, SamePhases
  <1>6. ASSUME NEW t \in Tasks, owner[t] = h PROVE Phase(t) # "created"
    <2>1. ~ AnalyseAsked(t)
      BY <1>1, <1>2, <1>6, NothingToAnalyseFirst, RequestFacts DEF AnalyseAsked, InQueue
    <2> QED BY <2>1 DEF Phase, AnalyseAsked
  <1>7. pc'[h] = "registered" /\ \A g \in Threads : g # h => pc'[g] = pc[g]
    BY <1>3 DEF TypeInv, TypeOK
  <1>8. CallOf(h) = "access" /\ CallOf(h)' = "ordered"
    BY <1>2, <1>7 DEF CallOf
  <1>9. [g \in Threads |-> CallOf(g)]' = [[g \in Threads |-> CallOf(g)] EXCEPT ![h] = "ordered"]
    BY <1>7, <1>8, OneCall
  <1>10. mainNeeds' = [mainNeeds EXCEPT ![h] = IF Flow!Reads(m) THEN Flow!Producers({d}) ELSE {}]
    <2>1. Flow!Producers({d}) = {producer[d]} \ {None}
      BY DEF Flow!Producers
    <2> QED BY <1>3, <2>1 DEF Flow!Reads, Reads
  <1>11. producer' = IF Flow!Writes(m) THEN [producer EXCEPT ![d] = None] ELSE producer
    BY <1>3 DEF Flow!Writes, Writes
  <1>12. Flow!OrderAccess(h)
    BY <1>3, <1>5, <1>6, <1>8, <1>9, <1>10, <1>11 DEF Flow!OrderAccess, Flow!taskVars
  <1> QED BY <1>12 DEF Flow!Next

\* A thread returns from FindWaitedTask if no task produces its version, or the task has
\* finished.
LEMMA FindWaitedFlow ==
    ASSUME TypeInv, PhaseInv, RequestsInv, LifeInv, AccessInv, FindWaitedTask
    PROVE  Flow!Next \/ UNCHANGED Flow!vars
  <1>1. Takes("wait") /\ apQueue' = Tail(apQueue) /\ "wait" \in Blocking
    BY DEF FindWaitedTask, Blocking
  <1>2. PICK h \in Threads : /\ h = apQueue[1].thread /\ Head(apQueue) = apQueue[1] /\ pc[h] = "wait"
                             /\ ~ NotAsking(h)
    BY <1>1, QueueTail, TailAsking DEF TypeInv
  <1>3. PICK d \in Data : d = target[h].data
    BY <1>2 DEF TypeInv, TargetsOK
  <1>4. PICK w \in Tasks \cup {None} : w = writers[d]
    BY DEF TypeInv, TypeOK
  <1>5. UNCHANGED <<owner, signature, status, pending, running, producer, needs>>
    BY DEF FindWaitedTask, taskVars, stateVars, execVars
  <1>6. \A t \in Tasks : AnalyseAsked(t)' <=> AnalyseAsked(t)
    BY <1>1, <1>5, BlockingAsked
  <1>7. mainNeeds[h] \subseteq {w} /\ mainNeeds[h] \subseteq Tasks
    <2>1. \A t \in Tasks : h \notin waitedTasks[t]
      BY <1>2 DEF TypeInv, WaitedOK
    <2>2. mainNeeds[h] \subseteq Tasks
      BY DEF TypeInv, TypeOK
    <2> QED BY <1>2, <1>3, <1>4, <2>1, <2>2 DEF AccessInv, AwaitedOK
  <1>8. CASE UNCHANGED callVars
    <2>1. UNCHANGED <<pc, target, mainNeeds>>
      BY <1>8 DEF callVars
    <2>2. \A g \in Threads : CallOf(g)' = CallOf(g)
      BY <2>1, CallFrame
    <2> QED BY <1>5, <1>6, <2>1, <2>2, FlowStutter
  <1>9. CASE Return({h}) /\ (w = None \/ status[w] = "FINISHED")
    <2>1. ASSUME NEW p \in mainNeeds[h] PROVE p \in Tasks /\ Phase(p) = "finished"
      <3>1. p \in Tasks /\ p = w /\ status[p] = "FINISHED"
        BY <1>7, <1>9, <2>1, NoneAssumption
      <3>2. Finished(p)
        BY <3>1 DEF LifeInv, TaskLife, Finished
      <3> QED BY <3>1, <3>2, EndedPhase
    <2>2. CallOf(h) = "ordered"
      BY <1>2 DEF CallOf
    <2>3. Flow!MayReturn(h)
      BY <2>1, <2>2 DEF Flow!MayReturn
    <2> QED BY <1>2, <1>5, <1>6, <1>9, <2>3, FlowReturn
  <1>10. UNCHANGED callVars \/ (Return({h}) /\ (w = None \/ status[w] = "FINISHED"))
    BY <1>2, <1>3, <1>4 DEF FindWaitedTask
  <1> QED BY <1>8, <1>9, <1>10

-----------------------------------------------------------------------------
(* The steps of the Task Dispatcher *)

\* A task that is submitted was ordered, and stays so.
LEMMA SubmitFlow ==
    ASSUME SingleExecution, TypeInv, PhaseInv, SubmitExecutions
    PROVE  UNCHANGED Flow!vars
  <1>1. tdQueue \in Seq(Tasks) /\ tdQueue # << >>
    BY DEF SubmitExecutions, TypeInv, TypeOK
  <1>2. PICK t \in Tasks : t = tdQueue[1] /\ Head(tdQueue) = t /\ 1 \in 1 .. Len(tdQueue)
    BY <1>1, TailFacts
  <1>3. /\ status' = [status EXCEPT ![t] = "TO_EXECUTE"]
        /\ pending' = [pending EXCEPT ![t] = 1]
        /\ UNCHANGED <<apQueue, owner, signature, running, producer, needs, pc, target, mainNeeds>>
    BY <1>2 DEF SubmitExecutions, SingleExecution, threadVars, taskVars, historyVars
  <1>4. status[t] = "TO_ANALYSE"
    BY <1>2 DEF PhaseInv, AnalysedOnce
  <1>5. \A u \in Tasks : AnalyseAsked(u)' <=> AnalyseAsked(u)
    BY <1>3 DEF AnalyseAsked
  <1>6. status'[t] = "TO_EXECUTE" /\ pending'[t] = 1
    BY <1>3 DEF TypeInv, TypeOK
  <1>7. Phase(t)' = Phase(t)
    BY <1>3, <1>4, <1>5, <1>6 DEF Phase, Finished, Done, AnalyseAsked
  <1>8. ASSUME NEW u \in Tasks, u # t PROVE Phase(u)' = Phase(u)
    <2>1. status'[u] = status[u] /\ pending'[u] = pending[u]
      BY <1>3, <1>8 DEF TypeInv, TypeOK
    <2> QED BY <1>3, <1>5, <2>1, PhaseFrame
  <1>9. [u \in Tasks |-> Phase(u)]' = [u \in Tasks |-> Phase(u)]
    BY <1>7, <1>8
  <1>10. [h \in Threads |-> CallOf(h)]' = [h \in Threads |-> CallOf(h)]
    <2>1. \A h \in Threads : CallOf(h)' = CallOf(h)
      BY <1>3, CallFrame
    <2> QED BY <2>1
  <1> QED BY <1>3, <1>9, <1>10 DEF Flow!vars, Flow!taskVars, Flow!mainVars

\* An execution starts when the producers of its inputs have ended.
LEMMA StartFlow ==
    ASSUME TypeInv, PhaseInv, DependencyInv, LifeInv, NEW t \in Tasks, StartExecution(t)
    PROVE  Flow!Next
  <1>1. /\ running[t] < pending[t] /\ waitsFor[t] = {}
        /\ running' = [running EXCEPT ![t] = @ + 1]
        /\ UNCHANGED <<apQueue, owner, signature, status, pending, producer, needs, pc, target, mainNeeds>>
    BY DEF StartExecution, threadVars, taskVars, stateVars, historyVars
  <1>2. pending[t] = 1 /\ running[t] = 0 /\ status[t] = "TO_EXECUTE"
    <2>1. running[t] \in Nat /\ pending[t] \in Nat /\ TaskLife(t)
      BY DEF TypeInv, TypeOK, LifeInv
    <2> QED BY <1>1, <2>1 DEF TaskLife
  <1>3. owner[t] # None /\ ~ AnalyseAsked(t)
    BY <1>2, SubmittedFacts
  <1>4. \A u \in Tasks : AnalyseAsked(u)' <=> AnalyseAsked(u)
    BY <1>1 DEF AnalyseAsked
  <1>5. running'[t] = 1 /\ \A u \in Tasks : u # t => running'[u] = running[u]
    BY <1>1, <1>2 DEF TypeInv, TypeOK
  <1>6. Phase(t) = "ordered"
    BY <1>2, <1>3 DEF Phase, Finished, Done, AnalyseAsked
  <1>7. Phase(t)' = "running"
    BY <1>1, <1>2, <1>3, <1>4, <1>5 DEF Phase, Finished, Done, AnalyseAsked
  <1>8. \A u \in Tasks : u # t => Phase(u)' = Phase(u)
    BY <1>1, <1>4, <1>5, PhaseFrame
  <1>9. ASSUME NEW p \in needs[t] PROVE p \in Tasks /\ Phase(p) \in {"finished", "failed"}
    <2>1. p \in Tasks
      BY DEF TypeInv, TypeOK
    <2>2. Done(p)
      BY <1>1, <1>2 DEF DependencyInv, NeedsSubmitted
    <2> QED BY <2>1, <2>2, EndedPhase
  <1>10. Flow!MoveTo(t, "running")
    BY <1>7, <1>8, OnePhase
  <1>11. [h \in Threads |-> CallOf(h)]' = [h \in Threads |-> CallOf(h)]
    <2>1. \A h \in Threads : CallOf(h)' = CallOf(h)
      BY <1>1, CallFrame
    <2> QED BY <2>1
  <1>12. Flow!Start(t)
    BY <1>1, <1>6, <1>9, <1>10, <1>11 DEF Flow!Start, Flow!taskVars, Flow!mainVars
  <1> QED BY <1>12 DEF Flow!Next

\* The end of the execution is that of the task.
LEMMA EndExecutionFlow ==
    ASSUME TypeInv, PhaseInv, RequestsInv, LifeInv, NEW t \in Tasks,
           CompleteExecution(t) \/ FailExecution(t)
    PROVE  Flow!Next
  <1>1. PICK result \in {"FINISHED", "FAILED"} : EndExecution(t, result)
    BY DEF CompleteExecution, FailExecution
  <1>2. /\ running[t] > 0
        /\ pending' = [pending EXCEPT ![t] = @ - 1]
        /\ running' = [running EXCEPT ![t] = @ - 1]
        /\ status' = [status EXCEPT ![t] = result]
        /\ apQueue' = Append(apQueue, Request("end", t, None))
        /\ UNCHANGED <<owner, signature, producer, needs, pc, target, mainNeeds>>
    BY <1>1 DEF EndExecution, threadVars, taskVars, historyVars
  <1>3. pending[t] = 1 /\ running[t] = 1 /\ status[t] = "TO_EXECUTE"
    BY <1>2, RunningLife
  <1>4. owner[t] # None /\ ~ AnalyseAsked(t)
    BY <1>3, SubmittedFacts
  <1>5. \A u \in Tasks : AnalyseAsked(u)' <=> AnalyseAsked(u)
    <2>1. Request("end", t, None) \in Requests
      BY DEF Request, Requests
    <2>2. \A x : InQueue(apQueue', x) <=> InQueue(apQueue, x) \/ x = Request("end", t, None)
      BY <1>2, <2>1, AskedAppend DEF TypeInv
    <2> QED BY <1>2, <2>2, RequestFacts DEF AnalyseAsked
  <1>6. /\ pending'[t] = 0 /\ status'[t] = result
        /\ \A u \in Tasks : u # t => /\ pending'[u] = pending[u] /\ status'[u] = status[u]
                                     /\ running'[u] = running[u]
    BY <1>2, <1>3 DEF TypeInv, TypeOK
  <1>7. Phase(t) = "running"
    BY <1>3, <1>4 DEF Phase, Finished, Done, AnalyseAsked
  <1>8. Phase(t)' \in {"finished", "failed"}
    BY <1>2, <1>4, <1>5, <1>6 DEF Phase, Finished, Done, AnalyseAsked
  <1>9. \A u \in Tasks : u # t => Phase(u)' = Phase(u)
    BY <1>2, <1>5, <1>6, PhaseFrame
  <1>10. Flow!MoveTo(t, "finished") \/ Flow!MoveTo(t, "failed")
    BY <1>8, <1>9, OnePhase
  <1>11. [h \in Threads |-> CallOf(h)]' = [h \in Threads |-> CallOf(h)]
    <2>1. \A h \in Threads : CallOf(h)' = CallOf(h)
      BY <1>2, CallFrame
    <2> QED BY <2>1
  <1>12. Flow!End(t)
    BY <1>2, <1>7, <1>10, <1>11 DEF Flow!End, Flow!taskVars, Flow!mainVars
  <1> QED BY <1>12 DEF Flow!Next

-----------------------------------------------------------------------------
(* The refinement *)

\* The initial states are those of Dataflow.
LEMMA InitFlow == Init => Flow!Init
  <1> SUFFICES ASSUME Init PROVE Flow!Init
    OBVIOUS
  <1>1. \A t \in Tasks : Phase(t) = "none"
    BY DEF Init, Phase
  <1>2. \A h \in Threads : CallOf(h) = "none"
    BY DEF Init, CallOf
  <1>3. [t \in Tasks |-> Phase(t)] = [t \in Tasks |-> "none"]
    BY <1>1
  <1>4. [h \in Threads |-> CallOf(h)] = [h \in Threads |-> "none"]
    BY <1>2
  <1> QED BY <1>3, <1>4 DEF Init, Flow!Init, NoTarget, Flow!NoTarget

\* Every step is one of Dataflow, or changes nothing that Dataflow sees.
LEMMA NextFlow ==
    ASSUME SingleExecution, TypeInv, PhaseInv, DependencyInv, RequestsInv, LifeInv, AccessInv, [Next]_vars
    PROVE  [Flow!Next]_(Flow!vars)
  <1>1. ASSUME NEW h \in Threads, ThreadStep(h) PROVE Flow!Next \/ UNCHANGED Flow!vars
    BY <1>1, ExecuteTaskFlow, BarrierFlow, MainAccessFlow, WaitForTaskFlow DEF ThreadStep
  <1>2. CASE APStep
    BY <1>2, ProcessTaskFlow, EndTaskFlow, SynchroniseFlow, RegisterFlow, FindWaitedFlow
    DEF APStep, BarrierRequest, EndOfAppRequest
  <1>3. CASE Shutdown \/ UNCHANGED vars
    <2>1. UNCHANGED <<apQueue, owner, signature, status, pending, running, producer, needs, pc, target, mainNeeds>>
      BY <1>3 DEF Shutdown, vars, threadVars, taskVars, stateVars, execVars, historyVars
    <2>2. \A t \in Tasks : AnalyseAsked(t)' <=> AnalyseAsked(t)
      BY <2>1 DEF AnalyseAsked
    <2>3. \A h \in Threads : CallOf(h)' = CallOf(h)
      BY <2>1, CallFrame
    <2> QED BY <2>1, <2>2, <2>3, FlowStutter
  <1>4. CASE SubmitExecutions
    BY <1>4, SubmitFlow
  <1>5. ASSUME NEW t \in Tasks, StartExecution(t) \/ CompleteExecution(t) \/ FailExecution(t)
        PROVE  Flow!Next
    BY <1>5, StartFlow, EndExecutionFlow
  <1> QED BY <1>1, <1>2, <1>3, <1>4, <1>5 DEF Next

\* The runtime implements Dataflow, for any number of threads, tasks and data: a task is
\* ordered and started, and a thread returns from a barrier or gets a datum, only when
\* Dataflow lets it. Tasks have one execution, and a main program shares its data with
\* the tasks of no other thread.
THEOREM RuntimeImplementsDataflow ==
    ASSUME SingleExecution, OwnData
    PROVE  Spec => ImplementsDataflow
  <1> DEFINE Inv == TypeInv /\ PhaseInv /\ DependencyInv /\ RequestsInv /\ LifeInv /\ AccessInv
  <1>1. Init => Inv
    BY InitTypeInv, InitPhaseInv, InitDependencyInv, InitRequestsInv, InitLifeInv, InitAccessInv
  <1>2. Inv /\ [Next]_vars => Inv'
    <2> SUFFICES ASSUME Inv, [Next]_vars PROVE Inv'
      OBVIOUS
    <2>1. TypeInv' /\ PhaseInv'
      BY NextTypeInv
    <2>2. DependencyInv'
      BY NextDependencyInv, OwnDataIsPrivate
    <2>3. RequestsInv' /\ LifeInv'
      BY NextLifeInv
    <2>4. AccessInv'
      BY <2>1, NextAccessInv
    <2> QED BY <2>1, <2>2, <2>3, <2>4
  <1>3. Inv /\ [Next]_vars => [Flow!Next]_(Flow!vars)
    BY NextFlow
  <1>4. Init => Flow!Init
    BY InitFlow
  <1> HIDE DEF Inv
  <1> QED BY <1>1, <1>2, <1>3, <1>4, PTL DEF Spec, ImplementsDataflow, Flow!Spec

=============================================================================
