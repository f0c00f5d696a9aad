----------------------------- MODULE Scheduler -----------------------------
(***************************************************************************)
(* The base scheduler of the COMPSs runtime: TaskScheduler places the      *)
(* executions of tasks (AllocatableAction, ExecutionAction) on workers,    *)
(* and ResourceScheduler keeps, for each worker, the executions that wait  *)
(* there for resources. Every action is one request handled by the Task    *)
(* Dispatcher thread: a new execution, the completion or the error of a    *)
(* running one, a worker that joins the pool.                              *)
(*                                                                         *)
(* A worker is chosen by scores that depend on the location of the data:   *)
(* here the choice among the candidates is free. Resources are a number of *)
(* units. Executions that are constrained to the worker of another one,    *)
(* and workers that shrink or leave, are not part of this module.          *)
(***************************************************************************)
EXTENDS Integers, FiniteSets, FiniteSetsExt

CONSTANTS
    NumActions,          \* bound: executions, submitted in the order 1 .. NumActions
    Workers,             \* workers that may be in the pool
    InitialWorkers,      \* those that are in it from the start
    Capacity,            \* resources of a worker
    Requirement,         \* resources that an execution needs
    Priority,            \* priority of an execution
    SCHEDULING_CHANCES,  \* workers that an execution is tried on
    MaxErrors,           \* bound: errors of the executions
    MayDepend,           \* the executions that an execution may depend on
    None                 \* no worker

Actions == 1 .. NumActions

ASSUME NumActionsAssumption == NumActions \in Nat
ASSUME WorkersAssumption == IsFiniteSet(Workers) /\ InitialWorkers \subseteq Workers /\ None \notin Workers
ASSUME ResourcesAssumption == Capacity \in [Workers -> Nat] /\ Requirement \in [Actions -> Nat]
ASSUME PriorityAssumption == Priority \in [Actions -> Int]
ASSUME MayDependAssumption == MayDepend \in [Actions -> SUBSET Actions]
ASSUME ChancesAssumption == SCHEDULING_CHANCES \in Nat \ {0} /\ MaxErrors \in Nat

VARIABLES
    workers,         \* the workers of the pool
    state,           \* State of an action; "NEW" before it is submitted
    resource,        \* selectedResource
    executing,       \* executingResources: where the action was launched
    preds,           \* dataPredecessors
    succs,           \* dataSuccessors: added in the order of submission, the least is first
    waiting,         \* ResourceScheduler.blocked: the actions that wait on a worker
    blockedActions,  \* actions that no worker can run
    free,            \* available resources of a worker
    readyCount,      \* readyCounts, of one core
    \* history
    deps,            \* data predecessors that an action was created with
    errors,          \* errors so far
    notified         \* actions whose failure was notified to the Access Processor

vars == <<workers, state, resource, executing, preds, succs, waiting, blockedActions,
          free, readyCount, deps, errors, notified>>

States == {"NEW", "RUNNABLE", "WAITING", "RUNNING", "FINISHED", "FAILED"}

IsPending(a) == state[a] \in {"RUNNABLE", "WAITING", "RUNNING"}

Total(S) == MapThenSumSet(LAMBDA a : Requirement[a], S)

-----------------------------------------------------------------------------
(* Launching actions on a worker *)

\* The actions L are launched, one after the other, among the candidates W on a
\* worker with room for them. W is traversed in the order of the pairs <<x, y>>, x
\* before y, and the traversal stops at the first action that does not fit.
Launches(L, W, room, order) ==
    /\ Total(L) <= room
    /\ \A x \in L, y \in W \ L : <<y, x>> \notin order
    /\ \/ L = W
       \/ \E y \in W \ L : /\ \A z \in W \ L : <<z, y>> \notin order
                           /\ Total(L) + Requirement[y] > room

\* ObjectValue.compareTo puts the higher priority first. The queue of the actions
\* that wait on a worker is ordered by Score.compareTo, which puts it last.
HigherFirst == {p \in Actions \X Actions : Priority[p[1]] > Priority[p[2]]}
LowerFirst  == {p \in Actions \X Actions : Priority[p[1]] < Priority[p[2]]}

\* Mutants: no waiting action is resumed; one is resumed and stays in the queue, or
\* does not reserve resources.
ResumedNone(a) == {{}}
WaitingKept(a, L) == waiting
FreeUnreserved(a, L) == [free EXCEPT ![resource[a]] = @ + Requirement[a]]

\* The action a has ended with state st: its resources are released, and then
\* tryToLaunchBlockedActions resumes actions that wait on its worker. They are not
\* added to their executingResources.
Resumed(a) ==
    LET w == resource[a]
    IN  {L \in SUBSET waiting[w] :
            Launches(L, waiting[w], free[w] + Requirement[a], LowerFirst)}

StateAfter(a, st, L) ==
    [x \in Actions |-> IF x = a THEN st ELSE IF x \in L THEN "RUNNING" ELSE state[x]]
WaitingAfter(a, L) == [waiting EXCEPT ![resource[a]] = @ \ L]
FreeAfter(a, L)    == [free EXCEPT ![resource[a]] = @ + Requirement[a] - Total(L)]

\* Mutant: the resources are not checked.
LaunchedAll(F, res, wt, fr) == {F}

\* The outcome of execute on the actions F, that have been assigned resources res: on a
\* worker where nothing waits they run until one does not fit, the rest waits. The
\* parameters st, wt and fr are the state, waiting and free of the moment.
Launched(F, res, wt, fr) ==
    {M \in SUBSET F :
        \A w \in Workers :
            LET W == {x \in F : res[x] = w}
            IN  IF wt[w] = {} THEN Launches(M \cap W, W, fr[w], HigherFirst)
                              ELSE M \cap W = {}}

Execute(F, res, st, wt, fr) ==
    \E M \in Launched(F, res, wt, fr) :
        /\ state' = [x \in Actions |-> IF x \in M THEN "RUNNING"
                                       ELSE IF x \in F THEN "WAITING" ELSE st[x]]
        /\ executing' = [x \in Actions |-> IF x \in M THEN executing[x] \cup {res[x]}
                                           ELSE executing[x]]
        /\ waiting' = [w \in Workers |-> wt[w] \cup {x \in F \ M : res[x] = w}]
        /\ free' = [w \in Workers |-> fr[w] - Total({x \in M : res[x] = w})]

-----------------------------------------------------------------------------
\* ExecutionAction.schedule: the compatible workers where the action was not
\* launched before. With none of them, the action is blocked.
Candidates(a, pool) ==
    {w \in pool : Requirement[a] <= Capacity[w] /\ w \notin executing[a]}

Init ==
    /\ workers = InitialWorkers
    /\ state = [a \in Actions |-> "NEW"]
    /\ resource = [a \in Actions |-> None]
    /\ executing = [a \in Actions |-> {}]
    /\ preds = [a \in Actions |-> {}]
    /\ succs = [a \in Actions |-> {}]
    /\ waiting = [w \in Workers |-> {}]
    /\ blockedActions = {}
    /\ free = Capacity
    /\ readyCount = 0
    /\ deps = [a \in Actions |-> {}]
    /\ errors = 0
    /\ notified = {}

\* Mutant: the action still counts as ready.
BlockUncounted(a, res, st, wt, fr, count) ==
    /\ blockedActions' = blockedActions \cup {a}
    /\ readyCount' = count
    /\ resource' = res /\ state' = st /\ waiting' = wt /\ free' = fr
    /\ UNCHANGED executing

\* addToBlocked. The action keeps the resource that it had.
Block(a, res, st, wt, fr, count) ==
    /\ blockedActions' = blockedActions \cup {a}
    /\ readyCount' = count - 1
    /\ resource' = res /\ state' = st /\ waiting' = wt /\ free' = fr
    /\ UNCHANGED executing

\* Mutant: tryToLaunch does not look at the data predecessors.
ScheduleAndLaunchAtOnce(a, res, st, wt, fr, count, launchable) ==
    \E w \in Candidates(a, workers) :
        /\ resource' = [res EXCEPT ![a] = w]
        /\ Execute({a}, [res EXCEPT ![a] = w], st, wt, fr)
        /\ readyCount' = count
        /\ UNCHANGED blockedActions

\* scheduleAction and, if it is free of data dependencies, tryToLaunch of an action.
ScheduleAndLaunch(a, res, st, wt, fr, count, launchable) ==
    \/ Candidates(a, workers) = {} /\ Block(a, res, st, wt, fr, count)
    \/ \E w \in Candidates(a, workers) :
          /\ resource' = [res EXCEPT ![a] = w]
          /\ Execute(IF launchable THEN {a} ELSE {}, [res EXCEPT ![a] = w], st, wt, fr)
          /\ readyCount' = count
          /\ UNCHANGED blockedActions

\* The constructor of ExecutionAction, with pending actions as predecessors, and
\* newAllocatableAction.
NewAllocatableAction(a, D) ==
    /\ state[a] = "NEW"
    /\ \A b \in Actions : b < a => state[b] # "NEW"
    /\ \A p \in D : IsPending(p)
    /\ deps' = [deps EXCEPT ![a] = D]
    /\ preds' = [preds EXCEPT ![a] = D]
    /\ succs' = [p \in Actions |-> IF p \in D THEN succs[p] \cup {a} ELSE succs[p]]
    /\ ScheduleAndLaunch(a, resource, [state EXCEPT ![a] = "RUNNABLE"], waiting, free,
                         readyCount + (IF D = {} THEN 1 ELSE 0), D = {})
    /\ UNCHANGED <<workers, errors, notified>>

\* actionCompleted: the waiting actions of the worker are resumed before the
\* successors are released and launched on the workers that they were assigned.
ActionCompleted(a) ==
    LET freed == {s \in succs[a] : preds[s] \ {a} = {}}
    IN  /\ state[a] = "RUNNING"
        /\ \E L \in Resumed(a) :
              Execute({s \in freed : state[s] = "RUNNABLE" /\ resource[s] # None}, resource,
                      StateAfter(a, "FINISHED", L), WaitingAfter(a, L), FreeAfter(a, L))
        /\ preds' = [s \in Actions |-> IF s \in succs[a] THEN preds[s] \ {a} ELSE preds[s]]
        /\ succs' = [succs EXCEPT ![a] = {}]
        /\ readyCount' = readyCount - 1 + Cardinality(freed)
        /\ UNCHANGED <<workers, resource, blockedActions, deps, errors, notified>>

-----------------------------------------------------------------------------
(* Errors *)

Erred(a) ==
    /\ state[a] = "RUNNING"
    /\ errors < MaxErrors
    /\ errors' = errors + 1

\* errorOnAction of an action that doError lets try again.
RetryAction(a) ==
    /\ Erred(a)
    /\ Cardinality(executing[a]) < SCHEDULING_CHANCES
    /\ \E L \in Resumed(a) :
          ScheduleAndLaunch(a, resource, StateAfter(a, "RUNNABLE", L), WaitingAfter(a, L),
                            FreeAfter(a, L), readyCount, TRUE)
    /\ UNCHANGED <<workers, preds, succs, deps, notified>>

\* Mutant: the failure goes to no successor.
ChainOfOne(a) == [i \in 1 .. NumActions |-> IF i = 1 THEN a ELSE 0]

\* failed iterates over dataSuccessors while the failing successor removes itself
\* from that list. So the failure goes to the first successor and, through it, to
\* its first successor, and so on. Back in an action, the iteration has ended if at
\* most one successor is left, which is skipped; if more are left it throws, and
\* neither that action nor those before it in the chain are notified.
ChainOf(a) ==
    LET c[i \in 1 .. NumActions] ==
            IF i = 1 THEN a
            ELSE IF c[i - 1] = 0 \/ succs[c[i - 1]] = {} THEN 0
            ELSE Min(succs[c[i - 1]])
    IN  c

\* errorOnAction of an action that has had its chances.
FailAction(a) ==
    LET chain    == ChainOf(a)
        failing  == {chain[i] : i \in 1 .. NumActions} \ {0}
        left     == [p \in Actions |-> succs[p] \ failing]
        throwing == {i \in 1 .. NumActions : chain[i] # 0 /\ Cardinality(left[chain[i]]) > 1}
        complete == {chain[i] : i \in {j \in 1 .. NumActions : \A k \in throwing : k < j}} \ {0}
    IN  /\ Erred(a)
        /\ Cardinality(executing[a]) >= SCHEDULING_CHANCES
        /\ \E L \in Resumed(a) :
              /\ state' = [x \in Actions |-> IF x \in failing THEN "FAILED"
                                             ELSE StateAfter(a, "FAILED", L)[x]]
              /\ waiting' = WaitingAfter(a, L)
              /\ free' = FreeAfter(a, L)
        /\ preds' = [x \in Actions |-> IF x \in complete THEN {} ELSE preds[x]]
        /\ succs' = [x \in Actions |-> IF x \in complete THEN {} ELSE left[x]]
        /\ notified' = notified \cup complete
        /\ readyCount' = readyCount - 1
        /\ UNCHANGED <<workers, resource, executing, blockedActions, deps>>

\* updateWorker of a new worker: the blocked actions that it can run are scheduled,
\* each on some candidate. An action that failed meanwhile stays as it is.
AddWorker(w) ==
    LET unblocked == {a \in blockedActions : Requirement[a] <= Capacity[w]}
        retried   == {a \in unblocked : state[a] = "RUNNABLE"}
    IN  /\ w \notin workers
        /\ workers' = workers \cup {w}
        /\ blockedActions' = blockedActions \ unblocked
        /\ readyCount' = readyCount + Cardinality({a \in unblocked : preds[a] = {}})
        /\ \E choice \in [retried -> workers'] :
              LET res == [a \in Actions |-> IF a \in retried THEN choice[a] ELSE resource[a]]
              IN  /\ \A a \in retried : choice[a] \in Candidates(a, workers')
                  /\ resource' = res
                  /\ Execute({a \in retried : preds[a] = {}}, res, state, waiting, free)
        /\ UNCHANGED <<preds, succs, deps, errors, notified>>

-----------------------------------------------------------------------------
Next ==
    \/ \E a \in Actions : \E D \in SUBSET MayDepend[a] : NewAllocatableAction(a, D)
    \/ \E a \in Actions : ActionCompleted(a)
    \/ \E a \in Actions : RetryAction(a)
    \/ \E a \in Actions : FailAction(a)
    \/ \E w \in Workers : AddWorker(w)

Spec == Init /\ [][Next]_vars

\* Every execution that a worker runs ends, and the Task Dispatcher takes the
\* requests of its queue. Nothing else is promised: new executions and new workers
\* may never come.
Fairness == \A a \in Actions : WF_vars(ActionCompleted(a) \/ RetryAction(a) \/ FailAction(a))

FairSpec == Spec /\ Fairness

-----------------------------------------------------------------------------
(* Properties *)

\* The types of the state of TaskScheduler, ResourceScheduler and AllocatableAction:
\* the resources of a worker never become negative.
TypeOK ==
    /\ workers \in SUBSET Workers
    /\ state \in [Actions -> States]
    /\ resource \in [Actions -> Workers \cup {None}]
    /\ executing \in [Actions -> SUBSET Workers]
    /\ preds \in [Actions -> SUBSET Actions]
    /\ succs \in [Actions -> SUBSET Actions]
    /\ waiting \in [Workers -> SUBSET Actions]
    /\ blockedActions \in SUBSET Actions
    /\ free \in [Workers -> Nat]
    /\ readyCount \in Int
    /\ deps \in [Actions -> SUBSET Actions]
    /\ errors \in 0 .. MaxErrors
    /\ notified \in SUBSET Actions

Running(w) == {a \in Actions : state[a] = "RUNNING" /\ resource[a] = w}

\* The free resources of a worker are what its running actions leave, and are never
\* exceeded, whichever of execute, resumeExecution and the retries launched them.
CapacityRespected ==
    \A w \in Workers : /\ Total(Running(w)) <= Capacity[w]
                        /\ free[w] = Capacity[w] - Total(Running(w))

\* The scheduler does not lose an action. One that waits is in the queue of its own
\* worker and of no other. Not all the actions of a queue fit in what is free, and one
\* runs on the worker, whose end tries the queue again: every release of resources resumes
\* what it can. One that is neither waiting nor running has data predecessors or is
\* blocked until a worker joins.
NoLostAction ==
    /\ \A a \in Actions, w \in Workers :
          a \in waiting[w] <=> state[a] = "WAITING" /\ resource[a] = w
    /\ \A w \in Workers :
          waiting[w] # {} => /\ \E a \in waiting[w] : Requirement[a] > free[w]
                             /\ Running(w) # {}
    /\ \A a \in Actions : state[a] = "RUNNABLE" => preds[a] # {} \/ a \in blockedActions

\* An action leaves RUNNABLE for a worker only after all its data predecessors have
\* finished, also when some of them fail.
DependenciesHonoured ==
    \A a \in Actions :
        state[a] \in {"WAITING", "RUNNING", "FINISHED"} =>
            \A p \in deps[a] : state[p] = "FINISHED"

\* readyCounts, from which the ResourceOptimizer decides to create or destroy
\* workers, is the number of actions without dependencies that are not blocked.
ReadyCountExact ==
    readyCount = Cardinality({a \in Actions : /\ IsPending(a)
                                             /\ preds[a] = {}
                                             /\ a \notin blockedActions})

\* The failure of an action is notified to the Access Processor, which then stops
\* the application, for the action itself or for one that depends on it: also when
\* the traversal of the successors throws.
FailureNotified ==
    \A a \in Actions :
        state[a] = "FAILED" =>
            a \in notified \/ \E b \in Actions : a \in deps[b] /\ state[b] = "FAILED"

\* failed "triggers failure on data successors": no action survives the failure of
\* one that it depends on.
FailurePropagated ==
    \A a \in Actions :
        state[a] = "FAILED" => \A b \in Actions : a \in deps[b] => state[b] = "FAILED"

\* Every submitted action finishes, unless one fails or no worker is left for one.
ActionsFinish ==
    \A a \in Actions :
        state[a] # "NEW" ~> \/ state[a] = "FINISHED"
                           \/ blockedActions # {}
                           \/ \E b \in Actions : state[b] = "FAILED"
=============================================================================
