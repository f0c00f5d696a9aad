-------------------------- MODULE Scheduler_proofs --------------------------
(***************************************************************************)
(* Theorems of Scheduler, for any executions, requirements, priorities,    *)
(* dependencies and workers.                                               *)
(*                                                                         *)
(* SchedulerInv is the inductive invariant. QueuesInv is about the workers,*)
(* and is stated of any values of state, resource, waiting and free: a     *)
(* request first resumes what waits and then launches what it has released,*)
(* and the invariant holds between both. DependenciesOK follows an         *)
(* execution from its submission on, and FailureOK says that a failure is  *)
(* not silent. That the requirements of disjoint sets add up, which the    *)
(* resources of a worker need, is proved from the fold that defines Total: *)
(* it counts the units of a set.                                           *)
(***************************************************************************)
EXTENDS Scheduler, FiniteSetTheorems, WellFoundedInduction, TLAPS

-----------------------------------------------------------------------------
(* Sums of requirements *)

\* A set of naturals that is not empty has a least element.
LEMMA LeastNatural ==
    ASSUME NEW T \in SUBSET Nat, T # {}
    PROVE  \E n \in T : \A m \in T : n <= m
<1>1. PICK n \in T : \A m \in T : ~ (<<m, n>> \in OpToRel(<, Nat))
  BY NatLessThanWellFounded, WFMin, Zenon
<1>2. \A m \in T : ~ (m < n)
  BY <1>1 DEF OpToRel
<1>. QED  BY <1>2

\* The units of resources that the actions of S need, told apart.
Units(S) == {p \in S \X Nat : p[2] \in 1 .. Requirement[p[1]]}

Chosen(s) == CHOOSE x \in s : TRUE

\* The function that Total unfolds to.
IsSum(g, S) ==
    g = [s \in SUBSET S |-> IF s = {} THEN 0
                            ELSE Requirement[Chosen(s)] + g[s \ {Chosen(s)}]]

\* Total, without the operators of the library.
LEMMA TotalUnfolds ==
    ASSUME NEW S
    PROVE  Total(S) = (CHOOSE g : IsSum(g, S))[S]
BY Zenon DEF Total, MapThenSumSet, MapThenFoldSet, IsSum, Chosen

\* The executions are finitely many.
LEMMA ActionsFinite == IsFiniteSet(Actions)
BY NumActionsAssumption, FS_Interval DEF Actions

\* One action more needs its requirement more.
LEMMA UnitsOfOneMore ==
    ASSUME NEW S \in SUBSET Actions, NEW x \in Actions \ S
    PROVE  /\ IsFiniteSet(Units(S)) => IsFiniteSet(Units(S \cup {x}))
           /\ IsFiniteSet(Units(S)) =>
                 Cardinality(Units(S \cup {x})) = Cardinality(Units(S)) + Requirement[x]
<1>1. Requirement[x] \in Nat
  BY ResourcesAssumption
<1> DEFINE U == {x} \X (1 .. Requirement[x])
<1>2. Units(S \cup {x}) = Units(S) \cup U /\ Units(S) \cap U = {}
  BY <1>1 DEF Units
<1>3. IsFiniteSet(1 .. Requirement[x]) /\ Cardinality(1 .. Requirement[x]) = Requirement[x]
  BY <1>1, FS_Interval
<1>4. IsFiniteSet({x}) /\ Cardinality({x}) = 1
  BY FS_Singleton
<1>5. IsFiniteSet(U) /\ Cardinality(U) = 1 * Requirement[x]
  BY <1>3, <1>4, FS_Product
<1> HIDE DEF U
<1>6. ASSUME IsFiniteSet(Units(S))
      PROVE  /\ IsFiniteSet(Units(S) \cup U)
             /\ Cardinality(Units(S) \cup U) = Cardinality(Units(S)) + Requirement[x]
  <2>1. Cardinality({}) = 0
    BY FS_EmptySet
  <2>2. Cardinality(Units(S)) \in Nat
    BY <1>6, FS_CardinalityType
  <2>3. /\ IsFiniteSet(Units(S) \cup U)
        /\ Cardinality(Units(S) \cup U)
             = Cardinality(Units(S)) + Cardinality(U) - Cardinality(Units(S) \cap U)
    BY <1>5, <1>6, FS_Union
  <2>4. Cardinality(Units(S) \cap U) = 0
    BY <1>2, <2>1
  <2>5. Cardinality(U) = Requirement[x]
    BY <1>1, <1>5
  <2>. QED  BY <1>1, <2>2, <2>3, <2>4, <2>5
<1>. QED  BY <1>2, <1>6

\* The units of a set of actions are finitely many.
LEMMA UnitsFinite ==
    ASSUME NEW S \in SUBSET Actions
    PROVE  IsFiniteSet(Units(S)) /\ Cardinality(Units(S)) \in Nat
<1> DEFINE Bad == {n \in Nat : \E s \in SUBSET Actions :
                                   Cardinality(s) = n /\ ~ IsFiniteSet(Units(s))}
<1>1. \A s \in SUBSET Actions : IsFiniteSet(s) /\ Cardinality(s) \in Nat
  BY ActionsFinite, FS_Subset, FS_CardinalityType
<1>2. ASSUME Bad # {} PROVE FALSE
  <2>1. PICK n \in Bad : \A m \in Bad : n <= m
    BY <1>2, LeastNatural
  <2>2. PICK s \in SUBSET Actions : Cardinality(s) = n /\ ~ IsFiniteSet(Units(s))
    BY <2>1
  <2>3. s # {}
    <3>1. Units({}) = {}
      BY DEF Units
    <3>. QED  BY <2>2, <3>1, FS_EmptySet
  <2>4. PICK x \in s : TRUE
    BY <2>3
  <2> DEFINE r == s \ {x}
  <2>5. r \in SUBSET Actions /\ x \in Actions \ r /\ s = r \cup {x}
    BY <2>4
  <2>6. Cardinality(r) = n - 1 /\ Cardinality(r) \in Nat
    BY <1>1, <2>2, <2>4, FS_RemoveElement
  <2> HIDE DEF r
  <2>7. IsFiniteSet(Units(r))
    <3>1. CASE IsFiniteSet(Units(r))
      BY <3>1
    <3>2. CASE ~ IsFiniteSet(Units(r))
      <4>1. Cardinality(r) \in Bad
        BY <2>5, <2>6, <3>2
      <4>. QED  BY <2>1, <2>6, <4>1
    <3>. QED  BY <3>1, <3>2
  <2>. QED  BY <2>2, <2>5, <2>7, UnitsOfOneMore
<1>3. Cardinality(S) \notin Bad
  BY <1>2
<1>4. IsFiniteSet(Units(S))
  BY <1>1, <1>3
<1>. QED  BY <1>4, FS_CardinalityType

\* The number of units is a function that Total may unfold to, and the only one.
LEMMA TotalIsUnits ==
    ASSUME NEW S \in SUBSET Actions
    PROVE  Total(S) = Cardinality(Units(S))
<1> DEFINE h == [s \in SUBSET S |-> Cardinality(Units(s))]
<1>0. \A s \in SUBSET Actions : IsFiniteSet(s) /\ Cardinality(s) \in Nat
  BY ActionsFinite, FS_Subset, FS_CardinalityType
<1>1. ASSUME NEW s \in SUBSET S, s # {}
      PROVE  /\ Chosen(s) \in s
             /\ Cardinality(Units(s))
                  = Requirement[Chosen(s)] + Cardinality(Units(s \ {Chosen(s)}))
  <2>1. Chosen(s) \in s
    BY <1>1 DEF Chosen
  <2> DEFINE r == s \ {Chosen(s)}
             x == Chosen(s)
  <2>2. r \in SUBSET Actions /\ x \in Actions \ r /\ s = r \cup {x}
    BY <2>1
  <2> HIDE DEF r, x
  <2>3. Cardinality(Units(r \cup {x})) = Cardinality(Units(r)) + Requirement[x]
    BY <2>2, UnitsFinite, UnitsOfOneMore
  <2>4. Cardinality(Units(r)) \in Nat /\ Requirement[x] \in Nat
    BY <2>2, UnitsFinite, ResourcesAssumption
  <2>5. Cardinality(Units(s)) = Cardinality(Units(r)) + Requirement[x]
    BY <2>2, <2>3
  <2>6. Cardinality(Units(s)) = Requirement[x] + Cardinality(Units(r))
    BY <2>4, <2>5
  <2>. QED  BY <2>1, <2>6 DEF r, x
<1>2. Cardinality(Units({})) = 0
  <2>1. Units({}) = {}
    BY DEF Units
  <2>. QED  BY <2>1, FS_EmptySet
<1>3. IsSum(h, S)
  <2>1. ASSUME NEW s \in SUBSET S
        PROVE  h[s] = IF s = {} THEN 0 ELSE Requirement[Chosen(s)] + h[s \ {Chosen(s)}]
    <3>1. CASE s = {}
      BY <1>2, <3>1
    <3>2. CASE s # {}
      <4>1. s \ {Chosen(s)} \in SUBSET S
        OBVIOUS
      <4>. QED  BY <1>1, <3>2, <4>1
    <3>. QED  BY <3>1, <3>2
  <2> DEFINE k == [s \in SUBSET S |-> IF s = {} THEN 0
                                      ELSE Requirement[Chosen(s)] + h[s \ {Chosen(s)}]]
  <2>2. h = k
    BY <2>1
  <2>. QED  BY <2>2 DEF IsSum
<1>4. PICK g : g = (CHOOSE f : IsSum(f, S)) /\ IsSum(g, S)
  BY <1>3
<1>5. \A s \in SUBSET S : g[s] = IF s = {} THEN 0
                                 ELSE Requirement[Chosen(s)] + g[s \ {Chosen(s)}]
  BY <1>4 DEF IsSum
<1> DEFINE Bad == {n \in Nat : \E s \in SUBSET S :
                                   Cardinality(s) = n /\ g[s] # Cardinality(Units(s))}
<1>6. ASSUME Bad # {} PROVE FALSE
  <2>1. PICK n \in Bad : \A m \in Bad : n <= m
    BY <1>6, LeastNatural
  <2>2. PICK s \in SUBSET S : Cardinality(s) = n /\ g[s] # Cardinality(Units(s))
    BY <2>1
  <2>3. s # {}
    BY <1>2, <1>5, <2>2
  <2> DEFINE r == s \ {Chosen(s)}
  <2>4. r \in SUBSET S /\ Chosen(s) \in s /\ r \in SUBSET Actions
    BY <1>1, <2>3
  <2>5. Cardinality(r) = n - 1 /\ Cardinality(r) \in Nat
    BY <1>0, <2>2, <2>4, FS_RemoveElement
  <2>6. g[s] = Requirement[Chosen(s)] + g[r]
    BY <1>5, <2>3
  <2>7. Cardinality(Units(s)) = Requirement[Chosen(s)] + Cardinality(Units(r))
    BY <1>1, <2>3
  <2> HIDE DEF r
  <2>8. g[r] # Cardinality(Units(r))
    BY <2>2, <2>6, <2>7
  <2>9. Cardinality(r) \in Bad
    BY <2>4, <2>5, <2>8
  <2>. QED  BY <2>1, <2>5, <2>9
<1>7. Cardinality(S) \notin Bad
  BY <1>6
<1>8. g[S] = Cardinality(Units(S))
  BY <1>0, <1>7
<1>. QED  BY <1>4, <1>8, TotalUnfolds

\* What the actions of two disjoint sets need together is the sum of what they need.
LEMMA TotalOfUnion ==
    ASSUME NEW S \in SUBSET Actions, NEW T \in SUBSET Actions, S \cap T = {}
    PROVE  /\ Total(S) \in Nat /\ Total(T) \in Nat
           /\ Total(S \cup T) = Total(S) + Total(T)
<1>1. /\ Total(S) = Cardinality(Units(S)) /\ Total(T) = Cardinality(Units(T))
      /\ Total(S \cup T) = Cardinality(Units(S \cup T))
  BY TotalIsUnits
<1>2. /\ IsFiniteSet(Units(S)) /\ Cardinality(Units(S)) \in Nat
      /\ IsFiniteSet(Units(T)) /\ Cardinality(Units(T)) \in Nat
  BY UnitsFinite
<1>3. Units(S \cup T) = Units(S) \cup Units(T) /\ Units(S) \cap Units(T) = {}
  BY DEF Units
<1>4. Cardinality(Units(S) \cup Units(T))
        = Cardinality(Units(S)) + Cardinality(Units(T)) - Cardinality(Units(S) \cap Units(T))
  BY <1>2, FS_Union
<1>5. Cardinality(Units(S) \cap Units(T)) = 0
  BY <1>3, FS_EmptySet
<1>6. Total(S \cup T) = Cardinality(Units(S) \cup Units(T))
  BY <1>1, <1>3
<1>. QED  BY <1>1, <1>2, <1>4, <1>5, <1>6

\* What a set of actions needs is a number of units.
LEMMA TotalIsNatural ==
    ASSUME NEW S \in SUBSET Actions
    PROVE  Total(S) \in Nat
BY TotalIsUnits, UnitsFinite

\* One action needs its requirement, and none needs nothing.
LEMMA TotalOfOne ==
    /\ Total({}) = 0
    /\ \A x \in Actions : Total({x}) = Requirement[x] /\ Requirement[x] \in Nat
<1>1. Units({}) = {} /\ Total({}) = Cardinality(Units({}))
  BY TotalIsUnits DEF Units
<1>2. Total({}) = 0
  BY <1>1, FS_EmptySet
<1>3. ASSUME NEW x \in Actions
      PROVE  Total({x}) = Requirement[x] /\ Requirement[x] \in Nat
  <2>1. Cardinality(Units({} \cup {x})) = Cardinality(Units({})) + Requirement[x]
    BY UnitsFinite, UnitsOfOneMore
  <2>2. {} \cup {x} = {x} /\ Requirement[x] \in Nat /\ Total({x}) = Cardinality(Units({x}))
    BY TotalIsUnits, ResourcesAssumption
  <2>. QED  BY <1>1, <1>2, <2>1, <2>2
<1>. QED  BY <1>2, <1>3

-----------------------------------------------------------------------------
(* The invariant *)

OnWorker == {"WAITING", "RUNNING"}
RunningOn(st, res, w) == {a \in Actions : st[a] = "RUNNING" /\ res[a] = w}

\* The worker w could ever run the action a.
Suitable(a, w) == w \in Workers /\ Requirement[a] <= Capacity[w]

QueueTypes(st, res, wt, fr) ==
    /\ st \in [Actions -> States] /\ res \in [Actions -> Workers \cup {None}]
    /\ wt \in [Workers -> SUBSET Actions] /\ fr \in [Workers -> Nat]

\* A worker, its queue and its resources.
WorkerOK(w, st, res, wt, fr) ==
    /\ \A a \in Actions : a \in wt[w] <=> st[a] = "WAITING" /\ res[a] = w
    /\ fr[w] = Capacity[w] - Total(RunningOn(st, res, w))
    /\ wt[w] # {} => \E a \in wt[w] : Requirement[a] > fr[w]

\* The queues, of the values that state, resource, waiting and free take in the middle of
\* a request: what was resumed and what is launched next are two steps of it.
QueuesInv(st, res, wt, fr) ==
    /\ QueueTypes(st, res, wt, fr)
    /\ \A w \in Workers : WorkerOK(w, st, res, wt, fr)
    /\ \A a \in Actions : st[a] \in OnWorker => Suitable(a, res[a])

\* The data dependencies of an action: it was created after those that it depends on; the
\* predecessors that it has lost have finished, unless it failed with one of them; it is
\* in their lists of successors only while it has not been launched; and a runnable action
\* without predecessors is blocked, and has not been forgotten.
DependenciesOK(a) ==
    /\ preds[a] \subseteq deps[a]
    /\ \A p \in deps[a] : p < a /\ state[p] # "NEW"
    /\ state[a] \notin {"NEW", "FAILED"} => \A p \in deps[a] \ preds[a] : state[p] = "FINISHED"
    /\ state[a] \in OnWorker \cup {"FINISHED"} => preds[a] = {} /\ a \notin blockedActions
    /\ state[a] = "NEW" => /\ deps[a] = {} /\ a \notin blockedActions
                           /\ executing[a] = {} /\ resource[a] = None
    /\ state[a] = "RUNNABLE" => preds[a] # {} \/ a \in blockedActions
    /\ state[a] = "RUNNABLE" => a \in blockedActions \/ Suitable(a, resource[a])
    /\ a \in blockedActions /\ preds[a] # {} => resource[a] = None
    /\ \A s \in succs[a] : a \in preds[s] /\ state[s] = "RUNNABLE"

\* The failure of an action has been notified, or one that depends on it failed too.
FailureOK(a) ==
    state[a] = "FAILED" =>
        a \in notified \/ \E b \in Actions : a \in deps[b] /\ state[b] = "FAILED"

\* Actions are submitted in their order.
SubmittedInOrder ==
    \A a, b \in Actions : a < b /\ state[b] # "NEW" => state[a] # "NEW"

GraphTypes ==
    /\ workers \in SUBSET Workers /\ executing \in [Actions -> SUBSET Workers]
    /\ preds \in [Actions -> SUBSET Actions] /\ succs \in [Actions -> SUBSET Actions]
    /\ deps \in [Actions -> SUBSET Actions] /\ blockedActions \in SUBSET Actions
    /\ readyCount \in Int /\ errors \in 0 .. MaxErrors /\ notified \in SUBSET Actions

SchedulerInv ==
    /\ QueuesInv(state, resource, waiting, free)
    /\ GraphTypes /\ SubmittedInOrder
    /\ \A a \in Actions : DependenciesOK(a) /\ FailureOK(a)

\* Every action could run on one of the first workers.
EveryActionFits ==
    \A a \in Actions : \E w \in InitialWorkers : Requirement[a] <= Capacity[w]

ReadyActions == {a \in Actions : IsPending(a) /\ preds[a] = {} /\ a \notin blockedActions}

\* What readyCount needs: an action is blocked only after it has been launched.
ReadyInv ==
    /\ InitialWorkers \subseteq workers
    /\ \A a \in blockedActions : state[a] = "RUNNABLE" /\ preds[a] = {}
    /\ readyCount = Cardinality(ReadyActions)

-----------------------------------------------------------------------------
(* The queues of the workers *)

\* What the invariant says of a worker depends only on the actions that are on it.
LEMMA QueuesFrame ==
    ASSUME NEW st, NEW res, NEW wt, NEW fr, QueuesInv(st, res, wt, fr),
           NEW st2 \in [Actions -> States], NEW res2 \in [Actions -> Workers \cup {None}],
           \A x \in Actions : st[x] \in OnWorker \/ st2[x] \in OnWorker =>
                                  st2[x] = st[x] /\ res2[x] = res[x]
    PROVE  QueuesInv(st2, res2, wt, fr)
<1>1. QueueTypes(st2, res2, wt, fr)
  BY DEF QueuesInv, QueueTypes
<1>2. ASSUME NEW w \in Workers PROVE WorkerOK(w, st2, res2, wt, fr)
  <2>0. WorkerOK(w, st, res, wt, fr)
    BY DEF QueuesInv
  <2>1. RunningOn(st2, res2, w) = RunningOn(st, res, w)
    BY DEF RunningOn, OnWorker
  <2>2. \A a \in Actions : a \in wt[w] <=> st2[a] = "WAITING" /\ res2[a] = w
    BY <2>0 DEF WorkerOK, OnWorker
  <2>. QED  BY <2>0, <2>1, <2>2 DEF WorkerOK
<1>3. \A a \in Actions : st2[a] \in OnWorker => Suitable(a, res2[a])
  BY DEF QueuesInv
<1>. QED  BY <1>1, <1>2, <1>3 DEF QueuesInv

\* When an action ends and others are resumed, the queues stay as they should be.
LEMMA QueuesAfterResume ==
    ASSUME QueuesInv(state, resource, waiting, free),
           NEW a \in Actions, state[a] = "RUNNING",
           NEW st \in States \ OnWorker, NEW L \in Resumed(a)
    PROVE  /\ QueuesInv(StateAfter(a, st, L), resource, WaitingAfter(a, L), FreeAfter(a, L))
           /\ \A x \in L : x \in Actions /\ state[x] = "WAITING"
<1> DEFINE w0 == resource[a]
           st2 == StateAfter(a, st, L)
           wt2 == WaitingAfter(a, L)
           fr2 == FreeAfter(a, L)
<1>1. /\ w0 \in Workers /\ QueueTypes(state, resource, waiting, free)
      /\ \A w \in Workers : WorkerOK(w, state, resource, waiting, free)
  BY DEF QueuesInv, OnWorker, Suitable
<1>2. L \subseteq waiting[w0] /\ Launches(L, waiting[w0], free[w0] + Requirement[a], LowerFirst)
  BY DEF Resumed
<1>3. \A x \in L : x \in Actions /\ state[x] = "WAITING" /\ resource[x] = w0
  BY <1>1, <1>2 DEF WorkerOK, QueueTypes
<1>4. a \notin L /\ L \in SUBSET Actions
  BY <1>3
<1>5. Requirement[a] \in Nat /\ free[w0] \in Nat /\ Total(L) \in Nat
  BY <1>1, <1>4, TotalOfOne, TotalIsNatural DEF QueueTypes
<1>6. st2 = [x \in Actions |-> IF x = a THEN st ELSE IF x \in L THEN "RUNNING" ELSE state[x]]
  BY DEF StateAfter
<1>7. /\ wt2 \in [Workers -> SUBSET Actions]
      /\ \A w \in Workers : wt2[w] = IF w = w0 THEN waiting[w] \ L ELSE waiting[w]
  BY <1>1 DEF WaitingAfter, QueueTypes
<1>8. /\ fr2 \in [Workers -> Nat]
      /\ \A w \in Workers : fr2[w] = IF w = w0 THEN free[w] + Requirement[a] - Total(L)
                                     ELSE free[w]
  <2>1. Total(L) <= free[w0] + Requirement[a]
    BY <1>2 DEF Launches
  <2>. QED  BY <1>1, <1>5, <2>1 DEF FreeAfter, QueueTypes
<1> HIDE DEF st2, wt2, fr2
<1>9. QueueTypes(st2, resource, wt2, fr2)
  <2>1. st2 \in [Actions -> States]
    BY <1>1, <1>6 DEF QueueTypes, States
  <2>. QED  BY <1>1, <1>7, <1>8, <2>1 DEF QueueTypes
<1>10. ASSUME NEW w \in Workers PROVE WorkerOK(w, st2, resource, wt2, fr2)
  <2>0. WorkerOK(w, state, resource, waiting, free)
    BY <1>1
  <2>1. \A x \in Actions : x \in wt2[w] <=> st2[x] = "WAITING" /\ resource[x] = w
    BY <1>3, <1>6, <1>7, <2>0 DEF WorkerOK, OnWorker
  <2>2. CASE w # w0
    <3>1. RunningOn(st2, resource, w) = RunningOn(state, resource, w)
      BY <1>3, <1>6, <2>2 DEF RunningOn
    <3>. QED  BY <1>7, <1>8, <2>0, <2>1, <2>2, <3>1 DEF WorkerOK
  <2>3. CASE w = w0
    <3> DEFINE R == RunningOn(state, resource, w0) \ {a}
    <3>1. /\ RunningOn(state, resource, w0) = R \cup {a} /\ R \cap {a} = {}
          /\ RunningOn(st2, resource, w0) = R \cup L /\ R \cap L = {}
          /\ R \in SUBSET Actions
      BY <1>3, <1>4, <1>6 DEF RunningOn, OnWorker
    <3> HIDE DEF R
    <3>2. /\ Total(RunningOn(state, resource, w0)) = Total(R) + Requirement[a]
          /\ Total(R) \in Nat
      BY <3>1, TotalOfUnion, TotalOfOne
    <3>3. Total(RunningOn(st2, resource, w0)) = Total(R) + Total(L)
      BY <1>4, <3>1, TotalOfUnion
    <3>4. fr2[w0] = Capacity[w0] - Total(RunningOn(st2, resource, w0))
      <4>1. Capacity[w0] \in Nat
        BY <1>1, ResourcesAssumption
      <4>2. free[w0] = Capacity[w0] - Total(RunningOn(state, resource, w0))
        BY <2>0, <2>3 DEF WorkerOK
      <4>. QED  BY <1>1, <1>5, <1>8, <3>2, <3>3, <4>1, <4>2
    <3>5. ASSUME wt2[w0] # {} PROVE \E y \in wt2[w0] : Requirement[y] > fr2[w0]
      <4>1. waiting[w0] \ L # {} /\ wt2[w0] = waiting[w0] \ L
        BY <1>1, <1>7, <3>5
      <4>2. PICK y \in waiting[w0] \ L : Total(L) + Requirement[y] > free[w0] + Requirement[a]
        BY <1>2, <4>1 DEF Launches
      <4>3. Requirement[y] \in Nat
        BY <1>1, ResourcesAssumption DEF QueueTypes
      <4>4. Requirement[y] > fr2[w0]
        BY <1>1, <1>5, <1>8, <4>2, <4>3
      <4>. QED  BY <4>1, <4>4
    <3>. QED  BY <2>1, <2>3, <3>4, <3>5 DEF WorkerOK
  <2>. QED  BY <2>2, <2>3
<1>11. \A x \in Actions : st2[x] \in OnWorker => Suitable(x, resource[x])
  BY <1>3, <1>6 DEF OnWorker, QueuesInv
<1>. QED  BY <1>3, <1>9, <1>10, <1>11 DEF QueuesInv, st2, wt2, fr2

\* execute puts the actions F on their workers, and changes no other.
LEMMA QueuesAfterExecute ==
    ASSUME NEW F \in SUBSET Actions, NEW res, NEW st, NEW wt, NEW fr,
           QueuesInv(st, res, wt, fr), executing \in [Actions -> SUBSET Workers],
           \A x \in F : st[x] \notin OnWorker /\ Suitable(x, res[x]),
           Execute(F, res, st, wt, fr)
    PROVE  /\ QueuesInv(state', res, waiting', free')
           /\ \A x \in F : state'[x] \in OnWorker
           /\ \A x \in Actions \ F : state'[x] = st[x] /\ executing'[x] = executing[x]
           /\ executing' \in [Actions -> SUBSET Workers]
<1>1. PICK M \in Launched(F, res, wt, fr) :
          /\ state' = [x \in Actions |-> IF x \in M THEN "RUNNING"
                                         ELSE IF x \in F THEN "WAITING" ELSE st[x]]
          /\ executing' = [x \in Actions |-> IF x \in M THEN executing[x] \cup {res[x]}
                                             ELSE executing[x]]
          /\ waiting' = [w \in Workers |-> wt[w] \cup {x \in F \ M : res[x] = w}]
          /\ free' = [w \in Workers |-> fr[w] - Total({x \in M : res[x] = w})]
  BY DEF Execute
<1>2. /\ M \in SUBSET F
      /\ \A w \in Workers :
            IF wt[w] = {}
            THEN Launches(M \cap {x \in F : res[x] = w}, {x \in F : res[x] = w}, fr[w], HigherFirst)
            ELSE M \cap {x \in F : res[x] = w} = {}
  BY DEF Launched
<1>3. /\ QueueTypes(st, res, wt, fr)
      /\ \A w \in Workers : WorkerOK(w, st, res, wt, fr)
      /\ \A x \in F : res[x] \in Workers /\ st[x] # "WAITING" /\ st[x] # "RUNNING"
  BY DEF QueuesInv, Suitable, OnWorker
<1>4. ASSUME NEW w \in Workers
      PROVE  WorkerOK(w, state', res, waiting', free') /\ free'[w] \in Nat
  <2> DEFINE W == {x \in F : res[x] = w}
             N == {x \in M : res[x] = w}
             R == RunningOn(st, res, w)
  <2>0. WorkerOK(w, st, res, wt, fr) /\ fr[w] \in Nat /\ Capacity[w] \in Nat
    BY <1>3, ResourcesAssumption DEF QueueTypes
  <2>1. N = M \cap W /\ N \in SUBSET Actions /\ W \in SUBSET Actions /\ R \in SUBSET Actions
    BY <1>2 DEF RunningOn
  <2>2. RunningOn(state', res, w) = R \cup N /\ R \cap N = {}
    BY <1>1, <1>2, <1>3 DEF RunningOn
  <2>3. waiting'[w] = wt[w] \cup (W \ N) /\ free'[w] = fr[w] - Total(N)
    BY <1>1
  <2>4. \A x \in Actions : x \in waiting'[w] <=> state'[x] = "WAITING" /\ res[x] = w
    <3>1. \A x \in Actions : x \in wt[w] <=> st[x] = "WAITING" /\ res[x] = w
      BY <2>0 DEF WorkerOK
    <3>. QED  BY <1>1, <1>2, <1>3, <2>3, <3>1
  <2>5. IF wt[w] = {} THEN Launches(N, W, fr[w], HigherFirst) ELSE N = {}
    BY <1>2, <2>1
  <2>6. fr[w] = Capacity[w] - Total(R)
    BY <2>0 DEF WorkerOK
  <2>7. wt[w] # {} => \E x \in wt[w] : Requirement[x] > fr[w]
    BY <2>0 DEF WorkerOK
  <2> HIDE DEF W, N, R
  <2>8. Total(R) \in Nat /\ Total(N) \in Nat /\ Total(R \cup N) = Total(R) + Total(N)
    BY <2>1, <2>2, TotalOfUnion
  <2>9. free'[w] = Capacity[w] - Total(RunningOn(state', res, w))
    BY <2>0, <2>2, <2>3, <2>6, <2>8
  <2>10. Total(N) <= fr[w]
    <3>1. CASE wt[w] = {}
      BY <2>5, <3>1 DEF Launches
    <3>2. CASE wt[w] # {}
      <4>1. N = {}
        BY <2>5, <3>2
      <4>2. Total(N) = 0
        BY <4>1, TotalOfOne
      <4>. QED  BY <2>0, <4>2
    <3>. QED  BY <3>1, <3>2
  <2>11. ASSUME waiting'[w] # {} PROVE \E x \in waiting'[w] : Requirement[x] > free'[w]
    <3>1. CASE wt[w] = {}
      <4>1. W # N /\ Launches(N, W, fr[w], HigherFirst)
        BY <2>3, <2>5, <2>11, <3>1
      <4>2. PICK y \in W \ N : Total(N) + Requirement[y] > fr[w]
        BY <4>1 DEF Launches
      <4>3. Requirement[y] \in Nat
        BY <2>1, ResourcesAssumption
      <4>4. Requirement[y] > free'[w]
        BY <2>0, <2>3, <2>8, <4>2, <4>3
      <4>. QED  BY <2>3, <4>4
    <3>2. CASE wt[w] # {}
      <4>1. N = {} /\ Total(N) = 0
        BY <2>5, <3>2, TotalOfOne
      <4>2. free'[w] = fr[w]
        BY <2>0, <2>3, <4>1
      <4>. QED  BY <2>3, <2>7, <3>2, <4>2
    <3>. QED  BY <3>1, <3>2
  <2>12. free'[w] \in Nat
    BY <2>0, <2>3, <2>8, <2>10
  <2>. QED  BY <2>4, <2>9, <2>11, <2>12 DEF WorkerOK
<1>5. QueueTypes(state', res, waiting', free')
  <2>1. state' \in [Actions -> States]
    BY <1>1, <1>3 DEF QueueTypes, States
  <2>2. waiting' \in [Workers -> SUBSET Actions]
    BY <1>1, <1>3 DEF QueueTypes
  <2>3. free' \in [Workers -> Nat]
    <3>1. DOMAIN free' = Workers /\ free' = [w \in Workers |-> free'[w]]
      BY <1>1
    <3>. QED  BY <1>4, <3>1
  <2>. QED  BY <1>3, <2>1, <2>2, <2>3 DEF QueueTypes
<1>6. \A x \in Actions : state'[x] \in OnWorker => Suitable(x, res[x])
  BY <1>1, <1>2 DEF QueuesInv, OnWorker
<1>7. \A x \in F : state'[x] \in OnWorker
  BY <1>1 DEF OnWorker
<1>8. \A x \in Actions \ F : state'[x] = st[x] /\ executing'[x] = executing[x]
  BY <1>1, <1>2
<1>9. executing' \in [Actions -> SUBSET Workers]
  BY <1>1, <1>2, <1>3
<1>. QED  BY <1>4, <1>5, <1>6, <1>7, <1>8, <1>9 DEF QueuesInv

-----------------------------------------------------------------------------
(* The chain of a failure *)

Follow(x) == IF x = 0 \/ succs[x] = {} THEN 0 ELSE Min(succs[x])

\* The function that ChainOf unfolds to, also for fewer steps.
IsChain(c, n, a) == c = [i \in 1 .. n |-> IF i = 1 THEN a ELSE Follow(c[i - 1])]

\* ChainOf, with the step from an action to the next as an operator.
LEMMA ChainUnfolds ==
    ASSUME NEW a
    PROVE  ChainOf(a) = CHOOSE c : IsChain(c, NumActions, a)
<1>1. ASSUME NEW c, NEW i
      PROVE  (IF c[i - 1] = 0 \/ succs[c[i - 1]] = {} THEN 0 ELSE Min(succs[c[i - 1]]))
               = Follow(c[i - 1])
  BY Zenon DEF Follow
<1>. QED  BY <1>1, Zenon DEF ChainOf, IsChain, Follow

\* The successors of an action come after it.
SuccessorsLater ==
    /\ succs \in [Actions -> SUBSET Actions]
    /\ \A x \in Actions : \A s \in succs[x] : x < s

\* The next action of the chain is a successor.
LEMMA FollowIsSuccessor ==
    ASSUME SuccessorsLater, NEW x \in Actions \cup {0}
    PROVE  /\ Follow(x) \in Actions \cup {0} /\ 0 \notin Actions
           /\ x = 0 => Follow(x) = 0
           /\ Follow(x) # 0 => x # 0 /\ Follow(x) \in succs[x]
           /\ x # 0 /\ succs[x] # {} => Follow(x) # 0
<1>0. 0 \notin Actions
  BY NumActionsAssumption DEF Actions
<1>1. CASE x = 0 \/ succs[x] = {}
  BY <1>0, <1>1 DEF Follow
<1>2. CASE x # 0 /\ succs[x] # {}
  <2>1. succs[x] \in SUBSET Nat /\ succs[x] \subseteq Actions
    BY <1>2, NumActionsAssumption DEF SuccessorsLater, Actions
  <2>2. \E n \in succs[x] : \A m \in succs[x] : n <= m
    BY <1>2, <2>1, LeastNatural
  <2>3. Min(succs[x]) \in succs[x]
    BY <2>2 DEF Min
  <2>4. Follow(x) = Min(succs[x])
    BY <1>2 DEF Follow
  <2>. QED  BY <1>0, <1>2, <2>1, <2>3, <2>4
<1>. QED  BY <1>1, <1>2

\* A chain of any length exists: it is extended by one action at a time.
LEMMA ChainExists ==
    ASSUME SuccessorsLater, NEW a \in Actions, NEW n \in Nat
    PROVE  \E c : IsChain(c, n, a)
<1> DEFINE Bad == {k \in Nat : ~ \E c : IsChain(c, k, a)}
<1>1. ASSUME Bad # {} PROVE FALSE
  <2>1. PICK k \in Bad : \A m \in Bad : k <= m
    BY <1>1, LeastNatural
  <2>2. CASE k = 0
    <3> DEFINE e == [i \in 1 .. 0 |-> 0]
    <3>1. IsChain(e, 0, a)
      BY DEF IsChain
    <3>. QED  BY <2>1, <2>2, <3>1
  <2>3. CASE k # 0
    <3>1. k - 1 \in Nat /\ k - 1 \notin Bad
      BY <2>1, <2>3
    <3>2. PICK c : IsChain(c, k - 1, a)
      BY <3>1
    <3> DEFINE d == [i \in 1 .. k |-> IF i = 1 THEN a ELSE Follow(c[i - 1])]
               d2 == [i \in 1 .. k |-> IF i = 1 THEN a ELSE Follow(d[i - 1])]
    <3>3. ASSUME NEW i \in 1 .. k - 1 PROVE d[i] = c[i]
      <4>1. c[i] = IF i = 1 THEN a ELSE Follow(c[i - 1])
        BY <3>2 DEF IsChain
      <4>2. i \in 1 .. k
        BY <3>1
      <4>. QED  BY <4>1, <4>2
    <3>4. ASSUME NEW i \in 1 .. k PROVE d[i] = d2[i]
      <4>1. CASE i = 1
        BY <4>1
      <4>2. CASE i # 1
        <5>1. i - 1 \in 1 .. k - 1
          BY <3>1, <4>2
        <5>2. d[i - 1] = c[i - 1]
          BY <3>3, <5>1
        <5>. QED  BY <4>2, <5>2
      <4>. QED  BY <4>1, <4>2
    <3>5. d = d2
      BY <3>4
    <3>6. IsChain(d, k, a)
      BY <3>5 DEF IsChain
    <3>. QED  BY <2>1, <3>6
  <2>. QED  BY <2>2, <2>3
<1>. QED  BY <1>1

\* The chain starts with the action that failed and goes from an action to one of its
\* successors. It ends with one that has none, and the rest is zeros.
LEMMA ChainFacts ==
    ASSUME SuccessorsLater, NEW a \in Actions
    PROVE  /\ ChainOf(a) \in [1 .. NumActions -> Actions \cup {0}]
           /\ 1 \in 1 .. NumActions /\ ChainOf(a)[1] = a
           /\ \A i \in 1 .. NumActions : i # 1 => ChainOf(a)[i] = Follow(ChainOf(a)[i - 1])
           /\ \A i \in 1 .. NumActions : ChainOf(a)[i] # 0 => i <= ChainOf(a)[i]
           /\ \A i, j \in 1 .. NumActions : i <= j /\ ChainOf(a)[j] # 0 => ChainOf(a)[i] # 0
<1> DEFINE c == ChainOf(a)
<1>0. NumActions \in Nat /\ Actions = 1 .. NumActions
  BY NumActionsAssumption DEF Actions
<1>1. IsChain(c, NumActions, a)
  <2>1. \E d : IsChain(d, NumActions, a)
    BY <1>0, ChainExists
  <2>. QED  BY <2>1, ChainUnfolds, Zenon
<1> HIDE DEF c
<1>2. /\ \A i \in 1 .. NumActions : c[i] = IF i = 1 THEN a ELSE Follow(c[i - 1])
      /\ c = [i \in 1 .. NumActions |-> c[i]]
  BY <1>1 DEF IsChain
<1>3. 1 \in 1 .. NumActions /\ c[1] = a
  <2>1. 1 \in 1 .. NumActions
    BY <1>0
  <2>. QED  BY <1>2, <2>1
<1> DEFINE Good(i) == c[i] \in Actions \cup {0} /\ (c[i] # 0 => i <= c[i])
           Bad == {i \in 1 .. NumActions : ~ Good(i)}
<1>4. ASSUME Bad # {} PROVE FALSE
  <2>0. Bad \in SUBSET Nat
    BY <1>0
  <2>1. PICK i \in Bad : \A m \in Bad : i <= m
    BY <1>4, <2>0, LeastNatural
  <2>2. CASE i = 1
    BY <1>0, <1>3, <2>1, <2>2
  <2>3. CASE i # 1
    <3>1. i - 1 \in 1 .. NumActions /\ i - 1 \notin Bad
      BY <1>0, <2>1, <2>3
    <3>2. Good(i - 1)
      BY <3>1
    <3>3. c[i] = Follow(c[i - 1])
      BY <1>2, <2>1, <2>3
    <3>4. /\ Follow(c[i - 1]) \in Actions \cup {0} /\ 0 \notin Actions
          /\ Follow(c[i - 1]) # 0 => c[i - 1] # 0 /\ Follow(c[i - 1]) \in succs[c[i - 1]]
      BY <3>2, FollowIsSuccessor
    <3>5. c[i] # 0 => i <= c[i]
      <4>1. ASSUME c[i] # 0 PROVE i <= c[i]
        <5>1. c[i - 1] \in Actions /\ i - 1 <= c[i - 1] /\ c[i] \in succs[c[i - 1]]
          BY <3>2, <3>3, <3>4, <4>1
        <5>2. c[i - 1] < c[i] /\ c[i] \in Actions
          BY <3>3, <3>4, <4>1, <5>1 DEF SuccessorsLater
        <5>. QED  BY <1>0, <2>1, <5>1, <5>2
      <4>. QED  BY <4>1
    <3>. QED  BY <2>1, <3>3, <3>4, <3>5
  <2>. QED  BY <2>2, <2>3
<1>5. \A i \in 1 .. NumActions : Good(i)
  BY <1>4
<1>6. c \in [1 .. NumActions -> Actions \cup {0}]
  BY <1>2, <1>5
<1>7. ASSUME NEW i \in 1 .. NumActions, c[i] = 0,
             NEW j \in 1 .. NumActions, i <= j, c[j] # 0
      PROVE  FALSE
  <2> DEFINE After == {k \in 1 .. NumActions : i <= k /\ c[k] # 0}
  <2>0. After \in SUBSET Nat /\ After # {}
    BY <1>0, <1>7
  <2>1. PICK k \in After : \A m \in After : k <= m
    BY <2>0, LeastNatural
  <2>2. k # i /\ k # 1
    BY <1>0, <1>7, <2>1
  <2>3. k - 1 \in 1 .. NumActions /\ i <= k - 1
    BY <1>0, <2>1, <2>2
  <2>4. c[k - 1] = 0
    <3>1. k - 1 \notin After
      BY <2>1, <2>3
    <3>. QED  BY <2>3, <3>1
  <2>5. c[k] = Follow(c[k - 1])
    BY <1>2, <2>1, <2>2
  <2>. QED  BY <2>1, <2>4, <2>5 DEF Follow
<1>. QED  BY <1>2, <1>3, <1>5, <1>6, <1>7 DEF c

-----------------------------------------------------------------------------
(* The invariant holds at the start, and every action preserves it *)

\* At the start nothing has been submitted and all the resources are free.
LEMMA InitSchedulerInv == Init => SchedulerInv
<1> SUFFICES ASSUME Init PROVE SchedulerInv
  OBVIOUS
<1>1. QueueTypes(state, resource, waiting, free)
  BY ResourcesAssumption DEF Init, QueueTypes, States
<1>2. ASSUME NEW w \in Workers PROVE WorkerOK(w, state, resource, waiting, free)
  <2>1. RunningOn(state, resource, w) = {}
    BY DEF Init, RunningOn
  <2>2. Capacity[w] \in Nat /\ Total({}) = 0
    BY ResourcesAssumption, TotalOfOne
  <2>3. free[w] = Capacity[w] - Total(RunningOn(state, resource, w))
    <3>1. Total(RunningOn(state, resource, w)) = 0
      BY <2>1, <2>2
    <3>. QED  BY <2>2, <3>1 DEF Init
  <2>. QED  BY <2>3 DEF Init, WorkerOK
<1>3. \A a \in Actions : state[a] \in OnWorker => Suitable(a, resource[a])
  BY DEF Init, OnWorker
<1>4. GraphTypes
  BY WorkersAssumption, ChancesAssumption DEF Init, GraphTypes
<1>5. SubmittedInOrder
  BY DEF Init, SubmittedInOrder
<1>6. \A a \in Actions : DependenciesOK(a) /\ FailureOK(a)
  BY DEF Init, DependenciesOK, FailureOK, OnWorker
<1>. QED  BY <1>1, <1>2, <1>3, <1>4, <1>5, <1>6 DEF SchedulerInv, QueuesInv

\* An action that is scheduled is blocked, or assigned to a worker that can run it and
\* launched there if it has no data dependencies. No other action changes.
LEMMA Scheduled ==
    ASSUME GraphTypes, NEW a \in Actions, NEW st, NEW wt, NEW fr, NEW count \in Int,
           NEW launchable \in BOOLEAN, QueuesInv(st, resource, wt, fr), st[a] = "RUNNABLE",
           ScheduleAndLaunch(a, resource, st, wt, fr, count, launchable)
    PROVE  /\ QueuesInv(state', resource', waiting', free')
           /\ executing' \in [Actions -> SUBSET Workers] /\ readyCount' \in Int
           /\ \A x \in Actions \ {a} : /\ state'[x] = st[x] /\ resource'[x] = resource[x]
                                       /\ executing'[x] = executing[x]
           /\ \/ /\ Candidates(a, workers) = {} /\ readyCount' = count - 1
                 /\ blockedActions' = blockedActions \cup {a}
                 /\ state'[a] = "RUNNABLE" /\ resource'[a] = resource[a]
              \/ /\ Suitable(a, resource'[a]) /\ readyCount' = count
                 /\ blockedActions' = blockedActions
                 /\ IF launchable THEN state'[a] \in OnWorker ELSE state'[a] = "RUNNABLE"
<1>1. CASE Candidates(a, workers) = {} /\ Block(a, resource, st, wt, fr, count)
  BY <1>1 DEF Block, GraphTypes
<1>2. ASSUME NEW w \in Candidates(a, workers),
             resource' = [resource EXCEPT ![a] = w],
             Execute(IF launchable THEN {a} ELSE {}, [resource EXCEPT ![a] = w], st, wt, fr),
             readyCount' = count, UNCHANGED blockedActions
      PROVE  /\ QueuesInv(state', resource', waiting', free')
             /\ executing' \in [Actions -> SUBSET Workers]
             /\ \A x \in Actions \ {a} : /\ state'[x] = st[x] /\ resource'[x] = resource[x]
                                         /\ executing'[x] = executing[x]
             /\ Suitable(a, resource'[a])
             /\ IF launchable THEN state'[a] \in OnWorker ELSE state'[a] = "RUNNABLE"
  <2> DEFINE res == [resource EXCEPT ![a] = w]
             F == IF launchable THEN {a} ELSE {}
  <2>1. w \in Workers /\ Suitable(a, w)
    BY <1>2 DEF Candidates, GraphTypes, Suitable
  <2>2. /\ resource \in [Actions -> Workers \cup {None}] /\ st \in [Actions -> States]
        /\ res \in [Actions -> Workers \cup {None}] /\ res[a] = w
        /\ \A x \in Actions \ {a} : res[x] = resource[x]
    BY <2>1 DEF QueuesInv, QueueTypes
  <2>3. resource' = res /\ F \in SUBSET Actions /\ Execute(F, res, st, wt, fr)
    BY <1>2
  <2>4. \A x \in F : x = a
    OBVIOUS
  <2>5. IF launchable THEN F = {a} ELSE F = {}
    OBVIOUS
  <2> HIDE DEF res, F
  <2>6. QueuesInv(st, res, wt, fr)
    <3>1. \A x \in Actions : st[x] \in OnWorker \/ st[x] \in OnWorker =>
                                 st[x] = st[x] /\ res[x] = resource[x]
      BY <2>2 DEF OnWorker
    <3>. QED  BY <2>2, <3>1, QueuesFrame
  <2>7. \A x \in F : st[x] \notin OnWorker /\ Suitable(x, res[x])
    BY <2>1, <2>2, <2>4 DEF OnWorker
  <2>8. executing \in [Actions -> SUBSET Workers]
    BY DEF GraphTypes
  <2>9. /\ QueuesInv(state', res, waiting', free')
        /\ \A x \in F : state'[x] \in OnWorker
        /\ \A x \in Actions \ F : state'[x] = st[x] /\ executing'[x] = executing[x]
        /\ executing' \in [Actions -> SUBSET Workers]
    BY <2>3, <2>6, <2>7, <2>8, QueuesAfterExecute
  <2>10. \A x \in Actions \ {a} : state'[x] = st[x] /\ executing'[x] = executing[x]
    BY <2>4, <2>9
  <2>11. IF launchable THEN state'[a] \in OnWorker ELSE state'[a] = "RUNNABLE"
    BY <2>5, <2>9
  <2>. QED  BY <2>1, <2>2, <2>3, <2>9, <2>10, <2>11
<1>. QED  BY <1>1, <1>2 DEF ScheduleAndLaunch

\* The successors of an action come after it.
LEMMA SuccessorsAreLater == SchedulerInv => SuccessorsLater
<1> SUFFICES ASSUME SchedulerInv PROVE SuccessorsLater
  OBVIOUS
<1>1. ASSUME NEW x \in Actions, NEW s \in succs[x] PROVE x < s
  <2>1. s \in Actions
    BY DEF SchedulerInv, GraphTypes
  <2>. QED  BY <2>1 DEF SchedulerInv, DependenciesOK
<1>. QED  BY <1>1 DEF SuccessorsLater, SchedulerInv, GraphTypes

\* What newAllocatableAction does: the action is blocked or assigned to a worker, and no
\* other changes but in its successors.
LEMMA NewActionStep ==
    ASSUME SchedulerInv, NEW a \in Actions, NEW D \in SUBSET MayDepend[a],
           NewAllocatableAction(a, D)
    PROVE  /\ QueuesInv(state', resource', waiting', free')
           /\ executing' \in [Actions -> SUBSET Workers] /\ readyCount' \in Int
           /\ D \in SUBSET Actions /\ a \notin D /\ \A p \in D : state[p] # "NEW" /\ p < a
           /\ \/ /\ Candidates(a, workers) = {} /\ blockedActions' = blockedActions \cup {a}
                 /\ state'[a] = "RUNNABLE" /\ resource'[a] = resource[a]
              \/ /\ Suitable(a, resource'[a]) /\ blockedActions' = blockedActions
                 /\ readyCount' = readyCount + (IF D = {} THEN 1 ELSE 0)
                 /\ IF D = {} THEN state'[a] \in OnWorker ELSE state'[a] = "RUNNABLE"
           /\ \A x \in Actions \ {a} : /\ state'[x] = state[x] /\ resource'[x] = resource[x]
                                       /\ executing'[x] = executing[x]
                                       /\ deps'[x] = deps[x] /\ preds'[x] = preds[x]
                                       /\ x \in blockedActions' <=> x \in blockedActions
<1> DEFINE st == [state EXCEPT ![a] = "RUNNABLE"]
           count == readyCount + (IF D = {} THEN 1 ELSE 0)
<1>1. /\ QueuesInv(state, resource, waiting, free) /\ GraphTypes /\ SubmittedInOrder
      /\ \A x \in Actions : DependenciesOK(x) /\ FailureOK(x)
      /\ state \in [Actions -> States] /\ resource \in [Actions -> Workers \cup {None}]
  BY DEF SchedulerInv, QueuesInv, QueueTypes
<1>2. /\ state[a] = "NEW" /\ \A b \in Actions : b < a => state[b] # "NEW"
      /\ deps' = [deps EXCEPT ![a] = D] /\ preds' = [preds EXCEPT ![a] = D]
      /\ succs' = [p \in Actions |-> IF p \in D THEN succs[p] \cup {a} ELSE succs[p]]
      /\ ScheduleAndLaunch(a, resource, st, waiting, free, count, D = {})
      /\ workers' = workers /\ errors' = errors /\ notified' = notified
  BY DEF NewAllocatableAction
<1>3. D \in SUBSET Actions /\ a \notin D /\ \A p \in D : state[p] # "NEW" /\ p < a
  <2>1. D \in SUBSET Actions
    BY MayDependAssumption
  <2>2. \A p \in D : state[p] # "NEW"
    BY DEF NewAllocatableAction, IsPending
  <2>. QED  BY <1>1, <1>2, <2>1, <2>2, NumActionsAssumption DEF SubmittedInOrder, Actions
<1>4. /\ st \in [Actions -> States] /\ st[a] = "RUNNABLE"
      /\ \A x \in Actions \ {a} : st[x] = state[x]
  BY <1>1 DEF States
<1>5. count \in Int
  BY <1>1 DEF GraphTypes
<1> HIDE DEF st, count
<1>a. PICK none \in BOOLEAN : none = (D = {})
  BY Zenon
<1>b. ScheduleAndLaunch(a, resource, st, waiting, free, count, none)
  BY <1>2, <1>a, Zenon
<1>6. QueuesInv(st, resource, waiting, free)
  <2>1. \A x \in Actions : state[x] \in OnWorker \/ st[x] \in OnWorker =>
                               st[x] = state[x] /\ resource[x] = resource[x]
    BY <1>2, <1>4 DEF OnWorker
  <2>. QED  BY <1>1, <1>4, <2>1, QueuesFrame
<1>7. /\ QueuesInv(state', resource', waiting', free')
      /\ executing' \in [Actions -> SUBSET Workers] /\ readyCount' \in Int
      /\ \A x \in Actions \ {a} : /\ state'[x] = st[x] /\ resource'[x] = resource[x]
                                  /\ executing'[x] = executing[x]
      /\ \/ /\ Candidates(a, workers) = {} /\ readyCount' = count - 1
            /\ blockedActions' = blockedActions \cup {a}
            /\ state'[a] = "RUNNABLE" /\ resource'[a] = resource[a]
         \/ /\ Suitable(a, resource'[a]) /\ readyCount' = count
            /\ blockedActions' = blockedActions
            /\ IF D = {} THEN state'[a] \in OnWorker ELSE state'[a] = "RUNNABLE"
  <2>1. /\ QueuesInv(state', resource', waiting', free')
        /\ executing' \in [Actions -> SUBSET Workers] /\ readyCount' \in Int
        /\ \A x \in Actions \ {a} : /\ state'[x] = st[x] /\ resource'[x] = resource[x]
                                    /\ executing'[x] = executing[x]
        /\ \/ /\ Candidates(a, workers) = {} /\ readyCount' = count - 1
              /\ blockedActions' = blockedActions \cup {a}
              /\ state'[a] = "RUNNABLE" /\ resource'[a] = resource[a]
           \/ /\ Suitable(a, resource'[a]) /\ readyCount' = count
              /\ blockedActions' = blockedActions
              /\ IF none THEN state'[a] \in OnWorker ELSE state'[a] = "RUNNABLE"
    BY <1>1, <1>4, <1>5, <1>6, <1>b, Scheduled, Zenon
  <2>. QED  BY <1>a, <2>1
<1>8. \A x \in Actions \ {a} : /\ state'[x] = state[x] /\ resource'[x] = resource[x]
                               /\ executing'[x] = executing[x]
                               /\ deps'[x] = deps[x] /\ preds'[x] = preds[x]
                               /\ x \in blockedActions' <=> x \in blockedActions
  BY <1>1, <1>2, <1>4, <1>7 DEF GraphTypes
<1>. QED  BY <1>3, <1>7, <1>8 DEF count

\* newAllocatableAction preserves the invariant.
LEMMA NewActionInv ==
    ASSUME SchedulerInv, NEW a \in Actions, NEW D \in SUBSET MayDepend[a],
           NewAllocatableAction(a, D)
    PROVE  SchedulerInv'
<1>1. /\ QueuesInv(state, resource, waiting, free) /\ GraphTypes /\ SubmittedInOrder
      /\ \A x \in Actions : DependenciesOK(x) /\ FailureOK(x)
  BY DEF SchedulerInv
<1>2. /\ state[a] = "NEW" /\ \A b \in Actions : b < a => state[b] # "NEW"
      /\ deps' = [deps EXCEPT ![a] = D] /\ preds' = [preds EXCEPT ![a] = D]
      /\ succs' = [p \in Actions |-> IF p \in D THEN succs[p] \cup {a} ELSE succs[p]]
      /\ workers' = workers /\ errors' = errors /\ notified' = notified
  BY DEF NewAllocatableAction
<1>3. D \in SUBSET Actions /\ a \notin D /\ \A p \in D : state[p] # "NEW" /\ p < a
  BY NewActionStep
<1>7. /\ QueuesInv(state', resource', waiting', free')
      /\ executing' \in [Actions -> SUBSET Workers] /\ readyCount' \in Int
      /\ \/ /\ Candidates(a, workers) = {} /\ blockedActions' = blockedActions \cup {a}
            /\ state'[a] = "RUNNABLE" /\ resource'[a] = resource[a]
         \/ /\ Suitable(a, resource'[a]) /\ blockedActions' = blockedActions
            /\ IF D = {} THEN state'[a] \in OnWorker ELSE state'[a] = "RUNNABLE"
  BY NewActionStep
<1>8. \A x \in Actions \ {a} : /\ state'[x] = state[x] /\ resource'[x] = resource[x]
                               /\ executing'[x] = executing[x]
                               /\ deps'[x] = deps[x] /\ preds'[x] = preds[x]
                               /\ x \in blockedActions' <=> x \in blockedActions
  BY NewActionStep
<1>9. GraphTypes'
  <2>1. deps' \in [Actions -> SUBSET Actions] /\ preds' \in [Actions -> SUBSET Actions]
    BY <1>1, <1>2, <1>3 DEF GraphTypes
  <2>2. succs' \in [Actions -> SUBSET Actions] /\ blockedActions' \in SUBSET Actions
    BY <1>1, <1>2, <1>7 DEF GraphTypes
  <2>. QED  BY <1>1, <1>2, <1>7, <2>1, <2>2 DEF GraphTypes
<1>10. state'[a] # "NEW" /\ state'[a] # "FAILED" /\ state'[a] # "FINISHED"
  BY <1>7 DEF OnWorker
<1>11. SubmittedInOrder'
  BY <1>1, <1>2, <1>8, <1>10, NumActionsAssumption DEF SubmittedInOrder, Actions
<1>12. ASSUME NEW x \in Actions PROVE DependenciesOK(x)'
  <2>1. CASE x = a
    <3>1. deps'[a] = D /\ preds'[a] = D
      BY <1>1, <1>2 DEF GraphTypes
    <3>2. succs'[a] = {}
      <4>1. \A s \in succs[a] : a \in deps[s] /\ s \in Actions
        BY <1>1 DEF GraphTypes, DependenciesOK
      <4>2. succs[a] = {}
        BY <1>1, <1>2, <4>1 DEF DependenciesOK
      <4>. QED  BY <1>2, <1>3, <4>2
    <3>3. \A p \in D : p < a /\ state'[p] # "NEW"
      BY <1>3, <1>8
    <3>4. a \notin blockedActions /\ resource[a] = None
      BY <1>1, <1>2 DEF DependenciesOK
    <3>. QED  BY <1>7, <1>10, <2>1, <3>1, <3>2, <3>3, <3>4 DEF DependenciesOK, OnWorker
  <2>2. CASE x # a
    <3>1. DependenciesOK(x)
      BY <1>1
    <3>2. \A p \in deps[x] : p \in Actions /\ p # a
      BY <1>1, <1>2, <3>1 DEF DependenciesOK, GraphTypes
    <3>3. \A s \in succs'[x] : x \in preds'[s] /\ state'[s] = "RUNNABLE"
      <4>1. ASSUME NEW s \in succs[x] PROVE x \in preds'[s] /\ state'[s] = "RUNNABLE"
        <5>1. s \in Actions /\ s # a
          BY <1>1, <1>2, <3>1 DEF DependenciesOK, GraphTypes
        <5>. QED  BY <1>8, <3>1, <5>1 DEF DependenciesOK
      <4>2. ASSUME x \in D PROVE x \in preds'[a] /\ state'[a] = "RUNNABLE"
        BY <1>1, <1>2, <1>7, <4>2 DEF GraphTypes
      <4>. QED  BY <1>2, <4>1, <4>2
    <3>4. state'[x] = state[x] /\ resource'[x] = resource[x] /\ executing'[x] = executing[x]
          /\ deps'[x] = deps[x] /\ preds'[x] = preds[x]
          /\ (x \in blockedActions' <=> x \in blockedActions)
      BY <1>8, <2>2
    <3>5. \A p \in deps[x] : state'[p] = state[p]
      BY <1>8, <3>2
    <3>. QED  BY <3>1, <3>3, <3>4, <3>5 DEF DependenciesOK
  <2>. QED  BY <2>1, <2>2
<1>13. ASSUME NEW x \in Actions PROVE FailureOK(x)'
  <2>1. FailureOK(x)
    BY <1>1
  <2>2. ASSUME NEW b \in Actions, x \in deps[b], state[b] = "FAILED"
        PROVE  x \in deps'[b] /\ state'[b] = "FAILED"
    BY <1>2, <1>8, <2>2
  <2>3. state'[x] = "FAILED" => state[x] = "FAILED"
    BY <1>8, <1>10
  <2>. QED  BY <1>2, <2>1, <2>2, <2>3 DEF FailureOK
<1>. QED  BY <1>7, <1>9, <1>11, <1>12, <1>13 DEF SchedulerInv

\* The successors that the completion of an action releases, and those that it launches.
Freed(a)    == {s \in succs[a] : preds[s] \ {a} = {}}
ToLaunch(a) == {s \in Freed(a) : state[s] = "RUNNABLE" /\ resource[s] # None}

\* What actionCompleted does: the action has finished, waiting actions run, and released
\* successors go to their workers.
LEMMA CompletedStep ==
    ASSUME SchedulerInv, NEW a \in Actions, ActionCompleted(a)
    PROVE  /\ QueuesInv(state', resource, waiting', free')
           /\ executing' \in [Actions -> SUBSET Workers]
           /\ Freed(a) \in SUBSET Actions
           /\ \A s \in succs[a] : s \in Actions /\ a \in preds[s] /\ state[s] = "RUNNABLE"
           /\ \A s \in Actions : s \in Freed(a) <=> s \in succs[a] /\ preds[s] \ {a} = {}
           /\ \A s \in Freed(a) : s \in ToLaunch(a) <=> resource[s] # None
           /\ \A x \in ToLaunch(a) : /\ x \in Actions /\ x \in Freed(a) /\ x \notin blockedActions
                                     /\ state[x] = "RUNNABLE" /\ state'[x] \in OnWorker
           /\ \A x \in Actions \ ToLaunch(a) : executing'[x] = executing[x]
           /\ \E L \in SUBSET Actions :
                 /\ state'[a] = "FINISHED"
                 /\ \A x \in L : state'[x] = "RUNNING" /\ state[x] = "WAITING"
                 /\ \A x \in Actions : x # a /\ x \notin L /\ x \notin ToLaunch(a) =>
                                           state'[x] = state[x]
<1> DEFINE freed == Freed(a)
           F == ToLaunch(a)
<1>1. /\ QueuesInv(state, resource, waiting, free) /\ GraphTypes /\ SubmittedInOrder
      /\ \A x \in Actions : DependenciesOK(x) /\ FailureOK(x)
      /\ state \in [Actions -> States] /\ resource \in [Actions -> Workers \cup {None}]
  BY DEF SchedulerInv, QueuesInv, QueueTypes
<1>2. PICK L \in Resumed(a) :
          Execute(F, resource, StateAfter(a, "FINISHED", L), WaitingAfter(a, L), FreeAfter(a, L))
  BY DEF ActionCompleted, Freed, ToLaunch
<1>3. /\ state[a] = "RUNNING"
      /\ preds' = [s \in Actions |-> IF s \in succs[a] THEN preds[s] \ {a} ELSE preds[s]]
      /\ succs' = [succs EXCEPT ![a] = {}]
      /\ readyCount' = readyCount - 1 + Cardinality(freed)
      /\ workers' = workers /\ resource' = resource /\ blockedActions' = blockedActions
      /\ deps' = deps /\ errors' = errors /\ notified' = notified
  BY DEF ActionCompleted, Freed, ToLaunch
<1>4. \A s \in succs[a] : s \in Actions /\ a \in preds[s] /\ state[s] = "RUNNABLE"
  BY <1>1 DEF GraphTypes, DependenciesOK
<1>5. /\ F \in SUBSET Actions /\ freed \in SUBSET Actions
      /\ \A s \in Actions : s \in freed <=> s \in succs[a] /\ preds[s] \ {a} = {}
      /\ \A s \in freed : s \in F <=> resource[s] # None
  BY <1>4 DEF Freed, ToLaunch
<1> DEFINE st == StateAfter(a, "FINISHED", L)
           wt == WaitingAfter(a, L)
           fr == FreeAfter(a, L)
<1>6. QueuesInv(st, resource, wt, fr) /\ \A x \in L : x \in Actions /\ state[x] = "WAITING"
  <2>1. "FINISHED" \in States \ OnWorker
    BY DEF States, OnWorker
  <2>. QED  BY <1>1, <1>3, <2>1, QueuesAfterResume
<1>7. /\ st[a] = "FINISHED" /\ \A x \in L : st[x] = "RUNNING"
      /\ \A x \in Actions : x # a /\ x \notin L => st[x] = state[x]
  BY <1>3, <1>6 DEF StateAfter
<1>8. Execute(F, resource, st, wt, fr)
  BY <1>2
<1> HIDE DEF st, wt, fr
<1>9. \A x \in F : /\ x \in Actions /\ x # a /\ x \notin L /\ x \in freed /\ state[x] = "RUNNABLE"
                   /\ x \notin blockedActions /\ Suitable(x, resource[x])
  BY <1>1, <1>3, <1>4, <1>5, <1>6 DEF DependenciesOK, Freed, ToLaunch
<1> HIDE DEF F, freed
<1>10. /\ QueuesInv(state', resource, waiting', free')
       /\ \A x \in F : state'[x] \in OnWorker
       /\ \A x \in Actions \ F : state'[x] = st[x] /\ executing'[x] = executing[x]
       /\ executing' \in [Actions -> SUBSET Workers]
  <2>1. \A x \in F : st[x] \notin OnWorker /\ Suitable(x, resource[x])
    BY <1>7, <1>9 DEF OnWorker
  <2>2. executing \in [Actions -> SUBSET Workers]
    BY <1>1 DEF GraphTypes
  <2>. QED  BY <1>5, <1>6, <1>8, <2>1, <2>2, QueuesAfterExecute
<1>11. /\ state'[a] = "FINISHED" /\ \A x \in L : state'[x] = "RUNNING" /\ state[x] = "WAITING"
       /\ \A x \in Actions : x # a /\ x \notin L /\ x \notin F => state'[x] = state[x]
  <2>1. a \notin F /\ a \notin L
    BY <1>3, <1>6, <1>9
  <2>2. state'[a] = "FINISHED" /\ \A x \in L : state'[x] = "RUNNING" /\ state[x] = "WAITING"
    BY <1>6, <1>7, <1>9, <1>10, <2>1
  <2>. QED  BY <1>7, <1>10, <2>2
<1>12. L \in SUBSET Actions
  BY <1>6
<1>. QED  BY <1>4, <1>5, <1>9, <1>10, <1>11, <1>12 DEF F, freed

\* actionCompleted preserves the invariant.
LEMMA CompletedInv ==
    ASSUME SchedulerInv, NEW a \in Actions, ActionCompleted(a)
    PROVE  SchedulerInv'
<1> DEFINE freed == Freed(a)
           F == ToLaunch(a)
<1>1. /\ QueuesInv(state, resource, waiting, free) /\ GraphTypes /\ SubmittedInOrder
      /\ \A x \in Actions : DependenciesOK(x) /\ FailureOK(x)
  BY DEF SchedulerInv
<1>3. /\ state[a] = "RUNNING"
      /\ preds' = [s \in Actions |-> IF s \in succs[a] THEN preds[s] \ {a} ELSE preds[s]]
      /\ succs' = [succs EXCEPT ![a] = {}]
      /\ readyCount' = readyCount - 1 + Cardinality(freed)
      /\ workers' = workers /\ resource' = resource /\ blockedActions' = blockedActions
      /\ deps' = deps /\ errors' = errors /\ notified' = notified
  BY DEF ActionCompleted, Freed
<1> HIDE DEF F, freed
<1>4. \A s \in succs[a] : s \in Actions /\ a \in preds[s] /\ state[s] = "RUNNABLE"
  BY CompletedStep
<1>5. /\ freed \in SUBSET Actions
      /\ \A s \in Actions : s \in freed <=> s \in succs[a] /\ preds[s] \ {a} = {}
      /\ \A s \in freed : s \in F <=> resource[s] # None
  BY CompletedStep DEF F, freed
<1>9. \A x \in F : /\ x \in Actions /\ x \in freed /\ x \notin blockedActions
                   /\ state[x] = "RUNNABLE" /\ state'[x] \in OnWorker
  BY CompletedStep DEF F, freed
<1>10. /\ QueuesInv(state', resource, waiting', free')
       /\ \A x \in Actions \ F : executing'[x] = executing[x]
       /\ executing' \in [Actions -> SUBSET Workers]
  BY CompletedStep DEF F
<1>2. PICK L \in SUBSET Actions :
          /\ state'[a] = "FINISHED"
          /\ \A x \in L : state'[x] = "RUNNING" /\ state[x] = "WAITING"
          /\ \A x \in Actions : x # a /\ x \notin L /\ x \notin F => state'[x] = state[x]
  BY CompletedStep DEF F
<1>11. /\ \A x \in F : state'[x] \in OnWorker /\ state[x] = "RUNNABLE"
       /\ \A x \in Actions : x # a /\ x \notin L /\ x \notin F => state'[x] = state[x]
       /\ \A x \in L : state'[x] = "RUNNING" /\ state[x] = "WAITING"
       /\ state'[a] = "FINISHED"
       /\ \A x \in Actions : state[x] = "FINISHED" => state'[x] = "FINISHED"
       /\ \A x \in Actions : state[x] = "FAILED" <=> state'[x] = "FAILED"
       /\ \A x \in Actions : state[x] = "NEW" <=> state'[x] = "NEW"
       /\ \A x \in Actions : state'[x] = "RUNNABLE" <=> state[x] = "RUNNABLE" /\ x \notin F
  BY <1>2, <1>3, <1>9 DEF OnWorker
<1>12. GraphTypes'
  <2>1. Cardinality(freed) \in Nat
    BY <1>5, ActionsFinite, FS_Subset, FS_CardinalityType
  <2>2. readyCount' \in Int
    BY <1>1, <1>3, <2>1 DEF GraphTypes
  <2>3. preds' \in [Actions -> SUBSET Actions] /\ succs' \in [Actions -> SUBSET Actions]
    BY <1>1, <1>3 DEF GraphTypes
  <2>. QED  BY <1>1, <1>3, <1>10, <2>2, <2>3 DEF GraphTypes
<1>13. SubmittedInOrder'
  BY <1>1, <1>11 DEF SubmittedInOrder
<1>14. ASSUME NEW x \in Actions PROVE DependenciesOK(x)'
  <2>0. DependenciesOK(x) /\ deps[x] \in SUBSET Actions
    BY <1>1 DEF GraphTypes
  <2>1. /\ preds'[x] \subseteq preds[x] /\ preds[x] \ {a} \subseteq preds'[x]
        /\ x \in succs[a] => preds'[x] = preds[x] \ {a}
        /\ x \notin succs[a] => preds'[x] = preds[x]
    BY <1>3
  <2>2. preds'[x] \subseteq deps'[x] /\ \A p \in deps'[x] : p < x /\ state'[p] # "NEW"
    BY <1>3, <1>11, <2>0, <2>1 DEF DependenciesOK
  <2>3. state'[x] \notin {"NEW", "FAILED"} =>
            \A p \in deps'[x] \ preds'[x] : state'[p] = "FINISHED"
    BY <1>3, <1>11, <2>0, <2>1 DEF DependenciesOK
  <2>4. state'[x] \in OnWorker \cup {"FINISHED"} => preds'[x] = {} /\ x \notin blockedActions'
    <3>1. CASE x \in F
      BY <1>3, <1>5, <1>9, <2>1, <3>1
    <3>2. CASE x \notin F
      <4>1. ASSUME state'[x] \in OnWorker \cup {"FINISHED"}
            PROVE  state[x] \in OnWorker \cup {"FINISHED"}
        BY <1>3, <1>11, <3>2, <4>1 DEF OnWorker
      <4>. QED  BY <1>3, <2>0, <2>1, <4>1 DEF DependenciesOK
    <3>. QED  BY <3>1, <3>2
  <2>5. state'[x] = "NEW" => /\ deps'[x] = {} /\ x \notin blockedActions'
                             /\ executing'[x] = {} /\ resource'[x] = None
    BY <1>3, <1>9, <1>10, <1>11, <2>0 DEF DependenciesOK
  <2>6. state'[x] = "RUNNABLE" => preds'[x] # {} \/ x \in blockedActions'
    <3>1. ASSUME state[x] = "RUNNABLE", x \notin F, preds'[x] = {} PROVE x \in blockedActions
      <4>1. CASE x \notin succs[a]
        BY <2>0, <2>1, <3>1, <4>1 DEF DependenciesOK
      <4>2. CASE x \in succs[a]
        <5>1. resource[x] = None
          BY <1>5, <2>1, <3>1, <4>2
        <5>. QED  BY <2>0, <3>1, <5>1, WorkersAssumption DEF DependenciesOK, Suitable
      <4>. QED  BY <4>1, <4>2
    <3>. QED  BY <1>3, <1>11, <3>1
  <2>7. state'[x] = "RUNNABLE" => x \in blockedActions' \/ Suitable(x, resource'[x])
    BY <1>3, <1>11, <2>0 DEF DependenciesOK
  <2>8. x \in blockedActions' /\ preds'[x] # {} => resource'[x] = None
    BY <1>3, <2>0, <2>1 DEF DependenciesOK
  <2>9. \A s \in succs'[x] : x \in preds'[s] /\ state'[s] = "RUNNABLE"
    <3>1. ASSUME NEW s \in succs'[x] PROVE x \in preds'[s] /\ state'[s] = "RUNNABLE"
      <4>1. x # a /\ s \in succs[x] /\ s \in Actions
        BY <1>1, <1>3, <3>1 DEF GraphTypes
      <4>2. x \in preds[s] /\ state[s] = "RUNNABLE"
        BY <2>0, <4>1 DEF DependenciesOK
      <4>3. x \in preds'[s]
        BY <1>3, <4>1, <4>2
      <4>4. s \notin F
        BY <1>5, <1>9, <4>1, <4>2
      <4>. QED  BY <1>11, <4>1, <4>2, <4>3, <4>4
    <3>. QED  BY <3>1
  <2>. QED  BY <2>2, <2>3, <2>4, <2>5, <2>6, <2>7, <2>8, <2>9 DEF DependenciesOK
<1>15. ASSUME NEW x \in Actions PROVE FailureOK(x)'
  BY <1>1, <1>3, <1>11 DEF FailureOK
<1>16. QueuesInv(state', resource', waiting', free')
  BY <1>3, <1>10
<1>. QED  BY <1>12, <1>13, <1>14, <1>15, <1>16 DEF SchedulerInv

\* What errorOnAction does to an action that tries again: it is blocked or launched on
\* another worker, and waiting actions run.
LEMMA RetryStep ==
    ASSUME SchedulerInv, NEW a \in Actions, RetryAction(a)
    PROVE  /\ QueuesInv(state', resource', waiting', free')
           /\ executing' \in [Actions -> SUBSET Workers] /\ readyCount' \in Int
           /\ \/ /\ blockedActions' = blockedActions \cup {a} /\ state'[a] = "RUNNABLE"
                 /\ readyCount' = readyCount - 1
              \/ /\ blockedActions' = blockedActions /\ state'[a] \in OnWorker
                 /\ Suitable(a, resource'[a]) /\ readyCount' = readyCount
           /\ \E L \in SUBSET Actions : \A x \in Actions \ {a} :
                 /\ state'[x] = IF x \in L THEN "RUNNING" ELSE state[x]
                 /\ x \in L => state[x] = "WAITING"
                 /\ resource'[x] = resource[x] /\ executing'[x] = executing[x]
                 /\ x \in blockedActions' <=> x \in blockedActions
<1>1. /\ QueuesInv(state, resource, waiting, free) /\ GraphTypes /\ SubmittedInOrder
      /\ \A x \in Actions : DependenciesOK(x) /\ FailureOK(x)
      /\ state \in [Actions -> States] /\ resource \in [Actions -> Workers \cup {None}]
  BY DEF SchedulerInv, QueuesInv, QueueTypes
<1>2. PICK L \in Resumed(a) :
          ScheduleAndLaunch(a, resource, StateAfter(a, "RUNNABLE", L), WaitingAfter(a, L),
                            FreeAfter(a, L), readyCount, TRUE)
  BY DEF RetryAction
<1>3. /\ state[a] = "RUNNING" /\ errors < MaxErrors /\ errors' = errors + 1
      /\ workers' = workers /\ preds' = preds /\ succs' = succs /\ deps' = deps
      /\ notified' = notified
  BY DEF RetryAction, Erred
<1> DEFINE st == StateAfter(a, "RUNNABLE", L)
           wt == WaitingAfter(a, L)
           fr == FreeAfter(a, L)
<1>4. QueuesInv(st, resource, wt, fr) /\ \A x \in L : x \in Actions /\ state[x] = "WAITING"
  <2>1. "RUNNABLE" \in States \ OnWorker
    BY DEF States, OnWorker
  <2>. QED  BY <1>1, <1>3, <2>1, QueuesAfterResume
<1>5. /\ st[a] = "RUNNABLE" /\ \A x \in L : st[x] = "RUNNING"
      /\ \A x \in Actions : x # a /\ x \notin L => st[x] = state[x]
  BY <1>3, <1>4 DEF StateAfter
<1>6. ScheduleAndLaunch(a, resource, st, wt, fr, readyCount, TRUE)
  BY <1>2
<1> HIDE DEF st, wt, fr
<1>7. PICK yes \in BOOLEAN : yes = TRUE
  BY Zenon
<1>8. ScheduleAndLaunch(a, resource, st, wt, fr, readyCount, yes) /\ readyCount \in Int
  BY <1>1, <1>6, <1>7, Zenon DEF GraphTypes
<1>9. /\ QueuesInv(state', resource', waiting', free')
      /\ executing' \in [Actions -> SUBSET Workers] /\ readyCount' \in Int
      /\ \A x \in Actions \ {a} : /\ state'[x] = st[x] /\ resource'[x] = resource[x]
                                  /\ executing'[x] = executing[x]
      /\ \/ /\ Candidates(a, workers) = {} /\ readyCount' = readyCount - 1
            /\ blockedActions' = blockedActions \cup {a}
            /\ state'[a] = "RUNNABLE" /\ resource'[a] = resource[a]
         \/ /\ Suitable(a, resource'[a]) /\ readyCount' = readyCount
            /\ blockedActions' = blockedActions
            /\ IF yes THEN state'[a] \in OnWorker ELSE state'[a] = "RUNNABLE"
  BY <1>1, <1>4, <1>5, <1>8, Scheduled, Zenon
<1>10. \/ /\ blockedActions' = blockedActions \cup {a} /\ state'[a] = "RUNNABLE"
          /\ readyCount' = readyCount - 1
       \/ /\ blockedActions' = blockedActions /\ state'[a] \in OnWorker
          /\ Suitable(a, resource'[a]) /\ readyCount' = readyCount
  BY <1>7, <1>9
<1>11. \A x \in Actions \ {a} : /\ state'[x] = IF x \in L THEN "RUNNING" ELSE state[x]
                                /\ x \in L => state[x] = "WAITING"
                                /\ resource'[x] = resource[x] /\ executing'[x] = executing[x]
                                /\ x \in blockedActions' <=> x \in blockedActions
  BY <1>4, <1>5, <1>9, <1>10
<1>12. L \in SUBSET Actions
  BY <1>4
<1>. QED  BY <1>9, <1>10, <1>11, <1>12

\* errorOnAction of an action that tries again preserves the invariant.
LEMMA RetryInv ==
    ASSUME SchedulerInv, NEW a \in Actions, RetryAction(a)
    PROVE  SchedulerInv'
<1>1. /\ QueuesInv(state, resource, waiting, free) /\ GraphTypes /\ SubmittedInOrder
      /\ \A x \in Actions : DependenciesOK(x) /\ FailureOK(x)
  BY DEF SchedulerInv
<1>3. /\ state[a] = "RUNNING" /\ errors < MaxErrors /\ errors' = errors + 1
      /\ workers' = workers /\ preds' = preds /\ succs' = succs /\ deps' = deps
      /\ notified' = notified
  BY DEF RetryAction, Erred
<1>9. /\ QueuesInv(state', resource', waiting', free')
      /\ executing' \in [Actions -> SUBSET Workers] /\ readyCount' \in Int
  BY RetryStep
<1>10. \/ blockedActions' = blockedActions \cup {a} /\ state'[a] = "RUNNABLE"
       \/ /\ blockedActions' = blockedActions /\ state'[a] \in OnWorker
          /\ Suitable(a, resource'[a])
  BY RetryStep
<1>11. PICK L \in SUBSET Actions : \A x \in Actions \ {a} :
          /\ state'[x] = IF x \in L THEN "RUNNING" ELSE state[x]
          /\ x \in L => state[x] = "WAITING"
          /\ resource'[x] = resource[x] /\ executing'[x] = executing[x]
          /\ x \in blockedActions' <=> x \in blockedActions
  BY RetryStep
<1>12. GraphTypes'
  BY <1>1, <1>3, <1>9, <1>10, ChancesAssumption DEF GraphTypes
<1>13. SubmittedInOrder'
  BY <1>1, <1>3, <1>10, <1>11 DEF SubmittedInOrder, OnWorker
<1>14. ASSUME NEW x \in Actions PROVE DependenciesOK(x)'
  <2>0. DependenciesOK(x) /\ deps[x] \in SUBSET Actions /\ succs[x] \in SUBSET Actions
    BY <1>1 DEF GraphTypes
  <2>1. \A p \in deps[x] : /\ state[p] # "NEW" => state'[p] # "NEW"
                           /\ state[p] = "FINISHED" => state'[p] = "FINISHED"
    BY <1>3, <1>10, <1>11, <2>0 DEF OnWorker
  <2>2. \A s \in succs[x] : x \in preds[s] /\ state'[s] = "RUNNABLE"
    BY <1>3, <1>11, <2>0 DEF DependenciesOK
  <2>3. CASE x = a
    BY <1>3, <1>10, <2>0, <2>1, <2>2, <2>3 DEF DependenciesOK, OnWorker
  <2>4. CASE x # a
    BY <1>3, <1>11, <2>0, <2>1, <2>2, <2>4 DEF DependenciesOK, OnWorker
  <2>. QED  BY <2>3, <2>4
<1>15. ASSUME NEW x \in Actions PROVE FailureOK(x)'
  <2>1. \A y \in Actions : state'[y] = "FAILED" <=> state[y] = "FAILED"
    BY <1>3, <1>10, <1>11 DEF OnWorker
  <2>. QED  BY <1>1, <1>3, <2>1 DEF FailureOK
<1>. QED  BY <1>9, <1>12, <1>13, <1>14, <1>15 DEF SchedulerInv

\* The local definitions of FailAction.
Failing(a)  == {ChainOf(a)[i] : i \in 1 .. NumActions} \ {0}
Left(a)     == [p \in Actions |-> succs[p] \ Failing(a)]
Throwing(a) == {i \in 1 .. NumActions :
                   ChainOf(a)[i] # 0 /\ Cardinality(Left(a)[ChainOf(a)[i]]) > 1}
Complete(a) ==
    {ChainOf(a)[i] : i \in {j \in 1 .. NumActions : \A k \in Throwing(a) : k < j}} \ {0}

\* What FailAction makes of the chain of a failure: the actions that fail are the first
\* one and successors of failing ones; one whose failure is not notified has a successor
\* that fails too.
LEMMA FailingActions ==
    ASSUME SchedulerInv, NEW a \in Actions
    PROVE  /\ Failing(a) \in SUBSET Actions /\ a \in Failing(a) /\ Complete(a) \subseteq Failing(a)
           /\ \A x \in Failing(a) \ {a} : \E p \in Failing(a) : x \in succs[p]
           /\ \A x \in Failing(a) \ Complete(a) : \E s \in Failing(a) : s \in succs[x]
<1> DEFINE c == ChainOf(a)
<1>0. NumActions \in Nat /\ Actions = 1 .. NumActions /\ SuccessorsLater
  BY NumActionsAssumption, SuccessorsAreLater DEF Actions
<1>1. /\ c \in [1 .. NumActions -> Actions \cup {0}] /\ 0 \notin Actions
      /\ 1 \in 1 .. NumActions /\ c[1] = a
      /\ \A i \in 1 .. NumActions : i # 1 => c[i] = Follow(c[i - 1])
      /\ \A i \in 1 .. NumActions : c[i] # 0 => i <= c[i]
      /\ \A i, j \in 1 .. NumActions : i <= j /\ c[j] # 0 => c[i] # 0
  BY <1>0, ChainFacts
<1> DEFINE failing  == Failing(a)
           complete == Complete(a)
           throwing == Throwing(a)
<1>2. failing = {c[i] : i \in 1 .. NumActions} \ {0}
  BY DEF Failing
<1>3. complete = {c[i] : i \in {j \in 1 .. NumActions : \A k \in throwing : k < j}} \ {0}
  BY DEF Complete
<1>4. \A k \in throwing : /\ k \in 1 .. NumActions /\ c[k] \in Actions
                          /\ Cardinality(succs[c[k]] \ failing) > 1
  BY <1>1 DEF Throwing, Left
<1> HIDE DEF c, throwing, failing, complete
<1>5. failing \in SUBSET Actions /\ a \in failing /\ complete \subseteq failing
  <2>1. complete \subseteq failing
    BY <1>2, <1>3
  <2>2. failing \in SUBSET Actions
    BY <1>1, <1>2
  <2>3. a \in failing
    BY <1>1, <1>2
  <2>. QED  BY <2>1, <2>2, <2>3
<1>6. ASSUME NEW x \in failing \ {a} PROVE \E p \in failing : x \in succs[p]
  <2>1. PICK i \in 1 .. NumActions : x = c[i] /\ i # 1 /\ x # 0
    BY <1>1, <1>2, <1>6
  <2>2. i - 1 \in 1 .. NumActions
    BY <1>0, <2>1
  <2>3. c[i - 1] \in Actions \cup {0} /\ x = Follow(c[i - 1])
    BY <1>1, <2>1, <2>2
  <2>4. c[i - 1] # 0 /\ x \in succs[c[i - 1]]
    BY <1>0, <2>1, <2>3, FollowIsSuccessor
  <2>. QED  BY <1>2, <2>2, <2>4
<1>7. ASSUME NEW x \in failing \ complete PROVE \E s \in failing : s \in succs[x]
  <2>1. PICK i \in 1 .. NumActions : x = c[i] /\ x # 0 /\ x \in Actions
    BY <1>2, <1>5, <1>7
  <2>2. PICK k \in throwing : ~ (k < i)
    BY <1>3, <1>7, <2>1
  <2>3. k \in 1 .. NumActions /\ c[k] \in Actions /\ i <= k
    <3>1. k \in 1 .. NumActions /\ c[k] \in Actions
      BY <1>4, <2>2
    <3>. QED  BY <1>0, <2>1, <2>2, <3>1
  <2>4. succs[x] # {}
    <3>1. CASE k = i
      <4>1. ASSUME succs[x] = {} PROVE FALSE
        <5>1. succs[c[k]] \ failing = {}
          BY <2>1, <3>1, <4>1
        <5>2. Cardinality(succs[c[k]] \ failing) = 0
          BY <5>1, FS_EmptySet
        <5>. QED  BY <1>4, <5>2
      <4>. QED  BY <4>1
    <3>2. CASE k # i
      <4>1. i + 1 \in 1 .. NumActions /\ i + 1 <= k /\ i + 1 # 1 /\ (i + 1) - 1 = i
        BY <1>0, <2>1, <2>3, <3>2
      <4>2. c[i + 1] # 0 /\ c[i + 1] = Follow(c[i])
        <5>1. c[i + 1] # 0
          BY <1>1, <2>3, <4>1
        <5>2. c[i + 1] = Follow(c[(i + 1) - 1])
          BY <1>1, <4>1
        <5>. QED  BY <4>1, <5>1, <5>2
      <4>. QED  BY <1>0, <2>1, <4>2, FollowIsSuccessor
    <3>. QED  BY <3>1, <3>2
  <2>5. i + 1 \in 1 .. NumActions
    <3>1. PICK s \in succs[x] : x < s /\ s \in Actions
      BY <1>0, <2>1, <2>4 DEF SuccessorsLater
    <3>2. i <= x
      BY <1>1, <2>1
    <3>. QED  BY <1>0, <2>1, <3>1, <3>2
  <2>6. c[i + 1] = Follow(x)
    <3>1. i + 1 # 1 /\ (i + 1) - 1 = i
      BY <1>0, <2>1
    <3>2. c[i + 1] = Follow(c[(i + 1) - 1])
      BY <1>1, <2>5, <3>1
    <3>. QED  BY <2>1, <3>1, <3>2
  <2>7. Follow(x) # 0 /\ Follow(x) \in succs[x]
    BY <1>0, <2>1, <2>4, FollowIsSuccessor
  <2>. QED  BY <1>2, <2>5, <2>6, <2>7
<1>. QED  BY <1>5, <1>6, <1>7 DEF failing, complete

\* What errorOnAction does to an action that has had its chances: it fails with the rest
\* of the chain, and waiting actions run.
LEMMA FailStep ==
    ASSUME SchedulerInv, NEW a \in Actions, FailAction(a)
    PROVE  /\ QueuesInv(state', resource', waiting', free')
           /\ \E L \in SUBSET Actions : \A x \in Actions :
                 /\ x \in Failing(a) => state'[x] = "FAILED" /\ state[x] \in {"RUNNING", "RUNNABLE"}
                 /\ x \notin Failing(a) => state'[x] = IF x \in L THEN "RUNNING" ELSE state[x]
                 /\ x \in L => state[x] = "WAITING"
<1>1. /\ QueuesInv(state, resource, waiting, free) /\ GraphTypes /\ SubmittedInOrder
      /\ \A x \in Actions : DependenciesOK(x) /\ FailureOK(x)
      /\ state \in [Actions -> States] /\ resource \in [Actions -> Workers \cup {None}]
  BY DEF SchedulerInv, QueuesInv, QueueTypes
<1> DEFINE failing  == Failing(a)
           complete == Complete(a)
<1>4. /\ state[a] = "RUNNING" /\ errors < MaxErrors /\ errors' = errors + 1
      /\ \E L \in Resumed(a) :
            /\ state' = [x \in Actions |-> IF x \in failing THEN "FAILED"
                                           ELSE StateAfter(a, "FAILED", L)[x]]
            /\ waiting' = WaitingAfter(a, L)
            /\ free' = FreeAfter(a, L)
      /\ preds' = [x \in Actions |-> IF x \in complete THEN {} ELSE preds[x]]
      /\ succs' = [x \in Actions |-> IF x \in complete THEN {}
                                     ELSE Left(a)[x]]
      /\ notified' = notified \cup complete
      /\ readyCount' = readyCount - 1
      /\ workers' = workers /\ resource' = resource /\ executing' = executing
      /\ blockedActions' = blockedActions /\ deps' = deps
  BY DEF FailAction, Erred, Failing, Left, Throwing, Complete
<1>3. \A x \in Actions : Left(a)[x] = succs[x] \ failing
  BY DEF Left
<1>5. /\ failing \in SUBSET Actions /\ a \in failing /\ complete \subseteq failing
      /\ \A x \in failing \ {a} : \E p \in failing : x \in succs[p]
      /\ \A x \in failing \ complete : \E s \in failing : s \in succs[x]
  BY FailingActions
<1> HIDE DEF failing, complete
<1>6. PICK L \in Resumed(a) :
          /\ state' = [x \in Actions |-> IF x \in failing THEN "FAILED"
                                         ELSE StateAfter(a, "FAILED", L)[x]]
          /\ waiting' = WaitingAfter(a, L) /\ free' = FreeAfter(a, L)
  BY <1>4
<1>7. \A x \in failing \ {a} : state[x] = "RUNNABLE"
  BY <1>1, <1>5 DEF DependenciesOK
<1> DEFINE st == StateAfter(a, "FAILED", L)
<1>8. QueuesInv(st, resource, waiting', free') /\ \A x \in L : x \in Actions /\ state[x] = "WAITING"
  <2>1. "FAILED" \in States \ OnWorker
    BY DEF States, OnWorker
  <2>2. /\ QueuesInv(st, resource, WaitingAfter(a, L), FreeAfter(a, L))
        /\ \A x \in L : x \in Actions /\ state[x] = "WAITING"
    BY <1>1, <1>4, <2>1, QueuesAfterResume
  <2>. QED  BY <1>6, <2>2
<1>9. /\ st \in [Actions -> States]
      /\ st[a] = "FAILED" /\ \A x \in L : st[x] = "RUNNING"
      /\ \A x \in Actions : x # a /\ x \notin L => st[x] = state[x]
  <2>1. st \in [Actions -> States]
    BY <1>8 DEF QueuesInv, QueueTypes
  <2>. QED  BY <1>4, <1>8, <2>1 DEF StateAfter
<1>10. \A x \in Actions : state'[x] = IF x \in failing THEN "FAILED" ELSE st[x]
  BY <1>6
<1> HIDE DEF st
<1>11. QueuesInv(state', resource', waiting', free')
  <2>1. state' \in [Actions -> States]
    <3>1. state' = [x \in Actions |-> IF x \in failing THEN "FAILED" ELSE st[x]]
      BY <1>6 DEF st
    <3>. QED  BY <1>9, <3>1 DEF States
  <2>2. \A x \in Actions : st[x] \in OnWorker \/ state'[x] \in OnWorker =>
                               state'[x] = st[x] /\ resource'[x] = resource[x]
    BY <1>4, <1>5, <1>7, <1>8, <1>9, <1>10 DEF OnWorker
  <2>3. resource' \in [Actions -> Workers \cup {None}]
    BY <1>1, <1>4
  <2>. QED  BY <1>8, <2>1, <2>2, <2>3, QueuesFrame
<1>12. \A x \in Actions :
          /\ x \in failing => state'[x] = "FAILED" /\ state[x] \in {"RUNNING", "RUNNABLE"}
          /\ x \notin failing => state'[x] = IF x \in L THEN "RUNNING" ELSE state[x]
          /\ x \in L => state[x] = "WAITING"
  BY <1>4, <1>5, <1>7, <1>8, <1>9, <1>10
<1>13. L \in SUBSET Actions
  BY <1>8
<1>. QED  BY <1>11, <1>12, <1>13 DEF failing

\* errorOnAction of an action that has had its chances preserves the invariant.
LEMMA FailInv ==
    ASSUME SchedulerInv, NEW a \in Actions, FailAction(a)
    PROVE  SchedulerInv'
<1> DEFINE failing  == Failing(a)
           complete == Complete(a)
<1>1. /\ QueuesInv(state, resource, waiting, free) /\ GraphTypes /\ SubmittedInOrder
      /\ \A x \in Actions : DependenciesOK(x) /\ FailureOK(x)
  BY DEF SchedulerInv
<1>4. /\ state[a] = "RUNNING" /\ errors < MaxErrors /\ errors' = errors + 1
      /\ preds' = [x \in Actions |-> IF x \in complete THEN {} ELSE preds[x]]
      /\ succs' = [x \in Actions |-> IF x \in complete THEN {} ELSE Left(a)[x]]
      /\ notified' = notified \cup complete
      /\ readyCount' = readyCount - 1
      /\ workers' = workers /\ resource' = resource /\ executing' = executing
      /\ blockedActions' = blockedActions /\ deps' = deps
  BY DEF FailAction, Erred, Failing, Left, Throwing, Complete
<1>3. \A x \in Actions : Left(a)[x] = succs[x] \ failing
  BY DEF Left
<1>5. /\ failing \in SUBSET Actions /\ a \in failing /\ complete \subseteq failing
      /\ \A x \in failing \ {a} : \E p \in failing : x \in succs[p]
      /\ \A x \in failing \ complete : \E s \in failing : s \in succs[x]
  BY FailingActions
<1>11. QueuesInv(state', resource', waiting', free')
  BY FailStep
<1>12. PICK L \in SUBSET Actions : \A x \in Actions :
          /\ x \in failing => state'[x] = "FAILED" /\ state[x] \in {"RUNNING", "RUNNABLE"}
          /\ x \notin failing => state'[x] = IF x \in L THEN "RUNNING" ELSE state[x]
          /\ x \in L => state[x] = "WAITING"
  BY FailStep
<1> HIDE DEF failing, complete
<1>13. GraphTypes'
  <2>1. preds' \in [Actions -> SUBSET Actions] /\ succs' \in [Actions -> SUBSET Actions]
    BY <1>1, <1>3, <1>4 DEF GraphTypes
  <2>2. errors' \in 0 .. MaxErrors
    BY <1>1, <1>4, ChancesAssumption DEF GraphTypes
  <2>3. notified' \in SUBSET Actions
    BY <1>1, <1>4, <1>5 DEF GraphTypes
  <2>. QED  BY <1>1, <1>4, <2>1, <2>2, <2>3 DEF GraphTypes
<1>14. SubmittedInOrder'
  BY <1>1, <1>12 DEF SubmittedInOrder
<1>15. ASSUME NEW x \in Actions PROVE DependenciesOK(x)'
  <2>0. DependenciesOK(x) /\ deps[x] \in SUBSET Actions
    BY <1>1 DEF GraphTypes
  <2>1. \A p \in deps[x] : /\ state[p] # "NEW" => state'[p] # "NEW"
                           /\ state[p] = "FINISHED" => state'[p] = "FINISHED"
    BY <1>12, <2>0
  <2>2. \A s \in succs'[x] : x \in preds'[s] /\ state'[s] = "RUNNABLE"
    <3>1. ASSUME NEW s \in succs'[x] PROVE x \in preds'[s] /\ state'[s] = "RUNNABLE"
      <4>1. s \in succs[x] /\ s \notin failing /\ s \in Actions
        BY <1>1, <1>3, <1>4, <3>1 DEF GraphTypes
      <4>2. x \in preds[s] /\ state[s] = "RUNNABLE"
        BY <2>0, <4>1 DEF DependenciesOK
      <4>. QED  BY <1>4, <1>5, <1>12, <4>1, <4>2
    <3>. QED  BY <3>1
  <2>3. /\ x \notin failing => preds'[x] = preds[x]
        /\ preds'[x] = preds[x] \/ preds'[x] = {}
    BY <1>4, <1>5
  <2>4. CASE x \in failing
    BY <1>4, <1>12, <2>0, <2>1, <2>2, <2>3, <2>4 DEF DependenciesOK, OnWorker
  <2>5. CASE x \notin failing
    BY <1>4, <1>12, <2>0, <2>1, <2>2, <2>3, <2>5 DEF DependenciesOK, OnWorker
  <2>. QED  BY <2>4, <2>5
<1>16. ASSUME NEW x \in Actions PROVE FailureOK(x)'
  <2>1. ASSUME x \in failing, x \notin complete
        PROVE  \E b \in Actions : x \in deps'[b] /\ state'[b] = "FAILED"
    <3>1. PICK s \in failing : s \in succs[x]
      BY <1>5, <2>1
    <3>2. s \in Actions /\ x \in deps[s]
      BY <1>1, <1>5, <3>1 DEF DependenciesOK
    <3>. QED  BY <1>4, <1>12, <3>1, <3>2
  <2>2. ASSUME x \notin failing, state'[x] = "FAILED"
        PROVE  x \in notified \/ \E b \in Actions : x \in deps'[b] /\ state'[b] = "FAILED"
    BY <1>1, <1>4, <1>12, <2>2 DEF FailureOK
  <2>. QED  BY <1>4, <2>1, <2>2 DEF FailureOK
<1>. QED  BY <1>11, <1>13, <1>14, <1>15, <1>16 DEF SchedulerInv

\* The blocked actions that a new worker can run, and those of them that are retried.
Unblocked(w) == {a \in blockedActions : Requirement[a] <= Capacity[w]}
Retried(w)   == {a \in Unblocked(w) : state[a] = "RUNNABLE"}

\* What updateWorker of a new worker does: the retried actions are assigned to workers,
\* and launched there if they have no data dependencies.
LEMMA AddWorkerStep ==
    ASSUME SchedulerInv, NEW w \in Workers, AddWorker(w)
    PROVE  /\ QueuesInv(state', resource', waiting', free')
           /\ executing' \in [Actions -> SUBSET Workers]
           /\ Unblocked(w) \in SUBSET blockedActions /\ Retried(w) \in SUBSET Unblocked(w)
           /\ blockedActions \in SUBSET Actions
           /\ \A x \in Unblocked(w) : state[x] = "RUNNABLE" <=> x \in Retried(w)
           /\ \A x \in Actions : IF x \in Retried(w) THEN Suitable(x, resource'[x])
                                                    ELSE resource'[x] = resource[x]
           /\ \A x \in Actions : IF x \in Retried(w) /\ preds[x] = {}
                                 THEN state'[x] \in OnWorker
                                 ELSE state'[x] = state[x] /\ executing'[x] = executing[x]
<1> DEFINE unblocked == Unblocked(w)
           retried   == Retried(w)
           F         == {a \in retried : preds[a] = {}}
<1>1. /\ QueuesInv(state, resource, waiting, free) /\ GraphTypes /\ SubmittedInOrder
      /\ \A x \in Actions : DependenciesOK(x) /\ FailureOK(x)
      /\ state \in [Actions -> States] /\ resource \in [Actions -> Workers \cup {None}]
  BY DEF SchedulerInv, QueuesInv, QueueTypes
<1>2. /\ workers' = workers \cup {w} /\ blockedActions' = blockedActions \ unblocked
      /\ readyCount' = readyCount + Cardinality({a \in unblocked : preds[a] = {}})
      /\ preds' = preds /\ succs' = succs /\ deps' = deps /\ errors' = errors
      /\ notified' = notified
  BY DEF AddWorker, Unblocked, Retried
<1>3. PICK choice \in [retried -> workers'] :
          LET res == [a \in Actions |-> IF a \in retried THEN choice[a] ELSE resource[a]]
          IN  /\ \A a \in retried : choice[a] \in Candidates(a, workers')
              /\ resource' = res
              /\ Execute(F, res, state, waiting, free)
  BY DEF AddWorker, Unblocked, Retried
<1> DEFINE res == [a \in Actions |-> IF a \in retried THEN choice[a] ELSE resource[a]]
<1>4. /\ \A a \in retried : choice[a] \in Candidates(a, workers')
      /\ resource' = res /\ Execute(F, res, state, waiting, free)
  BY <1>3
<1>5. /\ unblocked \in SUBSET Actions /\ retried \in SUBSET Actions /\ F \in SUBSET Actions
      /\ \A x \in retried : x \in unblocked /\ state[x] = "RUNNABLE"
      /\ \A x \in unblocked : x \in blockedActions /\ (state[x] = "RUNNABLE" => x \in retried)
      /\ \A x \in Actions : x \in F <=> x \in retried /\ preds[x] = {}
  BY <1>1 DEF GraphTypes, Unblocked, Retried
<1>6. \A x \in retried : choice[x] \in Workers /\ Suitable(x, choice[x])
  BY <1>1, <1>2, <1>4 DEF Candidates, GraphTypes, Suitable
<1>7. /\ res \in [Actions -> Workers \cup {None}]
      /\ \A x \in Actions : IF x \in retried THEN Suitable(x, res[x]) ELSE res[x] = resource[x]
  BY <1>1, <1>5, <1>6
<1> HIDE DEF res, F, retried, unblocked
<1>9. QueuesInv(state, res, waiting, free)
  <2>1. \A x \in Actions : state[x] \in OnWorker \/ state[x] \in OnWorker =>
                               state[x] = state[x] /\ res[x] = resource[x]
    BY <1>5, <1>7 DEF OnWorker
  <2>. QED  BY <1>1, <1>7, <2>1, QueuesFrame
<1>10. /\ QueuesInv(state', resource', waiting', free')
       /\ \A x \in F : state'[x] \in OnWorker
       /\ \A x \in Actions \ F : state'[x] = state[x] /\ executing'[x] = executing[x]
       /\ executing' \in [Actions -> SUBSET Workers]
  <2>1. \A x \in F : state[x] \notin OnWorker /\ Suitable(x, res[x])
    BY <1>5, <1>7 DEF OnWorker
  <2>2. executing \in [Actions -> SUBSET Workers]
    BY <1>1 DEF GraphTypes
  <2>3. /\ QueuesInv(state', res, waiting', free')
        /\ \A x \in F : state'[x] \in OnWorker
        /\ \A x \in Actions \ F : state'[x] = state[x] /\ executing'[x] = executing[x]
        /\ executing' \in [Actions -> SUBSET Workers]
    BY <1>4, <1>5, <1>9, <2>1, <2>2, QueuesAfterExecute
  <2>. QED  BY <1>4, <2>3
<1>11. \A x \in Actions : IF x \in retried /\ preds[x] = {}
                         THEN state'[x] \in OnWorker
                         ELSE state'[x] = state[x] /\ executing'[x] = executing[x]
  BY <1>5, <1>10
<1>12. \A x \in Actions : IF x \in retried THEN Suitable(x, resource'[x])
                                        ELSE resource'[x] = resource[x]
  BY <1>4, <1>7
<1>13. /\ unblocked \in SUBSET blockedActions /\ retried \in SUBSET unblocked
       /\ blockedActions \in SUBSET Actions
       /\ \A x \in unblocked : state[x] = "RUNNABLE" <=> x \in retried
  BY <1>1, <1>5 DEF GraphTypes
<1>. QED  BY <1>10, <1>11, <1>12, <1>13 DEF unblocked, retried

\* updateWorker of a new worker preserves the invariant.
LEMMA AddWorkerInv ==
    ASSUME SchedulerInv, NEW w \in Workers, AddWorker(w)
    PROVE  SchedulerInv'
<1> DEFINE unblocked == Unblocked(w)
           retried   == Retried(w)
           F         == {a \in retried : preds[a] = {}}
<1>1. /\ QueuesInv(state, resource, waiting, free) /\ GraphTypes /\ SubmittedInOrder
      /\ \A x \in Actions : DependenciesOK(x) /\ FailureOK(x)
  BY DEF SchedulerInv
<1>2. /\ workers' = workers \cup {w} /\ blockedActions' = blockedActions \ unblocked
      /\ readyCount' = readyCount + Cardinality({a \in unblocked : preds[a] = {}})
      /\ preds' = preds /\ succs' = succs /\ deps' = deps /\ errors' = errors
      /\ notified' = notified
  BY DEF AddWorker, Unblocked
<1>3. /\ QueuesInv(state', resource', waiting', free')
      /\ executing' \in [Actions -> SUBSET Workers]
      /\ unblocked \in SUBSET blockedActions /\ retried \in SUBSET unblocked
      /\ blockedActions \in SUBSET Actions
      /\ \A x \in unblocked : state[x] = "RUNNABLE" <=> x \in retried
  BY AddWorkerStep
<1>4. \A x \in Actions : IF x \in retried THEN Suitable(x, resource'[x])
                                        ELSE resource'[x] = resource[x]
  BY AddWorkerStep
<1>5. /\ unblocked \in SUBSET Actions
      /\ \A x \in retried : x \in Actions /\ x \in unblocked /\ state[x] = "RUNNABLE"
      /\ \A x \in unblocked : x \in blockedActions /\ (state[x] = "RUNNABLE" => x \in retried)
      /\ \A x \in Actions : x \in F <=> x \in retried /\ preds[x] = {}
  BY <1>3
<1>8. {a \in unblocked : preds[a] = {}} \in SUBSET Actions
  BY <1>5
<1>10. /\ \A x \in F : state'[x] \in OnWorker
       /\ \A x \in Actions \ F : state'[x] = state[x] /\ executing'[x] = executing[x]
  <2>1. \A x \in Actions : IF x \in retried /\ preds[x] = {}
                           THEN state'[x] \in OnWorker
                           ELSE state'[x] = state[x] /\ executing'[x] = executing[x]
    BY AddWorkerStep
  <2>. QED  BY <1>5, <2>1
<1> HIDE DEF F, retried, unblocked
<1>11. GraphTypes'
  <2>1. Cardinality({a \in unblocked : preds[a] = {}}) \in Nat
    BY <1>8, ActionsFinite, FS_Subset, FS_CardinalityType
  <2>2. readyCount' \in Int
    BY <1>1, <1>2, <2>1 DEF GraphTypes
  <2>. QED  BY <1>1, <1>2, <1>3, <2>2 DEF GraphTypes
<1>12. \A x \in Actions : /\ x \in F => state[x] = "RUNNABLE" /\ state'[x] \in OnWorker
                          /\ x \notin F => state'[x] = state[x]
  BY <1>5, <1>10
<1>13. SubmittedInOrder'
  BY <1>1, <1>12 DEF SubmittedInOrder, OnWorker
<1>14. ASSUME NEW x \in Actions PROVE DependenciesOK(x)'
  <2>0. DependenciesOK(x) /\ deps[x] \in SUBSET Actions /\ succs[x] \in SUBSET Actions
    BY <1>1 DEF GraphTypes
  <2>1. \A p \in deps[x] : /\ state[p] # "NEW" => state'[p] # "NEW"
                           /\ state[p] = "FINISHED" => state'[p] = "FINISHED"
    BY <1>12, <2>0 DEF OnWorker
  <2>2. \A s \in succs[x] : x \in preds[s] /\ state'[s] = "RUNNABLE"
    BY <1>5, <1>12, <2>0 DEF DependenciesOK
  <2>3. /\ x \in retried => Suitable(x, resource'[x]) /\ x \notin blockedActions'
        /\ x \notin retried => resource'[x] = resource[x]
        /\ x \in blockedActions' => x \in blockedActions /\ x \notin retried
        /\ x \notin retried /\ state[x] = "RUNNABLE" =>
               (x \in blockedActions' <=> x \in blockedActions)
    BY <1>2, <1>4, <1>5
  <2>4. CASE x \in F
    BY <1>2, <1>5, <1>12, <2>0, <2>1, <2>2, <2>3, <2>4 DEF DependenciesOK, OnWorker
  <2>5. CASE x \notin F
    <3>1. state'[x] = state[x] /\ executing'[x] = executing[x]
      BY <1>10, <2>5
    <3>2. x \in retried => preds[x] # {}
      BY <1>5, <2>5
    <3>3. x \in retried => state[x] = "RUNNABLE"
      BY <1>5
    <3>. QED  BY <1>2, <2>0, <2>1, <2>2, <2>3, <3>1, <3>2, <3>3 DEF DependenciesOK, OnWorker
  <2>. QED  BY <2>4, <2>5
<1>15. ASSUME NEW x \in Actions PROVE FailureOK(x)'
  <2>1. \A y \in Actions : state'[y] = "FAILED" <=> state[y] = "FAILED"
    BY <1>12 DEF OnWorker
  <2>. QED  BY <1>1, <1>2, <2>1 DEF FailureOK
<1>. QED  BY <1>3, <1>11, <1>13, <1>14, <1>15 DEF SchedulerInv

-----------------------------------------------------------------------------
(* Theorems *)

\* SchedulerInv is an invariant of the scheduler.
LEMMA Invariance == Spec => []SchedulerInv
<1>1. SchedulerInv /\ [Next]_vars => SchedulerInv'
  <2> SUFFICES ASSUME SchedulerInv, [Next]_vars PROVE SchedulerInv'
    OBVIOUS
  <2>1. CASE UNCHANGED vars
    <3>1. QueuesInv(state', resource', waiting', free')
      BY <2>1 DEF vars, SchedulerInv
    <3>2. GraphTypes' /\ SubmittedInOrder'
      BY <2>1 DEF vars, SchedulerInv, GraphTypes, SubmittedInOrder
    <3>3. ASSUME NEW a \in Actions PROVE DependenciesOK(a)' /\ FailureOK(a)'
      BY <2>1 DEF vars, SchedulerInv, DependenciesOK, FailureOK
    <3>. QED  BY <3>1, <3>2, <3>3 DEF SchedulerInv
  <2>2. CASE Next
    <3>1. ASSUME NEW a \in Actions, NEW D \in SUBSET MayDepend[a], NewAllocatableAction(a, D)
          PROVE  SchedulerInv'
      BY <3>1, NewActionInv
    <3>2. ASSUME NEW a \in Actions, ActionCompleted(a) PROVE SchedulerInv'
      BY <3>2, CompletedInv
    <3>3. ASSUME NEW a \in Actions, RetryAction(a) PROVE SchedulerInv'
      BY <3>3, RetryInv
    <3>4. ASSUME NEW a \in Actions, FailAction(a) PROVE SchedulerInv'
      BY <3>4, FailInv
    <3>5. ASSUME NEW w \in Workers, AddWorker(w) PROVE SchedulerInv'
      BY <3>5, AddWorkerInv
    <3>. QED  BY <2>2, <3>1, <3>2, <3>3, <3>4, <3>5 DEF Next
  <2>. QED  BY <2>1, <2>2
<1>. QED  BY <1>1, InitSchedulerInv, PTL DEF Spec

\* The types are right: no launch takes more than what a worker has free, so that its
\* resources never become negative.
THEOREM TypeCorrect == Spec => []TypeOK
<1>1. SchedulerInv => TypeOK
  BY DEF SchedulerInv, QueuesInv, QueueTypes, GraphTypes, TypeOK
<1>. QED  BY <1>1, Invariance, PTL

\* The free resources of a worker are what its running actions leave, whether they were
\* launched by execute, resumed by the end of another one or retried after an error.
THEOREM CapacityIsRespected == Spec => []CapacityRespected
<1>1. SchedulerInv => CapacityRespected
  <2> SUFFICES ASSUME SchedulerInv, NEW w \in Workers
               PROVE  /\ Total(Running(w)) <= Capacity[w]
                      /\ free[w] = Capacity[w] - Total(Running(w))
    BY DEF CapacityRespected
  <2>1. Running(w) = RunningOn(state, resource, w) /\ Running(w) \in SUBSET Actions
    BY DEF Running, RunningOn
  <2>2. free[w] = Capacity[w] - Total(Running(w)) /\ free[w] \in Nat
    BY <2>1 DEF SchedulerInv, QueuesInv, QueueTypes, WorkerOK
  <2>3. Total(Running(w)) \in Nat /\ Capacity[w] \in Nat
    BY <2>1, TotalIsNatural, ResourcesAssumption
  <2>. QED  BY <2>2, <2>3
<1>. QED  BY <1>1, Invariance, PTL

\* The scheduler loses no action: the queues of the workers hold exactly the actions that
\* wait there, one that does not fit keeps a queue from being empty and something runs
\* whose end tries it again, and a runnable action has predecessors or is blocked.
THEOREM NoActionIsLost == Spec => []NoLostAction
<1>1. SchedulerInv => NoLostAction
  <2> SUFFICES ASSUME SchedulerInv PROVE NoLostAction
    OBVIOUS
  <2>1. \A a \in Actions, w \in Workers :
            a \in waiting[w] <=> state[a] = "WAITING" /\ resource[a] = w
    BY DEF SchedulerInv, QueuesInv, WorkerOK
  <2>2. ASSUME NEW w \in Workers, waiting[w] # {}
        PROVE  (\E a \in waiting[w] : Requirement[a] > free[w]) /\ Running(w) # {}
    <3>1. PICK a \in waiting[w] : Requirement[a] > free[w]
      BY <2>2 DEF SchedulerInv, QueuesInv, WorkerOK
    <3>2. a \in Actions
      BY DEF SchedulerInv, QueuesInv, QueueTypes
    <3>3. state[a] = "WAITING" /\ resource[a] = w
      BY <2>1, <3>2
    <3>4. Requirement[a] <= Capacity[w]
      BY <3>2, <3>3 DEF SchedulerInv, QueuesInv, OnWorker, Suitable
    <3>5. Requirement[a] \in Nat /\ Capacity[w] \in Nat
      BY <3>2, ResourcesAssumption
    <3>6. free[w] = Capacity[w] - Total(RunningOn(state, resource, w))
      BY DEF SchedulerInv, QueuesInv, WorkerOK
    <3>7. ASSUME Running(w) = {} PROVE FALSE
      <4>1. RunningOn(state, resource, w) = {}
        BY <3>7 DEF Running, RunningOn
      <4>2. Total(RunningOn(state, resource, w)) = 0
        BY <4>1, TotalOfOne
      <4>. QED  BY <3>1, <3>4, <3>5, <3>6, <4>2
    <3>. QED  BY <3>1, <3>7
  <2>3. \A a \in Actions : state[a] = "RUNNABLE" => preds[a] # {} \/ a \in blockedActions
    BY DEF SchedulerInv, DependenciesOK
  <2>. QED  BY <2>1, <2>2, <2>3 DEF NoLostAction
<1>. QED  BY <1>1, Invariance, PTL

\* An action waits for a worker, runs or finishes only after all its data predecessors
\* have finished, also when failures cut the graph in the middle of a traversal.
THEOREM DependenciesAreHonoured == Spec => []DependenciesHonoured
<1>1. SchedulerInv => DependenciesHonoured
  BY DEF SchedulerInv, DependenciesOK, DependenciesHonoured, OnWorker
<1>. QED  BY <1>1, Invariance, PTL

\* A failure is notified to the Access Processor, for the action itself or for one that
\* depends on it, also when the traversal of the successors throws.
THEOREM FailuresAreNotified == Spec => []FailureNotified
<1>1. SchedulerInv => FailureNotified
  BY DEF SchedulerInv, FailureOK, FailureNotified
<1>. QED  BY <1>1, Invariance, PTL

-----------------------------------------------------------------------------
(* The count of ready actions *)

\* Adding to a set of actions, and removing one from it, counts them.
LEMMA CountOfUnion ==
    ASSUME NEW S \in SUBSET Actions, NEW T \in SUBSET Actions, S \cap T = {}
    PROVE  /\ Cardinality(S) \in Nat /\ Cardinality(T) \in Nat
           /\ Cardinality(S \cup T) = Cardinality(S) + Cardinality(T)
<1>1. IsFiniteSet(S) /\ IsFiniteSet(T)
  BY ActionsFinite, FS_Subset
<1>2. Cardinality(S) \in Nat /\ Cardinality(T) \in Nat
  BY <1>1, FS_CardinalityType
<1>3. Cardinality(S \cup T) = Cardinality(S) + Cardinality(T) - Cardinality(S \cap T)
  BY <1>1, FS_Union
<1>4. Cardinality(S \cap T) = 0
  BY FS_EmptySet
<1>. QED  BY <1>2, <1>3, <1>4

\* Removing one action.
LEMMA CountWithout ==
    ASSUME NEW S \in SUBSET Actions, NEW a \in S
    PROVE  Cardinality(S \ {a}) = Cardinality(S) - 1 /\ Cardinality(S) \in Nat
<1>1. IsFiniteSet(S)
  BY ActionsFinite, FS_Subset
<1>. QED  BY <1>1, FS_RemoveElement, FS_CardinalityType

\* At the start there is nothing to count.
LEMMA InitReadyInv == Init => ReadyInv
<1> SUFFICES ASSUME Init PROVE ReadyInv
  OBVIOUS
<1>1. ReadyActions = {}
  BY DEF Init, ReadyActions, IsPending
<1>2. Cardinality(ReadyActions) = 0
  BY <1>1, FS_EmptySet
<1>. QED  BY <1>2 DEF Init, ReadyInv

\* Every request keeps the count of ready actions exact, if every action fits in one of
\* the first workers: then an action has been launched before it is ever blocked.
LEMMA NextReadyInv ==
    ASSUME EveryActionFits, SchedulerInv, ReadyInv, Next
    PROVE  ReadyInv'
<1>0. /\ GraphTypes /\ \A x \in Actions : DependenciesOK(x)
      /\ InitialWorkers \subseteq workers /\ ReadyActions \in SUBSET Actions
      /\ \A x \in blockedActions : x \in Actions /\ state[x] = "RUNNABLE" /\ preds[x] = {}
      /\ readyCount = Cardinality(ReadyActions)
  BY DEF SchedulerInv, ReadyInv, ReadyActions, GraphTypes
<1>1. ASSUME NEW a \in Actions, NEW D \in SUBSET MayDepend[a], NewAllocatableAction(a, D)
      PROVE  ReadyInv'
  <2>1. /\ state[a] = "NEW" /\ workers' = workers /\ preds'[a] = D
    BY <1>0, <1>1 DEF NewAllocatableAction, GraphTypes
  <2>2. Candidates(a, workers) # {}
    <3>1. executing[a] = {}
      BY <1>0, <2>1 DEF DependenciesOK
    <3>. QED  BY <1>0, <3>1 DEF Candidates, EveryActionFits
  <2>3. /\ blockedActions' = blockedActions
        /\ readyCount' = readyCount + (IF D = {} THEN 1 ELSE 0)
        /\ IF D = {} THEN state'[a] \in OnWorker ELSE state'[a] = "RUNNABLE"
    BY <1>1, <2>2, NewActionStep
  <2>4. \A x \in Actions \ {a} : state'[x] = state[x] /\ preds'[x] = preds[x]
    BY <1>1, NewActionStep
  <2>5. a \notin blockedActions /\ a \notin ReadyActions
    BY <1>0, <2>1 DEF ReadyActions, IsPending
  <2>6. ReadyActions' = ReadyActions \cup (IF D = {} THEN {a} ELSE {})
    BY <2>1, <2>3, <2>4, <2>5 DEF ReadyActions, IsPending, OnWorker
  <2>7. readyCount' = Cardinality(ReadyActions')
    <3>1. CASE D = {}
      <4>1. ReadyActions' = ReadyActions \cup {a} /\ ReadyActions \cap {a} = {}
        BY <2>5, <2>6, <3>1
      <4>2. Cardinality(ReadyActions \cup {a}) = Cardinality(ReadyActions) + Cardinality({a})
        BY <1>0, <4>1, CountOfUnion
      <4>3. Cardinality({a}) = 1
        BY FS_Singleton
      <4>. QED  BY <1>0, <2>3, <3>1, <4>1, <4>2, <4>3
    <3>2. CASE D # {}
      <4>1. ReadyActions' = ReadyActions
        BY <2>6, <3>2
      <4>. QED  BY <1>0, <2>3, <3>2, <4>1 DEF GraphTypes
    <3>. QED  BY <3>1, <3>2
  <2>. QED  BY <1>0, <2>1, <2>3, <2>4, <2>5, <2>7 DEF ReadyInv
<1>2. ASSUME NEW a \in Actions, ActionCompleted(a) PROVE ReadyInv'
  <2> DEFINE freed == Freed(a)
             F == ToLaunch(a)
  <2>1. /\ state[a] = "RUNNING"
        /\ preds' = [s \in Actions |-> IF s \in succs[a] THEN preds[s] \ {a} ELSE preds[s]]
        /\ readyCount' = readyCount - 1 + Cardinality(freed)
        /\ workers' = workers /\ blockedActions' = blockedActions
    BY <1>2 DEF ActionCompleted, Freed
  <2>2. /\ \A s \in succs[a] : s \in Actions /\ a \in preds[s] /\ state[s] = "RUNNABLE"
        /\ freed \in SUBSET Actions
        /\ \A s \in Actions : s \in freed <=> s \in succs[a] /\ preds[s] \ {a} = {}
    BY <1>2, CompletedStep
  <2>3. \A x \in F : /\ x \in Actions /\ x \in freed /\ x \notin blockedActions
                     /\ state[x] = "RUNNABLE" /\ state'[x] \in OnWorker
    BY <1>2, CompletedStep
  <2>4. PICK L \in SUBSET Actions :
            /\ state'[a] = "FINISHED"
            /\ \A x \in L : state'[x] = "RUNNING" /\ state[x] = "WAITING"
            /\ \A x \in Actions : x # a /\ x \notin L /\ x \notin F => state'[x] = state[x]
    BY <1>2, CompletedStep
  <2> HIDE DEF freed, F
  <2>5. \A x \in Actions \ {a} : IsPending(x)' <=> IsPending(x)
    BY <2>3, <2>4 DEF IsPending, OnWorker
  <2>6. a \in ReadyActions /\ ~ IsPending(a)'
    BY <1>0, <2>1, <2>4 DEF ReadyActions, IsPending, DependenciesOK, OnWorker
  <2>7. /\ freed \cap ReadyActions = {} /\ freed \cap blockedActions = {} /\ a \notin freed
        /\ \A x \in freed : IsPending(x)
    BY <1>0, <2>1, <2>2 DEF ReadyActions, IsPending
  <2>8. ReadyActions' = (ReadyActions \ {a}) \cup freed
    <3>1. ASSUME NEW x \in Actions
          PROVE  x \in ReadyActions' <=> x \in (ReadyActions \ {a}) \cup freed
      <4>1. CASE x = a
        BY <2>6, <2>7, <4>1 DEF ReadyActions
      <4>2. CASE x # a /\ x \in freed
        <5>1. preds'[x] = {}
          BY <2>1, <2>2, <4>2
        <5>. QED  BY <2>1, <2>5, <2>7, <4>2, <5>1 DEF ReadyActions
      <4>3. CASE x # a /\ x \notin freed
        <5>1. preds'[x] = {} <=> preds[x] = {}
          BY <2>1, <2>2, <4>3
        <5>. QED  BY <2>1, <2>5, <4>3, <5>1 DEF ReadyActions
      <4>. QED  BY <4>1, <4>2, <4>3
    <3>2. ReadyActions' \subseteq Actions
      BY DEF ReadyActions
    <3>. QED  BY <1>0, <2>2, <3>1, <3>2
  <2>9. readyCount' = Cardinality(ReadyActions')
    <3>1. Cardinality(ReadyActions \ {a}) = readyCount - 1
      BY <1>0, <2>6, CountWithout
    <3>2. /\ ReadyActions \ {a} \in SUBSET Actions
          /\ (ReadyActions \ {a}) \cap freed = {}
      BY <1>0, <2>7
    <3>3. Cardinality((ReadyActions \ {a}) \cup freed)
            = Cardinality(ReadyActions \ {a}) + Cardinality(freed)
      BY <2>2, <3>2, CountOfUnion
    <3>. QED  BY <2>1, <2>8, <3>1, <3>3
  <2>10. \A x \in blockedActions' : state'[x] = "RUNNABLE" /\ preds'[x] = {}
    BY <1>0, <2>1, <2>2, <2>3, <2>4
  <2>. QED  BY <1>0, <2>1, <2>9, <2>10 DEF ReadyInv
<1>3. ASSUME NEW a \in Actions, RetryAction(a) PROVE ReadyInv'
  <2>1. state[a] = "RUNNING" /\ workers' = workers /\ preds' = preds
    BY <1>3 DEF RetryAction, Erred
  <2>2. \/ /\ blockedActions' = blockedActions \cup {a} /\ state'[a] = "RUNNABLE"
           /\ readyCount' = readyCount - 1
        \/ /\ blockedActions' = blockedActions /\ state'[a] \in OnWorker
           /\ readyCount' = readyCount
    BY <1>3, RetryStep
  <2>3. PICK L \in SUBSET Actions : \A x \in Actions \ {a} :
            /\ state'[x] = IF x \in L THEN "RUNNING" ELSE state[x]
            /\ x \in L => state[x] = "WAITING"
            /\ x \in blockedActions' <=> x \in blockedActions
    BY <1>3, RetryStep
  <2>4. a \in ReadyActions /\ preds[a] = {} /\ a \notin blockedActions
    BY <1>0, <2>1 DEF ReadyActions, IsPending, DependenciesOK, OnWorker
  <2>5. ReadyActions' = IF a \in blockedActions' THEN ReadyActions \ {a} ELSE ReadyActions
    BY <2>1, <2>2, <2>3, <2>4 DEF ReadyActions, IsPending, OnWorker
  <2>6. readyCount' = Cardinality(ReadyActions')
    <3>1. Cardinality(ReadyActions \ {a}) = readyCount - 1
      BY <1>0, <2>4, CountWithout
    <3>2. CASE a \in blockedActions'
      <4>1. ReadyActions' = ReadyActions \ {a} /\ readyCount' = readyCount - 1
        BY <2>2, <2>4, <2>5, <3>2
      <4>. QED  BY <3>1, <4>1
    <3>3. CASE a \notin blockedActions'
      <4>1. ReadyActions' = ReadyActions /\ readyCount' = readyCount
        BY <2>2, <2>5, <3>3
      <4>. QED  BY <1>0, <4>1
    <3>. QED  BY <3>2, <3>3
  <2>7. \A x \in blockedActions' : state'[x] = "RUNNABLE" /\ preds'[x] = {}
    BY <1>0, <2>1, <2>2, <2>3, <2>4 DEF OnWorker
  <2>. QED  BY <1>0, <2>1, <2>6, <2>7 DEF ReadyInv
<1>4. ASSUME NEW a \in Actions, FailAction(a) PROVE ReadyInv'
  <2>1. /\ state[a] = "RUNNING" /\ workers' = workers /\ blockedActions' = blockedActions
        /\ preds' = [x \in Actions |-> IF x \in Complete(a) THEN {} ELSE preds[x]]
        /\ readyCount' = readyCount - 1
    BY <1>4 DEF FailAction, Erred, Failing, Left, Throwing, Complete
  <2>2. /\ Failing(a) \in SUBSET Actions /\ a \in Failing(a) /\ Complete(a) \subseteq Failing(a)
        /\ \A x \in Failing(a) \ {a} : \E p \in Failing(a) : x \in succs[p]
    BY <1>4, FailingActions
  <2>3. PICK L \in SUBSET Actions : \A x \in Actions :
            /\ x \in Failing(a) => state'[x] = "FAILED"
            /\ x \notin Failing(a) => state'[x] = IF x \in L THEN "RUNNING" ELSE state[x]
            /\ x \in L => state[x] = "WAITING"
    BY <1>4, FailStep
  <2>4. \A x \in Failing(a) \ {a} : preds[x] # {}
    BY <1>0, <2>2 DEF DependenciesOK
  <2>5. a \in ReadyActions /\ a \notin blockedActions
    BY <1>0, <2>1 DEF ReadyActions, IsPending, DependenciesOK, OnWorker
  <2>6. \A x \in Actions \ Failing(a) : preds'[x] = preds[x]
    BY <2>1, <2>2
  <2>7. ReadyActions' = ReadyActions \ {a}
    <3>1. ASSUME NEW x \in Actions PROVE x \in ReadyActions' <=> x \in ReadyActions \ {a}
      <4>1. CASE x \in Failing(a)
        BY <2>3, <2>4, <4>1 DEF ReadyActions, IsPending
      <4>2. CASE x \notin Failing(a)
        BY <2>1, <2>2, <2>3, <2>6, <4>2 DEF ReadyActions, IsPending
      <4>. QED  BY <4>1, <4>2
    <3>2. ReadyActions' \subseteq Actions
      BY DEF ReadyActions
    <3>. QED  BY <1>0, <3>1, <3>2
  <2>8. readyCount' = Cardinality(ReadyActions')
    BY <1>0, <2>1, <2>5, <2>7, CountWithout
  <2>9. \A x \in blockedActions' : state'[x] = "RUNNABLE" /\ preds'[x] = {}
    BY <1>0, <2>1, <2>3, <2>4, <2>6
  <2>. QED  BY <1>0, <2>1, <2>8, <2>9 DEF ReadyInv
<1>5. ASSUME NEW w \in Workers, AddWorker(w) PROVE ReadyInv'
  <2>1. /\ workers' = workers \cup {w} /\ blockedActions' = blockedActions \ Unblocked(w)
        /\ readyCount' = readyCount + Cardinality({a \in Unblocked(w) : preds[a] = {}})
        /\ preds' = preds
    BY <1>5 DEF AddWorker, Unblocked
  <2>2. /\ Unblocked(w) \in SUBSET blockedActions /\ Retried(w) \in SUBSET Unblocked(w)
        /\ \A x \in Unblocked(w) : state[x] = "RUNNABLE" <=> x \in Retried(w)
        /\ \A x \in Actions : IF x \in Retried(w) /\ preds[x] = {}
                              THEN state'[x] \in OnWorker ELSE state'[x] = state[x]
    BY <1>5, AddWorkerStep
  <2>3. Unblocked(w) = Retried(w) /\ {a \in Unblocked(w) : preds[a] = {}} = Unblocked(w)
    BY <1>0, <2>2
  <2>4. \A x \in Actions : IF x \in Unblocked(w) THEN state'[x] \in OnWorker
                                                ELSE state'[x] = state[x]
    BY <1>0, <2>2, <2>3
  <2>5. /\ Unblocked(w) \in SUBSET Actions /\ ReadyActions \cap Unblocked(w) = {}
        /\ \A x \in Unblocked(w) : x \in blockedActions /\ preds[x] = {}
    BY <1>0, <2>2 DEF ReadyActions
  <2>6. ReadyActions' = ReadyActions \cup Unblocked(w)
    BY <2>1, <2>4, <2>5 DEF ReadyActions, IsPending, OnWorker
  <2>7. Cardinality(ReadyActions \cup Unblocked(w))
          = Cardinality(ReadyActions) + Cardinality(Unblocked(w))
    BY <1>0, <2>5, CountOfUnion
  <2>8. readyCount' = Cardinality(ReadyActions')
    BY <1>0, <2>1, <2>3, <2>6, <2>7
  <2>9. \A x \in blockedActions' : state'[x] = "RUNNABLE" /\ preds'[x] = {}
    BY <1>0, <2>1, <2>4
  <2>. QED  BY <1>0, <2>1, <2>8, <2>9 DEF ReadyInv
<1>. QED  BY <1>1, <1>2, <1>3, <1>4, <1>5 DEF Next

\* readyCounts is exact through launches, retries, failures and blocked actions, when every
\* action fits in one of the first workers.
THEOREM ReadyCountIsExact ==
    ASSUME EveryActionFits
    PROVE  Spec => []ReadyCountExact
<1>1. SchedulerInv /\ ReadyInv /\ [Next]_vars => ReadyInv'
  <2> SUFFICES ASSUME SchedulerInv, ReadyInv, [Next]_vars PROVE ReadyInv'
    OBVIOUS
  <2>1. CASE Next
    BY <2>1, NextReadyInv
  <2>2. CASE UNCHANGED vars
    BY <2>2 DEF vars, ReadyInv, ReadyActions, IsPending
  <2>. QED  BY <2>1, <2>2
<1>2. ReadyInv => ReadyCountExact
  BY DEF ReadyInv, ReadyActions, ReadyCountExact
<1>. QED  BY <1>1, <1>2, InitReadyInv, Invariance, PTL DEF Spec

=============================================================================
