-------------------------- MODULE MultiNode_proofs --------------------------
(***************************************************************************)
(* Theorems of MultiNode, for any number of tasks, of nodes of a task and  *)
(* of workers, any capacities and any number of errors and chances.        *)
(*                                                                         *)
(* GroupInv is inductive. A group is forming, or its job runs, or its job  *)
(* is over; in each phase the next identifier is given by the number of    *)
(* executions that run and have not been told of the end of a job. After   *)
(* an error it is only bounded by that number: a retry may cut the thread  *)
(* short that tells the executions of the end of the job.                  *)
(* MasterLast and EndsWhenFree are inductive relative to GroupInv.         *)
(***************************************************************************)
EXTENDS MultiNode, FiniteSetTheorems, WellFoundedInduction, TLAPS

-----------------------------------------------------------------------------
(* The invariants *)

\* The requests of the end of a, if there is one: it is still to be added, or in the queue.
Asked(a) ==
    \/ a \in callback[TaskOf(a)].left
    \/ callback[TaskOf(a)].master = a
    \/ \E i \in 1 .. Len(tdQueue) : tdQueue[i].action = a

Pending == {a \in Actions : Asked(a)}

\* The executions of a task that run, and whose end nobody has been told of.
Settled(t) == {a \in Members(t) : state[a] = "RUNNING" /\ a \notin Pending}

\* The executions of a task that have not ended.
Left(t) == {a \in Members(t) : state[a] \in {"WAITING", "RUNNING"}}

CallbackType ==
    [kind : {"none", "COMPLETED", "ERROR"}, left : SUBSET Actions, master : Actions \cup {None}]
RequestType == [kind : {"COMPLETED", "ERROR"}, action : Actions]

\* The types that need no other invariant.
Types ==
    /\ state \in [Actions -> {"NEW", "WAITING", "RUNNING", "FINISHED", "FAILED"}]
    /\ resource \in [Actions -> Workers \cup {None}]
    /\ executing \in [Actions -> SUBSET Workers]
    /\ free \in [Workers -> Nat]
    /\ waiting \in [Workers -> SUBSET Actions]
    /\ multiNodeId \in [Actions -> Int]
    /\ \A a \in Actions : multiNodeId[a] \in 1 - Size[TaskOf(a)] .. Size[TaskOf(a)] \cup {UNASSIGNED_ID}
    /\ nextProcessId \in [Tasks -> Int]
    /\ slaves \in [Tasks -> SUBSET Actions]
    /\ job \in [Tasks -> Actions \cup {None}]
    /\ callback \in [Tasks -> CallbackType]
    /\ tdQueue \in Seq(RequestType)
    /\ status \in [Tasks -> {"TO_ANALYSE", "TO_EXECUTE", "FINISHED", "FAILED"}]
    /\ notices \in [Tasks -> Nat] /\ ended \in [Tasks -> Nat]
    /\ halted \in BOOLEAN /\ errors \in 0 .. MaxErrors /\ erred \in SUBSET Tasks

\* What waits on a worker is in its queue, and what is on a worker has one.
PlacesOK ==
    /\ \A a \in Actions, w \in Workers : a \in waiting[w] <=> state[a] = "WAITING" /\ resource[a] = w
    /\ \A a \in Actions : state[a] \in {"WAITING", "RUNNING"} => resource[a] \in Workers

\* The count of a task, and that nothing of it exists before it is submitted.
CountsOK ==
    /\ executionCount = [t \in Tasks |-> Cardinality(Left(t))]
    /\ \A a \in Actions : status[TaskOf(a)] = "TO_ANALYSE" => state[a] = "NEW"

\* The end of an execution is told once.
AskedOnce ==
    /\ \A t \in Tasks : /\ callback[t].left \subseteq Members(t)
                        /\ callback[t].master \in Members(t) \cup {None}
                        /\ callback[t].master \notin callback[t].left
                        /\ callback[t].master = None => callback[t].left = {}
                        /\ callback[t].kind = "none" => callback[t].master = None
    /\ \A i, j \in 1 .. Len(tdQueue) : tdQueue[i].action = tdQueue[j].action => i = j
    /\ \A i \in 1 .. Len(tdQueue) :
          LET c == callback[TaskOf(tdQueue[i].action)]
          IN  tdQueue[i].action \notin c.left /\ tdQueue[i].action # c.master

\* It is told while the execution runs and its task has no job any more.
RequestsOK ==
    /\ AskedOnce
    /\ \A a \in Pending : state[a] = "RUNNING" /\ job[TaskOf(a)] = None

\* A plain execution has its job as soon as it runs.
PlainOK(t) ==
    /\ slaves[t] = {} /\ nextProcessId[t] = 1
    /\ job[t] # None => job[t] \in Members(t) /\ state[job[t]] = "RUNNING"

\* A group before its last execution runs: the identifiers that are given are different.
Forming(t) ==
    /\ nextProcessId[t] > 0 /\ job[t] = None
    /\ nextProcessId[t] = Size[t] - Cardinality(Settled(t))
    /\ slaves[t] = Settled(t)
    /\ \A a \in Members(t) : /\ a \notin Pending
                             /\ state[a] \in {"NEW", "WAITING", "RUNNING"}
                             /\ Cardinality(executing[a]) <= 1
                             /\ state[a] # "RUNNING" => executing[a] = {}
    /\ \A a \in Settled(t) : multiNodeId[a] \in nextProcessId[t] + 1 .. Size[t]
    /\ \A a, b \in Settled(t) : multiNodeId[a] = multiNodeId[b] => a = b

\* While its job runs.
Working(t) ==
    /\ job[t] \in Members(t) /\ nextProcessId[t] = 0
    /\ slaves[t] = Members(t) \ {job[t]}
    /\ \A a \in Members(t) : /\ a \notin Pending /\ state[a] = "RUNNING"
                             /\ Cardinality(executing[a]) <= 1
                             /\ multiNodeId[a] \in 1 .. Size[t]
    /\ multiNodeId[job[t]] = MASTER_GROUP_ID
    /\ \A a \in Members(t) : Cardinality(executing[job[t]]) <= Cardinality(executing[a])
    /\ \A a, b \in Members(t) : multiNodeId[a] = multiNodeId[b] => a = b

\* After the end of its job: what is launched again gets identifiers from 0 downwards. The
\* executions that are never told of an error run on under their first identifiers.
Over(t) ==
    /\ job[t] = None
    /\ 0 - Cardinality(Settled(t)) <= nextProcessId[t] /\ nextProcessId[t] <= 0
    /\ \A a \in Members(t) : a \in Pending => Cardinality(executing[a]) <= 1

GroupsOK ==
    \A t \in Tasks : IF Multi(t) THEN Forming(t) \/ Working(t) \/ Over(t) ELSE PlainOK(t)

GroupInv == Types /\ PlacesOK /\ CountsOK /\ RequestsOK /\ GroupsOK

\* The request ends its execution for good: the job completed, or there are no chances left.
Settles(kind, a) == kind = "COMPLETED" \/ Cardinality(executing[a]) >= SCHEDULING_CHANCES

HasEnded(a) == state[a] \in {"FINISHED", "FAILED"}

\* The requests up to number n of the queue have one that ends a for good.
SettledBefore(n, a) ==
    \E j \in 1 .. n : tdQueue[j].action = a /\ Settles(tdQueue[j].kind, a)

\* When the master of a group is going to end for good, so are the others, and before it:
\* for the thread that is told of the end of a job, and for a request of the queue.
TellsLast(t) ==
    callback[t].master # None =>
       /\ IsMaster(callback[t].master)
       /\ \A a \in callback[t].left : ~ IsMaster(a)
       /\ Settles(callback[t].kind, callback[t].master) =>
             \A a \in Members(t) :
                 \/ a = callback[t].master \/ HasEnded(a) \/ SettledBefore(Len(tdQueue), a)
                 \/ a \in callback[t].left /\ Settles(callback[t].kind, a)

AsksLast(i) ==
    LET q == tdQueue[i]
    IN  IsMaster(q.action) /\ Settles(q.kind, q.action) =>
           \A a \in Members(TaskOf(q.action)) :
               a = q.action \/ HasEnded(a) \/ SettledBefore(i - 1, a)

MasterLast == (\A t \in Tasks : TellsLast(t)) /\ (\A i \in 1 .. Len(tdQueue) : AsksLast(i))

-----------------------------------------------------------------------------
(* Sets and positions *)

\* A set of naturals that is not empty has a least element.
LEMMA LeastNatural ==
    ASSUME NEW T \in SUBSET Nat, T # {}
    PROVE  \E n \in T : \A m \in T : n <= m
<1>1. PICK n \in T : \A m \in T : ~ (<<m, n>> \in OpToRel(<, Nat))
  BY NatLessThanWellFounded, WFMin, Zenon
<1>2. \A m \in T : ~ (m < n)
  BY <1>1 DEF OpToRel
<1>. QED  BY <1>2

\* How many elements of S have a smaller position than a.
Rank(S, f, a) == Cardinality({b \in S : f[b] < f[a]})

\* The positions of a finite set number its elements from 0, up to one less than their number.
LEMMA Ranks ==
    ASSUME NEW S, IsFiniteSet(S), NEW f, \A a \in S : f[a] \in Int,
           \A a, b \in S : f[a] = f[b] => a = b
    PROVE  /\ \A a \in S : Rank(S, f, a) \in 0 .. Cardinality(S) - 1
           /\ \A a, b \in S : Rank(S, f, a) = Rank(S, f, b) => a = b
           /\ S # {} => \E a \in S : Rank(S, f, a) = Cardinality(S) - 1
<1>. DEFINE Low(a) == {b \in S : f[b] < f[a]}
            rank(a) == Cardinality(Low(a))
            n == Cardinality(S)
<1>1. n \in Nat
  BY FS_CardinalityType
<1>2. ASSUME NEW a \in S
      PROVE  /\ IsFiniteSet(Low(a)) /\ rank(a) \in Nat /\ rank(a) <= n - 1
             /\ IsFiniteSet(Low(a) \cup {a}) /\ Cardinality(Low(a) \cup {a}) = rank(a) + 1
  <2>1. Low(a) \in SUBSET S /\ Low(a) \cup {a} \in SUBSET S /\ a \notin Low(a)
    OBVIOUS
  <2>2. IsFiniteSet(Low(a))
    BY <2>1, FS_Subset
  <2>3. rank(a) \in Nat
    BY <2>2, FS_CardinalityType
  <2>4. IsFiniteSet(Low(a) \cup {a}) /\ Cardinality(Low(a) \cup {a}) = rank(a) + 1
    BY <2>1, <2>2, FS_AddElement
  <2>5. Cardinality(Low(a) \cup {a}) <= n
    BY <2>1, FS_Subset
  <2>. QED  BY <1>1, <2>2, <2>3, <2>4, <2>5
<1>3. ASSUME NEW a \in S, NEW b \in S, f[a] < f[b]
      PROVE  rank(a) < rank(b)
  <2>1. Low(a) \cup {a} \in SUBSET Low(b)
    BY <1>3
  <2>2. rank(a) + 1 <= rank(b)
    <3>1. Cardinality(Low(a) \cup {a}) <= Cardinality(Low(b))
      BY <1>2, <2>1, FS_Subset
    <3>2. Cardinality(Low(a) \cup {a}) = rank(a) + 1
      BY <1>2
    <3>. QED  BY <3>1, <3>2
  <2>3. rank(a) \in Nat /\ rank(b) \in Nat
    BY <1>2
  <2>. HIDE DEF rank
  <2>. QED  BY <2>2, <2>3
<1>4. \A a, b \in S : rank(a) = rank(b) => a = b
  <2>1. SUFFICES ASSUME NEW a \in S, NEW b \in S, a # b PROVE rank(a) # rank(b)
    OBVIOUS
  <2>2. f[a] < f[b] \/ f[b] < f[a]
    <3>1. f[a] # f[b] /\ f[a] \in Int /\ f[b] \in Int
      BY <2>1
    <3>. QED  BY <3>1
  <2>3. rank(a) < rank(b) \/ rank(b) < rank(a)
    BY <1>3, <2>2
  <2>4. rank(a) \in Nat /\ rank(b) \in Nat
    BY <1>2
  <2>. HIDE DEF rank
  <2>. QED  BY <2>3, <2>4
<1>5. ASSUME S # {} PROVE \E a \in S : rank(a) = n - 1
  <2>. DEFINE Gaps == {n - 1 - rank(a) : a \in S}
  <2>1. Gaps \in SUBSET Nat
    <3>1. \A a \in S : rank(a) \in Nat /\ rank(a) <= n - 1
      BY <1>2
    <3>. HIDE DEF rank, n
    <3>. QED  BY <1>1, <3>1
  <2>2. Gaps # {}
    <3>. HIDE DEF rank, n
    <3>. QED  BY <1>5
  <2>3. PICK g \in Gaps : \A m \in Gaps : g <= m
    BY <2>1, <2>2, LeastNatural
  <2>4. PICK a \in S : g = n - 1 - rank(a)
    OBVIOUS
  <2>5. \A b \in S : rank(b) <= rank(a)
    <3>1. SUFFICES ASSUME NEW b \in S PROVE rank(b) <= rank(a)
      OBVIOUS
    <3>2. n - 1 - rank(b) \in Gaps /\ rank(a) \in Nat /\ rank(b) \in Nat
      BY <1>2
    <3>3. n - 1 - rank(a) <= n - 1 - rank(b)
      BY <2>3, <2>4, <3>2
    <3>. HIDE DEF rank, n
    <3>. QED  BY <1>1, <3>2, <3>3
  <2>6. \A b \in S : b # a => f[b] < f[a]
    <3>1. SUFFICES ASSUME NEW b \in S, b # a PROVE f[b] < f[a]
      OBVIOUS
    <3>2. ~ (f[a] < f[b])
      <4>1. SUFFICES ASSUME f[a] < f[b] PROVE FALSE
        OBVIOUS
      <4>2. rank(a) < rank(b) /\ rank(b) <= rank(a) /\ rank(a) \in Nat /\ rank(b) \in Nat
        BY <1>2, <1>3, <2>5, <4>1
      <4>. HIDE DEF rank
      <4>. QED  BY <4>2
    <3>. QED  BY <3>1, <3>2
  <2>7. Low(a) = S \ {a}
    BY <2>6
  <2>8. Cardinality(S \ {a}) = n - 1
    BY FS_RemoveElement
  <2>. QED  BY <2>7, <2>8
<1>6. \A a \in S : rank(a) \in 0 .. n - 1
  <2>1. SUFFICES ASSUME NEW a \in S PROVE rank(a) \in 0 .. n - 1
    OBVIOUS
  <2>2. rank(a) \in Nat /\ rank(a) <= n - 1
    BY <1>2
  <2>. HIDE DEF rank, n
  <2>. QED  BY <1>1, <2>2
<1>7. \A a \in S : Rank(S, f, a) = rank(a)
  BY Zenon DEF Rank
<1>. HIDE DEF rank
<1>. QED  BY <1>4, <1>5, <1>6, <1>7

\* A set of positions each of which has fewer than n before it has n elements at most.
LEMMA FewBefore ==
    ASSUME NEW S, IsFiniteSet(S), NEW f, \A a \in S : f[a] \in Int,
           \A a, b \in S : f[a] = f[b] => a = b, NEW n \in Nat,
           \A a \in S : Rank(S, f, a) < n
    PROVE  Cardinality(S) <= n
<1>1. CASE S = {}
  BY <1>1, FS_EmptySet
<1>2. CASE S # {}
  <2>1. PICK a \in S : Rank(S, f, a) = Cardinality(S) - 1
    BY <1>2, Ranks
  <2>2. Cardinality(S) \in Nat
    BY FS_CardinalityType
  <2>. QED  BY <2>1, <2>2
<1>. QED  BY <1>1, <1>2

\* The executions of a task.
LEMMA GroupFacts ==
    /\ Tasks \subseteq Nat /\ None \notin Actions /\ None \notin Workers
    /\ \A t \in Tasks : /\ Size[t] \in Nat /\ Size[t] > 0
                        /\ IsFiniteSet(Members(t)) /\ Cardinality(Members(t)) = Size[t]
                        /\ Members(t) \subseteq Actions
                        /\ Members(t) = {<<t, i>> : i \in 1 .. Size[t]}
    /\ \A a \in Actions : /\ TaskOf(a) \in Tasks /\ a \in Members(TaskOf(a))
                          /\ a = <<TaskOf(a), a[2]>> /\ a[2] \in 1 .. Size[TaskOf(a)]
    /\ \A t \in Tasks : \A a \in Members(t) : TaskOf(a) = t
<1>1. Tasks \subseteq Nat /\ \A t \in Tasks : Size[t] \in Nat /\ Size[t] > 0
  BY SizeAssumption DEF Tasks
<1>2. \A a \in Actions : /\ TaskOf(a) \in Tasks /\ a = <<TaskOf(a), a[2]>>
                         /\ a[2] \in 1 .. Size[TaskOf(a)]
  BY DEF Actions, TaskOf
<1>3. \A t \in Tasks : \A i \in 1 .. Size[t] : <<t, i>> \in Actions
  BY DEF Actions
<1>4. \A t \in Tasks : Members(t) = {<<t, i>> : i \in 1 .. Size[t]}
  BY <1>2, <1>3 DEF Members, TaskOf
<1>5. ASSUME NEW t \in Tasks
      PROVE  IsFiniteSet(Members(t)) /\ Cardinality(Members(t)) = Size[t]
  <2>. DEFINE g == [i \in 1 .. Size[t] |-> <<t, i>>]
  <2>1. g \in Bijection(1 .. Size[t], Members(t))
    BY <1>4 DEF Bijection, Injection, Surjection, IsInjective
  <2>2. ExistsBijection(1 .. Size[t], Members(t))
    <3>. HIDE DEF g
    <3>. QED  BY <2>1 DEF ExistsBijection
  <2>3. IsFiniteSet(1 .. Size[t]) /\ Cardinality(1 .. Size[t]) = Size[t]
    <3>1. Size[t] \in Int /\ 1 \in Int /\ Size[t] > 0
      BY <1>1
    <3>2. /\ IsFiniteSet(1 .. Size[t])
          /\ Cardinality(1 .. Size[t]) = IF 1 > Size[t] THEN 0 ELSE Size[t] - 1 + 1
      BY <3>1, FS_Interval, Zenon
    <3>. QED  BY <3>1, <3>2
  <2>. QED  BY <2>2, <2>3, FS_Bijection
<1>6. \A t \in Tasks : Members(t) \subseteq Actions /\ \A a \in Members(t) : TaskOf(a) = t
  BY DEF Members
<1>7. \A a \in Actions : a \in Members(TaskOf(a))
  BY DEF Members
<1>. QED  BY <1>1, <1>2, <1>4, <1>5, <1>6, <1>7, NoneAssumption

-----------------------------------------------------------------------------
(* Launching *)

\* What the launch of the executions L of the group of t changes: they get different
\* identifiers, the next ones downwards, and the one that gets 1 is the master.
Registers(t, L) ==
    /\ nextProcessId'[t] = nextProcessId[t] - Cardinality(L)
    /\ \A a \in L : multiNodeId'[a] \in nextProcessId[t] - Cardinality(L) + 1 .. nextProcessId[t]
    /\ \A a, b \in L : multiNodeId'[a] = multiNodeId'[b] => a = b
    /\ \A a \in Members(t) \ L : multiNodeId'[a] = multiNodeId[a]
    /\ \/ \E m \in L : /\ multiNodeId'[m] = MASTER_GROUP_ID /\ job'[t] = m
                       /\ slaves'[t] = slaves[t] \cup (L \ {m})
       \/ /\ \A a \in L : multiNodeId'[a] # MASTER_GROUP_ID
          /\ job'[t] = job[t] /\ slaves'[t] = slaves[t] \cup L
    /\ nextProcessId[t] > 0 /\ Cardinality(L) = nextProcessId[t]
          => \E m \in L : multiNodeId'[m] = MASTER_GROUP_ID

\* The same for a plain task.
Starts(t, L) ==
    /\ nextProcessId'[t] = nextProcessId[t] /\ slaves'[t] = slaves[t]
    /\ \A a \in Members(t) : multiNodeId'[a] = multiNodeId[a]
    /\ IF L = {} THEN job'[t] = job[t] ELSE job'[t] \in L

\* A set of executions in some order, different for those of one group.
Ordered(order, L) ==
    /\ L \subseteq Actions /\ IsFiniteSet(L) /\ DOMAIN order = L
    /\ \A a \in L : order[a] \in Int
    /\ \A a, b \in L : TaskOf(a) = TaskOf(b) /\ order[a] = order[b] => a = b

\* What doAction does to each group.
LEMMA Registered ==
    ASSUME nextProcessId \in [Tasks -> Int],
           NEW L, NEW order, Ordered(order, L), DoAction(order), NEW t \in Tasks
    PROVE  IF Multi(t) THEN Registers(t, L \cap Members(t)) ELSE Starts(t, L \cap Members(t))
<1>. DEFINE G == L \cap Members(t)
            rank(a) == Rank(G, order, a)
            n == nextProcessId[t]
            New == {a \in G : IF Multi(t) THEN RegisteredId(order, a) = MASTER_GROUP_ID ELSE TRUE}
<1>1. G = {a \in DOMAIN order : TaskOf(a) = t} /\ IsFiniteSet(G) /\ G \subseteq Actions
  <2>1. G \in SUBSET L /\ IsFiniteSet(L)
    BY DEF Ordered
  <2>2. IsFiniteSet(G)
    BY <2>1, FS_Subset
  <2>. QED  BY <2>1, <2>2, GroupFacts DEF Ordered, Members
<1>2. n \in Int /\ Cardinality(G) \in Nat
  BY <1>1, FS_CardinalityType
<1>3. \A a \in G : RegisteredId(order, a) = n - rank(a)
  <2>1. SUFFICES ASSUME NEW a \in G PROVE RegisteredId(order, a) = n - rank(a)
    OBVIOUS
  <2>2. TaskOf(a) = t
    BY <1>1
  <2>3. {b \in DOMAIN order : TaskOf(b) = TaskOf(a) /\ order[b] < order[a]}
          = {b \in G : order[b] < order[a]}
    BY <1>1, <2>2
  <2>. QED  BY <2>2, <2>3, Zenon DEF RegisteredId, EarlierInGroup, Rank
<1>4. /\ \A a \in G : rank(a) \in 0 .. Cardinality(G) - 1
      /\ \A a, b \in G : rank(a) = rank(b) => a = b
      /\ G # {} => \E a \in G : rank(a) = Cardinality(G) - 1
  <2>1. \A a \in G : order[a] \in Int
    BY DEF Ordered
  <2>2. \A a, b \in G : order[a] = order[b] => a = b
    BY <1>1 DEF Ordered
  <2>3. IsFiniteSet(G)
    BY <1>1
  <2>. HIDE DEF G
  <2>. QED  BY <2>1, <2>2, <2>3, Ranks
<1>5. \A a \in Actions : multiNodeId'[a] = IF Multi(TaskOf(a)) /\ a \in DOMAIN order
                                           THEN RegisteredId(order, a) ELSE multiNodeId[a]
  BY DEF DoAction
<1>6. nextProcessId'[t] = n - IF Multi(t) THEN Cardinality(G) ELSE 0
  BY <1>1, Zenon DEF DoAction
<1>7. New = {a \in {x \in DOMAIN order : TaskOf(x) = t} :
               (IF Multi(TaskOf(a)) THEN RegisteredId(order, a) ELSE MASTER_GROUP_ID) = MASTER_GROUP_ID}
  BY <1>1
<1>8. slaves'[t] = slaves[t] \cup (G \ New)
  BY <1>1, <1>7, Zenon DEF DoAction
<1>9. job'[t] = IF New # {} THEN CHOOSE a \in New : TRUE ELSE job[t]
  <2>. DEFINE Raw == {a \in {x \in DOMAIN order : TaskOf(x) = t} :
               (IF Multi(TaskOf(a)) THEN RegisteredId(order, a) ELSE MASTER_GROUP_ID) = MASTER_GROUP_ID}
  <2>1. job'[t] = IF Raw # {} THEN CHOOSE a \in Raw : TRUE ELSE job[t]
    BY DEF DoAction
  <2>2. New = Raw
    BY <1>7
  <2>. HIDE DEF Raw, New
  <2>. QED  BY <2>1, <2>2
<1>. HIDE DEF rank
<1>10. CASE ~ Multi(t)
  <2>1. New = G
    BY <1>10
  <2>2. \A a \in Members(t) : multiNodeId'[a] = multiNodeId[a]
    BY <1>5, <1>10, GroupFacts
  <2>3. nextProcessId'[t] = n
    BY <1>2, <1>6, <1>10
  <2>4. IF G = {} THEN job'[t] = job[t] ELSE job'[t] \in G
    BY <1>9, <2>1
  <2>5. slaves'[t] = slaves[t]
    BY <1>8, <2>1
  <2>. QED  BY <1>10, <2>2, <2>3, <2>4, <2>5 DEF Starts
<1>11. CASE Multi(t)
  <2>1. \A a \in G : multiNodeId'[a] = n - rank(a)
    BY <1>1, <1>3, <1>5, <1>11
  <2>2. \A a \in Members(t) \ G : multiNodeId'[a] = multiNodeId[a]
    BY <1>1, <1>5, GroupFacts
  <2>3. New = {a \in G : multiNodeId'[a] = MASTER_GROUP_ID}
    BY <1>3, <1>11, <2>1
  <2>4. nextProcessId'[t] = n - Cardinality(G)
    BY <1>6, <1>11
  <2>. DEFINE c == Cardinality(G)
  <2>. HIDE DEF New, c
  <2>5. \A a \in G : multiNodeId'[a] \in n - c + 1 .. n
    BY <1>2, <1>4, <2>1 DEF c
  <2>6. \A a, b \in G : multiNodeId'[a] = multiNodeId'[b] => a = b
    <3>1. SUFFICES ASSUME NEW a \in G, NEW b \in G, n - rank(a) = n - rank(b) PROVE a = b
      BY <2>1
    <3>2. rank(a) \in Int /\ rank(b) \in Int
      BY <1>4, <1>2
    <3>3. rank(a) = rank(b)
      BY <1>2, <3>1, <3>2
    <3>. QED  BY <1>4, <3>3
  <2>7. \/ \E m \in G : /\ multiNodeId'[m] = MASTER_GROUP_ID /\ job'[t] = m
                        /\ slaves'[t] = slaves[t] \cup (G \ {m})
        \/ /\ \A a \in G : multiNodeId'[a] # MASTER_GROUP_ID
           /\ job'[t] = job[t] /\ slaves'[t] = slaves[t] \cup G
    <3>1. CASE New = {}
      BY <1>8, <1>9, <2>3, <3>1
    <3>2. CASE New # {}
      <4>1. PICK m \in New : TRUE
        BY <3>2
      <4>2. New = {m} /\ m \in G /\ multiNodeId'[m] = MASTER_GROUP_ID
        BY <2>3, <2>6, <4>1
      <4>3. job'[t] \in New
        BY <1>9, <3>2
      <4>. QED  BY <1>8, <4>2, <4>3
    <3>. QED  BY <3>1, <3>2
  <2>8. ASSUME n > 0, c = n
        PROVE  \E m \in G : multiNodeId'[m] = MASTER_GROUP_ID
    <3>1. G # {}
      BY <1>2, <2>8, FS_EmptySet DEF c
    <3>2. PICK a \in G : rank(a) = c - 1
      BY <1>4, <3>1 DEF c
    <3>3. multiNodeId'[a] = n - (n - 1)
      BY <2>1, <2>8, <3>2
    <3>. QED  BY <1>2, <3>3 DEF MASTER_GROUP_ID
  <2>. QED  BY <1>11, <2>2, <2>4, <2>5, <2>6, <2>7, <2>8 DEF Registers, c
<1>. QED  BY <1>10, <1>11

\* The executions of a task that run are some of its executions.
LEMMA SettledFacts ==
    ASSUME NEW t \in Tasks
    PROVE  /\ Settled(t) \subseteq Members(t) /\ IsFiniteSet(Settled(t))
           /\ Cardinality(Settled(t)) \in Nat /\ Cardinality(Settled(t)) <= Size[t]
           /\ Cardinality(Settled(t)) = Size[t] => Settled(t) = Members(t)
<1>1. Settled(t) \in SUBSET Members(t)
  BY DEF Settled
<1>2. IsFiniteSet(Members(t)) /\ Cardinality(Members(t)) = Size[t]
  BY GroupFacts
<1>3. IsFiniteSet(Settled(t))
  BY <1>1, <1>2, FS_Subset
<1>. QED  BY <1>1, <1>2, <1>3, FS_Subset, FS_CardinalityType

\* The executions that are launched are not among those that run: both together are some of
\* the executions of the group.
LEMMA LaunchCount ==
    ASSUME NEW t \in Tasks, NEW L \in SUBSET Members(t), L \cap Settled(t) = {}
    PROVE  /\ Cardinality(L) \in Nat
           /\ Cardinality(Settled(t) \cup L) = Cardinality(Settled(t)) + Cardinality(L)
           /\ Cardinality(Settled(t) \cup L) <= Size[t]
           /\ Cardinality(Settled(t) \cup L) = Size[t] => Settled(t) \cup L = Members(t)
           /\ Cardinality(L) = 0 <=> L = {}
<1>1. IsFiniteSet(Members(t)) /\ Cardinality(Members(t)) = Size[t]
  BY GroupFacts
<1>2. IsFiniteSet(L) /\ IsFiniteSet(Settled(t)) /\ Cardinality(Settled(t)) \in Nat
  BY <1>1, SettledFacts, FS_Subset
<1>3. Cardinality(L) \in Nat /\ (Cardinality(L) = 0 <=> L = {})
  BY <1>2, FS_CardinalityType, FS_EmptySet
<1>4. Cardinality(Settled(t) \cup L) = Cardinality(Settled(t)) + Cardinality(L) - 0
  <2>1. Settled(t) \cap L = {} /\ Cardinality({}) = 0
    BY FS_EmptySet
  <2>2. Cardinality(Settled(t) \cup L)
          = Cardinality(Settled(t)) + Cardinality(L) - Cardinality(Settled(t) \cap L)
    BY <1>2, FS_Union
  <2>. QED  BY <2>1, <2>2
<1>5. Settled(t) \cup L \in SUBSET Members(t)
  BY SettledFacts
<1>6. Cardinality(Settled(t) \cup L) <= Size[t]
  BY <1>1, <1>5, FS_Subset
<1>7. Cardinality(Settled(t) \cup L) = Size[t] => Settled(t) \cup L = Members(t)
  BY <1>1, <1>5, FS_Subset
<1>. QED  BY <1>2, <1>3, <1>4, <1>6, <1>7

\* A group goes from one phase to the next when executions of it are launched.
LEMMA GroupStep ==
    ASSUME NEW t \in Tasks, Forming(t) \/ Working(t) \/ Over(t),
           NEW L \in SUBSET Members(t), L \cap Settled(t) = {}, Registers(t, L),
           Settled(t)' = Settled(t) \cup L, nextProcessId[t] \in Int,
           executing' \in [Actions -> SUBSET Workers],
           \A a \in Members(t) :
              /\ a \in Pending' => a \in Pending /\ executing'[a] = executing[a]
              /\ a \notin Pending \cup L =>
                    /\ executing'[a] = executing[a]
                    /\ state'[a] = state[a] \/ (state'[a] = "WAITING" /\ state[a] # "RUNNING"),
           Forming(t) => \/ \A a \in L : executing'[a] = {}
                         \/ Settled(t) = {} /\ \A a \in L : Cardinality(executing'[a]) = 1
    PROVE  /\ Forming(t)' \/ Working(t)' \/ Over(t)'
           /\ \A a \in L : multiNodeId'[a] \in 1 - Size[t] .. Size[t]
           /\ job[t] = None /\ nextProcessId[t] <= 0 => job'[t] = None
<1>. DEFINE n == nextProcessId[t]
            k == Cardinality(Settled(t))
            l == Cardinality(L)
            S1 == Settled(t) \cup L
<1>1. /\ k \in Nat /\ l \in Nat /\ Cardinality(S1) = k + l /\ k + l <= Size[t]
      /\ k + l = Size[t] => S1 = Members(t)
      /\ l = 0 <=> L = {}
  <2>1. k \in Nat
    BY SettledFacts
  <2>2. /\ l \in Nat /\ Cardinality(S1) = k + l /\ Cardinality(S1) <= Size[t]
        /\ Cardinality(S1) = Size[t] => S1 = Members(t)
        /\ l = 0 <=> L = {}
    BY LaunchCount
  <2>. HIDE DEF k, l, S1
  <2>. QED  BY <2>1, <2>2
<1>2. Size[t] \in Nat /\ Size[t] > 0 /\ Members(t) \subseteq Actions /\ None \notin Actions
  BY GroupFacts
<1>3. Settled(t)' = S1 /\ \A a \in L : a \in Members(t) /\ state'[a] = "RUNNING" /\ a \notin Pending'
  BY DEF Settled
<1>4. /\ nextProcessId'[t] = n - l
      /\ \A a \in L : multiNodeId'[a] \in n - l + 1 .. n
      /\ \A a, b \in L : multiNodeId'[a] = multiNodeId'[b] => a = b
      /\ \A a \in Members(t) \ L : multiNodeId'[a] = multiNodeId[a]
      /\ \/ \E m \in L : /\ multiNodeId'[m] = MASTER_GROUP_ID /\ job'[t] = m
                         /\ slaves'[t] = slaves[t] \cup (L \ {m})
         \/ /\ \A a \in L : multiNodeId'[a] # MASTER_GROUP_ID
            /\ job'[t] = job[t] /\ slaves'[t] = slaves[t] \cup L
      /\ n > 0 /\ l = n => \E m \in L : multiNodeId'[m] = MASTER_GROUP_ID
  BY DEF Registers
<1>5. Cardinality(Settled(t)') = k + l
  BY <1>1, <1>3
<1>. HIDE DEF k, l
<1>6. ASSUME Over(t)
      PROVE  /\ Over(t)' /\ job'[t] = None
             /\ \A a \in L : multiNodeId'[a] \in 1 - Size[t] .. Size[t]
  <2>1. 0 - k <= n /\ n <= 0 /\ n \in Int /\ job[t] = None
    BY <1>6 DEF Over, k
  <2>2. \A a \in L : multiNodeId'[a] \in 1 - Size[t] .. 0
    BY <1>1, <1>2, <1>4, <2>1
  <2>3. job'[t] = None
    <3>1. \A a \in L : multiNodeId'[a] # MASTER_GROUP_ID
      BY <1>2, <2>2 DEF MASTER_GROUP_ID
    <3>. QED  BY <1>4, <2>1, <3>1
  <2>4. 0 - (k + l) <= nextProcessId'[t] /\ nextProcessId'[t] <= 0
    BY <1>1, <1>4, <2>1
  <2>5. \A a \in Members(t) : a \in Pending' => Cardinality(executing'[a]) <= 1
    BY <1>6 DEF Over
  <2>. QED  BY <1>2, <1>5, <2>2, <2>3, <2>4, <2>5 DEF Over
<1>7. ASSUME Working(t)
      PROVE  /\ Working(t)' /\ n = 0 /\ job[t] # None
             /\ \A a \in L : multiNodeId'[a] \in 1 - Size[t] .. Size[t]
  <2>1. Settled(t) = Members(t) /\ n = 0
    BY <1>7 DEF Working, Settled
  <2>2. L = {} /\ l = 0
    BY <1>1, <2>1
  <2>3. /\ nextProcessId'[t] = 0 /\ job'[t] = job[t] /\ slaves'[t] = slaves[t]
        /\ \A a \in Members(t) : multiNodeId'[a] = multiNodeId[a]
    BY <1>4, <2>1, <2>2
  <2>4. \A a \in Members(t) : /\ a \notin Pending' /\ a \notin Pending /\ state'[a] = "RUNNING"
                              /\ executing'[a] = executing[a]
    BY <1>7, <2>2 DEF Working
  <2>5. job[t] \in Members(t) /\ job[t] # None
    BY <1>2, <1>7 DEF Working
  <2>. QED  BY <1>7, <2>1, <2>2, <2>3, <2>4, <2>5 DEF Working
<1>8. ASSUME Forming(t)
      PROVE  /\ Forming(t)' \/ Working(t)'
             /\ n > 0
             /\ \A a \in L : multiNodeId'[a] \in 1 - Size[t] .. Size[t]
  <2>1. /\ n > 0 /\ job[t] = None /\ n = Size[t] - k /\ slaves[t] = Settled(t)
        /\ \A a \in Settled(t) : multiNodeId[a] \in n + 1 .. Size[t]
        /\ \A a, b \in Settled(t) : multiNodeId[a] = multiNodeId[b] => a = b
    BY <1>8 DEF Forming, k
  <2>2. l <= n /\ n - l = Size[t] - (k + l) /\ n <= Size[t]
    BY <1>1, <1>2, <2>1
  <2>3. \A a \in L : multiNodeId'[a] \in n - l + 1 .. Size[t] /\ multiNodeId'[a] <= n
    BY <1>1, <1>2, <1>4, <2>1, <2>2
  <2>4. \A a \in Settled(t) : /\ multiNodeId'[a] = multiNodeId[a]
                              /\ multiNodeId'[a] \in n + 1 .. Size[t]
    BY <1>4, <2>1, SettledFacts
  <2>5. \A a \in S1 : multiNodeId'[a] \in n - l + 1 .. Size[t]
    BY <1>1, <1>2, <2>1, <2>2, <2>3, <2>4
  <2>6. \A a, b \in S1 : multiNodeId'[a] = multiNodeId'[b] => a = b
    <3>1. \A a \in L, b \in Settled(t) : multiNodeId'[a] # multiNodeId'[b]
      BY <1>2, <2>1, <2>3, <2>4
    <3>. QED  BY <1>4, <2>1, <2>4, <3>1
  <2>7. \A a \in Members(t) :
           /\ a \notin Pending' /\ a \notin Pending /\ state'[a] \in {"NEW", "WAITING", "RUNNING"}
           /\ Cardinality(executing'[a]) <= 1
           /\ state'[a] # "RUNNING" => executing'[a] = {}
    <3>1. SUFFICES ASSUME NEW a \in Members(t)
                   PROVE  /\ a \notin Pending' /\ a \notin Pending
                          /\ state'[a] \in {"NEW", "WAITING", "RUNNING"}
                          /\ Cardinality(executing'[a]) <= 1
                          /\ state'[a] # "RUNNING" => executing'[a] = {}
      OBVIOUS
    <3>2. /\ a \notin Pending /\ state[a] \in {"NEW", "WAITING", "RUNNING"}
          /\ Cardinality(executing[a]) <= 1
          /\ state[a] # "RUNNING" => executing[a] = {}
      BY <1>8 DEF Forming
    <3>3. CASE a \in L
      <4>1. state'[a] = "RUNNING" /\ a \notin Pending'
        BY <1>3, <3>3
      <4>2. executing'[a] = {} \/ Cardinality(executing'[a]) = 1
        BY <1>8, <3>3
      <4>3. Cardinality(executing'[a]) <= 1
        <5>1. CASE executing'[a] = {}
          <6>1. Cardinality(executing'[a]) = 0
            BY <5>1, FS_EmptySet
          <6>. QED  BY <6>1
        <5>. QED  BY <4>2, <5>1
      <4>. QED  BY <3>2, <4>1, <4>3
    <3>4. CASE a \notin L
      BY <3>2, <3>4
    <3>. QED  BY <3>3, <3>4
  <2>8. \A a \in L : multiNodeId'[a] \in 1 - Size[t] .. Size[t]
    BY <1>1, <1>2, <2>1, <2>2, <2>3
  <2>9. CASE l < n
    <3>1. \A a \in L : multiNodeId'[a] # MASTER_GROUP_ID
      BY <1>1, <2>1, <2>3, <2>9 DEF MASTER_GROUP_ID
    <3>2. job'[t] = None /\ slaves'[t] = S1
      BY <1>4, <2>1, <3>1
    <3>3. nextProcessId'[t] > 0 /\ nextProcessId'[t] = Size[t] - (k + l)
      BY <1>1, <1>4, <2>1, <2>2, <2>9
    <3>4. /\ nextProcessId'[t] = Size[t] - Cardinality(Settled(t)') /\ slaves'[t] = Settled(t)'
          /\ \A a \in Settled(t)' : multiNodeId'[a] \in nextProcessId'[t] + 1 .. Size[t]
          /\ \A a, b \in Settled(t)' : multiNodeId'[a] = multiNodeId'[b] => a = b
      <4>. HIDE DEF S1
      <4>. QED  BY <1>3, <1>4, <1>5, <2>2, <2>5, <2>6, <3>2, <3>3
    <3>5. Forming(t)'
      BY <2>7, <3>2, <3>3, <3>4 DEF Forming
    <3>. QED  BY <2>1, <2>8, <3>5
  <2>10. CASE l = n
    <3>1. S1 = Members(t) /\ n - l = 0
      BY <1>1, <1>2, <2>1, <2>10
    <3>2. PICK m \in L : /\ multiNodeId'[m] = MASTER_GROUP_ID /\ job'[t] = m
                         /\ slaves'[t] = slaves[t] \cup (L \ {m})
      BY <1>4, <2>1, <2>10
    <3>3. m \in Members(t) /\ slaves'[t] = Members(t) \ {m}
      BY <2>1, <3>1, <3>2
    <3>4. \A a \in Members(t) : state'[a] = "RUNNING"
      BY <1>3, <3>1 DEF Settled
    <3>5. \A a \in Members(t) : Cardinality(executing'[m]) <= Cardinality(executing'[a])
      <4>1. CASE \A a \in L : executing'[a] = {}
        <5>1. Cardinality(executing'[m]) = 0
          BY <3>2, <4>1, FS_EmptySet
        <5>2. \A a \in Members(t) : Cardinality(executing'[a]) >= 0
          <6>1. SUFFICES ASSUME NEW a \in Members(t) PROVE Cardinality(executing'[a]) >= 0
            OBVIOUS
          <6>2. executing'[a] \in SUBSET Workers /\ IsFiniteSet(Workers)
            BY CapacityAssumption, <1>2
          <6>3. IsFiniteSet(executing'[a])
            BY <6>2, FS_Subset
          <6>. QED  BY <6>3, FS_CardinalityType
        <5>. QED  BY <5>1, <5>2
      <4>2. CASE Settled(t) = {} /\ \A a \in L : Cardinality(executing'[a]) = 1
        BY <3>1, <3>2, <4>2
      <4>. QED  BY <1>8, <4>1, <4>2
    <3>6. nextProcessId'[t] = 0 /\ \A a \in Members(t) : multiNodeId'[a] \in 1 .. Size[t]
      BY <1>1, <1>2, <1>4, <2>1, <2>5, <2>10, <3>1
    <3>7. Working(t)'
      BY <2>6, <2>7, <3>1, <3>2, <3>3, <3>4, <3>5, <3>6 DEF Working
    <3>. QED  BY <2>1, <2>8, <3>7
  <2>. QED  BY <1>1, <2>2, <2>9, <2>10
<1>. QED  BY <1>6, <1>7, <1>8, <1>1

\* A plain execution that is launched has its job; one that is not keeps what it had.
LEMMA PlainStep ==
    ASSUME NEW t \in Tasks, PlainOK(t), NEW L \in SUBSET Members(t), Starts(t, L),
           \A a \in L : state'[a] = "RUNNING",
           L = {} /\ job[t] # None => state'[job[t]] = "RUNNING"
    PROVE  PlainOK(t)'
<1>1. slaves'[t] = {} /\ nextProcessId'[t] = 1
  BY DEF PlainOK, Starts
<1>2. CASE L = {}
  <2>1. job'[t] = job[t]
    BY <1>2 DEF Starts
  <2>. QED  BY <1>1, <1>2, <2>1 DEF PlainOK
<1>3. CASE L # {}
  <2>1. job'[t] \in L
    BY <1>3 DEF Starts
  <2>. QED  BY <1>1, <2>1 DEF PlainOK
<1>. QED  BY <1>2, <1>3

\* A step that launches the executions L and tells of the end of others.
Launches(L) ==
    /\ executing' \in [Actions -> SUBSET Workers]
    /\ \A a \in L : state'[a] = "RUNNING" /\ a \notin Settled(TaskOf(a))
    /\ \A a \in Pending' : /\ a \in Pending /\ a \notin L
                           /\ executing'[a] = executing[a] /\ state'[a] = "RUNNING"
    /\ \A a \in Pending : a \notin Pending' /\ a \notin L => state'[a] # "RUNNING"
    /\ \A a \in Actions : a \notin Pending /\ a \notin L =>
          /\ executing'[a] = executing[a]
          /\ state'[a] = state[a] \/ (state'[a] = "WAITING" /\ state[a] # "RUNNING")
    /\ \A t \in Tasks : Forming(t) =>
          \/ \A a \in L \cap Members(t) : executing'[a] = {}
          \/ Settled(t) = {} /\ \A a \in L \cap Members(t) : Cardinality(executing'[a]) = 1

\* Such a step keeps the groups well-formed.
LEMMA LaunchStep ==
    ASSUME GroupInv, NEW L, NEW order, Ordered(order, L), DoAction(order), Launches(L)
    PROVE  /\ GroupsOK'
           /\ \A a \in Pending' : state'[a] = "RUNNING" /\ job'[TaskOf(a)] = None
           /\ multiNodeId' \in [Actions -> Int]
           /\ \A a \in Actions :
                 multiNodeId'[a] \in 1 - Size[TaskOf(a)] .. Size[TaskOf(a)] \cup {UNASSIGNED_ID}
           /\ nextProcessId' \in [Tasks -> Int]
           /\ slaves' \in [Tasks -> SUBSET Actions]
           /\ job' \in [Tasks -> Actions \cup {None}]
<1>1. nextProcessId \in [Tasks -> Int] /\ Types /\ GroupsOK
  BY DEF GroupInv, Types
<1>2. L \subseteq Actions /\ IsFiniteSet(L)
  BY DEF Ordered
<1>3. Pending \subseteq Actions /\ Pending' \subseteq Actions
  BY DEF Pending
<1>4. ASSUME NEW t \in Tasks
      PROVE  Settled(t)' = Settled(t) \cup (L \cap Members(t)) /\ L \cap Members(t) \cap Settled(t) = {}
  <2>1. \A a \in Members(t) : TaskOf(a) = t /\ a \in Actions
    BY GroupFacts
  <2>2. \A a \in Members(t) :
           (state'[a] = "RUNNING" /\ a \notin Pending')
              <=> ((state[a] = "RUNNING" /\ a \notin Pending) \/ a \in L)
    BY <2>1 DEF Launches
  <2>3. \A a \in L : a \in Members(t) => a \notin Settled(t)
    BY <2>1 DEF Launches
  <2>. QED  BY <2>2, <2>3 DEF Settled
<1>5. \A a \in Pending : state[a] = "RUNNING" /\ job[TaskOf(a)] = None
  BY DEF GroupInv, RequestsOK
<1>6. ASSUME NEW t \in Tasks, Multi(t)
      PROVE  /\ Forming(t)' \/ Working(t)' \/ Over(t)'
             /\ \A a \in L \cap Members(t) : multiNodeId'[a] \in 1 - Size[t] .. Size[t]
             /\ \A a \in Members(t) \ L : multiNodeId'[a] = multiNodeId[a]
             /\ slaves'[t] \subseteq Actions /\ job'[t] \in Actions \cup {None}
             /\ nextProcessId'[t] \in Int
             /\ \A a \in Members(t) : a \in Pending' => job'[t] = None
  <2>. DEFINE G == L \cap Members(t)
  <2>1. Forming(t) \/ Working(t) \/ Over(t)
    BY <1>1, <1>6 DEF GroupsOK
  <2>2. Registers(t, G)
    BY <1>1, <1>6, Registered
  <2>3. /\ G \in SUBSET Members(t) /\ G \cap Settled(t) = {}
        /\ Settled(t)' = Settled(t) \cup G /\ nextProcessId[t] \in Int
    BY <1>1, <1>4
  <2>4. \A a \in Members(t) :
              /\ a \in Pending' => a \in Pending /\ executing'[a] = executing[a]
              /\ a \notin Pending \cup G =>
                    /\ executing'[a] = executing[a]
                    /\ state'[a] = state[a] \/ (state'[a] = "WAITING" /\ state[a] # "RUNNING")
    BY GroupFacts DEF Launches
  <2>5. Forming(t) => \/ \A a \in G : executing'[a] = {}
                      \/ Settled(t) = {} /\ \A a \in G : Cardinality(executing'[a]) = 1
    BY DEF Launches
  <2>6. executing' \in [Actions -> SUBSET Workers]
    BY DEF Launches
  <2>. HIDE DEF G
  <2>7. /\ Forming(t)' \/ Working(t)' \/ Over(t)'
        /\ \A a \in G : multiNodeId'[a] \in 1 - Size[t] .. Size[t]
        /\ job[t] = None /\ nextProcessId[t] <= 0 => job'[t] = None
    BY <2>1, <2>2, <2>3, <2>4, <2>5, <2>6, GroupStep
  <2>8. G \subseteq Actions /\ Cardinality(G) \in Nat
    <3>1. IsFiniteSet(G)
      BY <1>2, FS_Subset DEF G
    <3>. QED  BY <1>2, <3>1, FS_CardinalityType DEF G
  <2>9. slaves'[t] \subseteq Actions /\ job'[t] \in Actions \cup {None} /\ nextProcessId'[t] \in Int
    <3>1. slaves[t] \subseteq Actions /\ job[t] \in Actions \cup {None}
      BY <1>1 DEF Types
    <3>. QED  BY <2>2, <2>3, <2>8, <3>1 DEF Registers
  <2>10. ASSUME NEW a \in Members(t), a \in Pending' PROVE job'[t] = None
    <3>1. a \in Pending /\ TaskOf(a) = t
      BY <2>10, GroupFacts DEF Launches
    <3>2. job[t] = None /\ ~ Forming(t)
      BY <1>5, <3>1 DEF Forming
    <3>3. ~ Working(t)
      BY <3>1 DEF Working
    <3>4. nextProcessId[t] <= 0
      BY <2>1, <3>2, <3>3, SettledFacts DEF Over
    <3>. QED  BY <2>7, <3>2, <3>4
  <2>11. \A a \in Members(t) \ L : multiNodeId'[a] = multiNodeId[a]
    BY <2>2 DEF Registers, G
  <2>. QED  BY <2>7, <2>9, <2>10, <2>11 DEF G
<1>7. ASSUME NEW t \in Tasks, ~ Multi(t)
      PROVE  /\ PlainOK(t)'
             /\ \A a \in Members(t) : multiNodeId'[a] = multiNodeId[a]
             /\ slaves'[t] \subseteq Actions /\ job'[t] \in Actions \cup {None}
             /\ nextProcessId'[t] \in Int
             /\ \A a \in Members(t) : a \in Pending' => job'[t] = None
  <2>. DEFINE G == L \cap Members(t)
  <2>1. PlainOK(t) /\ G \in SUBSET Members(t)
    BY <1>1, <1>7 DEF GroupsOK
  <2>2. Starts(t, G)
    BY <1>1, <1>7, Registered
  <2>3. \A a \in G : state'[a] = "RUNNING"
    BY DEF Launches
  <2>4. ASSUME job[t] # None, G = {} PROVE state'[job[t]] = "RUNNING"
    <3>1. job[t] \in Members(t) /\ state[job[t]] = "RUNNING"
      BY <2>1, <2>4 DEF PlainOK
    <3>2. job[t] \notin Pending /\ job[t] \in Actions /\ job[t] \notin L
      BY <1>5, <2>4, <3>1, GroupFacts
    <3>. QED  BY <3>1, <3>2 DEF Launches
  <2>5. PlainOK(t)'
    <3>. HIDE DEF G
    <3>. QED  BY <2>1, <2>2, <2>3, <2>4, PlainStep
  <2>6. ASSUME NEW a \in Members(t), a \in Pending' PROVE job'[t] = None
    <3>1. a \in Pending /\ a \notin L /\ TaskOf(a) = t
      BY <2>6, GroupFacts DEF Launches
    <3>2. Members(t) = {a}
      <4>1. Size[t] = 1
        BY <1>7, GroupFacts DEF Multi
      <4>2. \A b \in Members(t) : b = <<t, 1>>
        BY <4>1, GroupFacts
      <4>. QED  BY <2>6, <4>2
    <3>3. G = {}
      BY <3>1, <3>2
    <3>. QED  BY <1>5, <2>2, <3>1, <3>3 DEF Starts
  <2>7. slaves'[t] \subseteq Actions /\ nextProcessId'[t] \in Int
    BY <2>5 DEF PlainOK
  <2>8. job'[t] \in Actions \cup {None}
    BY <2>5, GroupFacts DEF PlainOK
  <2>. QED  BY <2>2, <2>5, <2>6, <2>7, <2>8 DEF Starts
<1>8. GroupsOK'
  BY <1>6, <1>7 DEF GroupsOK, Multi
<1>9. \A a \in Pending' : state'[a] = "RUNNING" /\ job'[TaskOf(a)] = None
  BY <1>3, <1>6, <1>7, GroupFacts DEF Launches
<1>10. \A a \in Actions : multiNodeId'[a] = multiNodeId[a]
                            \/ multiNodeId'[a] \in 1 - Size[TaskOf(a)] .. Size[TaskOf(a)]
  BY <1>6, <1>7, GroupFacts
<1>11. \A a \in Actions :
          multiNodeId[a] \in 1 - Size[TaskOf(a)] .. Size[TaskOf(a)] \cup {UNASSIGNED_ID}
  BY <1>1 DEF Types
<1>12. \A a \in Actions : /\ multiNodeId'[a] \in 1 - Size[TaskOf(a)] .. Size[TaskOf(a)] \cup {UNASSIGNED_ID}
                          /\ multiNodeId'[a] \in Int
  <2>1. SUFFICES ASSUME NEW a \in Actions
                 PROVE  /\ multiNodeId'[a] \in 1 - Size[TaskOf(a)] .. Size[TaskOf(a)] \cup {UNASSIGNED_ID}
                        /\ multiNodeId'[a] \in Int
    OBVIOUS
  <2>2. Size[TaskOf(a)] \in Int /\ multiNodeId[a] \in Int
    <3>1. multiNodeId \in [Actions -> Int]
      BY <1>1 DEF Types
    <3>2. TaskOf(a) \in Tasks /\ Size[TaskOf(a)] \in Nat
      BY GroupFacts
    <3>. QED  BY <3>1, <3>2
  <2>3. CASE multiNodeId'[a] = multiNodeId[a]
    BY <1>11, <2>2, <2>3
  <2>4. CASE multiNodeId'[a] \in 1 - Size[TaskOf(a)] .. Size[TaskOf(a)]
    BY <2>2, <2>4
  <2>. QED  BY <1>10, <2>3, <2>4
<1>13. /\ multiNodeId' = [a \in Actions |-> multiNodeId'[a]]
       /\ nextProcessId' = [t \in Tasks |-> nextProcessId'[t]]
       /\ slaves' = [t \in Tasks |-> slaves'[t]]
       /\ job' = [t \in Tasks |-> job'[t]]
  BY DEF DoAction
<1>. QED  BY <1>6, <1>7, <1>8, <1>9, <1>12, <1>13

-----------------------------------------------------------------------------
(* Requests *)

\* What is in the queue, and in the hands of the threads that fill it.
LEMMA QueueFacts ==
    ASSUME Types, AskedOnce
    PROVE  /\ Len(tdQueue) \in Nat
           /\ \A i \in 1 .. Len(tdQueue) :
                 /\ tdQueue[i] \in RequestType /\ tdQueue[i].action \in Actions
                 /\ tdQueue[i].action \in Pending
           /\ \A t \in Tasks : /\ callback[t] \in CallbackType
                               /\ callback[t].left \subseteq Members(t) \cap Pending
                               /\ callback[t].master # None =>
                                     callback[t].master \in Members(t) \cap Pending
           /\ Pending \subseteq Actions
<1>1. tdQueue \in Seq(RequestType) /\ callback \in [Tasks -> CallbackType]
  BY DEF Types
<1>2. Len(tdQueue) \in Nat /\ \A i \in 1 .. Len(tdQueue) : tdQueue[i] \in RequestType
  BY <1>1
<1>3. \A i \in 1 .. Len(tdQueue) : tdQueue[i].action \in Actions
  BY <1>2 DEF RequestType
<1>4. \A i \in 1 .. Len(tdQueue) : tdQueue[i].action \in Pending
  BY <1>3 DEF Pending, Asked
<1>5. ASSUME NEW t \in Tasks
      PROVE  /\ callback[t].left \subseteq Members(t) \cap Pending
             /\ callback[t].master # None => callback[t].master \in Members(t) \cap Pending
  <2>1. callback[t].left \subseteq Members(t) /\ callback[t].master \in Members(t) \cup {None}
    BY DEF AskedOnce
  <2>. QED  BY <2>1, GroupFacts DEF Pending, Asked
<1>. QED  BY <1>1, <1>2, <1>3, <1>4, <1>5 DEF Pending

\* When neither the queue nor the threads move.
LEMMA SameRequests ==
    ASSUME AskedOnce, tdQueue' = tdQueue, callback' = callback
    PROVE  AskedOnce' /\ Pending' = Pending
BY DEF AskedOnce, Pending, Asked

\* When nothing but the place of the requests changes.
LEMMA SameGroups ==
    ASSUME GroupsOK, Pending' = Pending, state' = state, executing' = executing, job' = job,
           multiNodeId' = multiNodeId, nextProcessId' = nextProcessId, slaves' = slaves
    PROVE  GroupsOK'
<1>1. \A t \in Tasks : Settled(t)' = Settled(t)
  BY DEF Settled
<1>2. \A t \in Tasks : (Forming(t) => Forming(t)') /\ (Working(t) => Working(t)')
                         /\ (Over(t) => Over(t)') /\ (PlainOK(t) => PlainOK(t)')
  BY <1>1 DEF Forming, Working, Over, PlainOK
<1>. QED  BY <1>2 DEF GroupsOK, Multi

\* The TD takes the first request of its queue.
LEMMA TreatsStep ==
    ASSUME Types, AskedOnce, NEW kind, Treats(kind), callback' = callback
    PROVE  /\ Len(tdQueue) \in Nat /\ Len(tdQueue) > 0 /\ Len(tdQueue') = Len(tdQueue) - 1
           /\ Head(tdQueue) = tdQueue[1] /\ Head(tdQueue).kind = kind
           /\ \A i \in 1 .. Len(tdQueue') : i + 1 \in 1 .. Len(tdQueue) /\ tdQueue'[i] = tdQueue[i + 1]
           /\ tdQueue' \in Seq(RequestType) /\ AskedOnce'
           /\ Head(tdQueue).action \in Pending
           /\ Pending' = Pending \ {Head(tdQueue).action}
<1>1. tdQueue \in Seq(RequestType) /\ tdQueue # << >> /\ tdQueue' = Tail(tdQueue)
  BY DEF Types, Treats
<1>2. /\ Len(tdQueue) \in Nat /\ Len(tdQueue) > 0 /\ Len(tdQueue') = Len(tdQueue) - 1
      /\ Head(tdQueue) = tdQueue[1] /\ tdQueue' \in Seq(RequestType)
      /\ \A i \in 1 .. Len(tdQueue') : i + 1 \in 1 .. Len(tdQueue) /\ tdQueue'[i] = tdQueue[i + 1]
  BY <1>1
<1>. DEFINE a == tdQueue[1].action
<1>3. a \in Pending
  BY <1>2, QueueFacts
<1>4. \A i \in 1 .. Len(tdQueue') : tdQueue'[i].action # a
  <2>1. SUFFICES ASSUME NEW i \in 1 .. Len(tdQueue'), tdQueue[i + 1].action = a PROVE FALSE
    BY <1>2
  <2>2. i + 1 \in 1 .. Len(tdQueue) /\ 1 \in 1 .. Len(tdQueue) /\ i + 1 # 1
    BY <1>2
  <2>. QED  BY <2>1, <2>2 DEF AskedOnce
<1>5. a \notin callback[TaskOf(a)].left /\ callback[TaskOf(a)].master # a
  BY <1>2 DEF AskedOnce
<1>6. \A b \in Actions : (\E i \in 1 .. Len(tdQueue) : tdQueue[i].action = b)
         <=> (b = a \/ \E i \in 1 .. Len(tdQueue') : tdQueue'[i].action = b)
  <2>1. SUFFICES ASSUME NEW b \in Actions
                 PROVE  (\E i \in 1 .. Len(tdQueue) : tdQueue[i].action = b)
                          <=> (b = a \/ \E i \in 1 .. Len(tdQueue') : tdQueue'[i].action = b)
    OBVIOUS
  <2>2. ASSUME NEW i \in 1 .. Len(tdQueue), tdQueue[i].action = b
        PROVE  b = a \/ \E j \in 1 .. Len(tdQueue') : tdQueue'[j].action = b
    <3>1. CASE i = 1
      BY <2>2, <3>1
    <3>2. CASE i # 1
      <4>1. i - 1 \in 1 .. Len(tdQueue') /\ i - 1 + 1 = i
        BY <1>2, <3>2
      <4>. QED  BY <1>2, <2>2, <4>1
    <3>. QED  BY <3>1, <3>2
  <2>3. 1 \in 1 .. Len(tdQueue)
    BY <1>2
  <2>. QED  BY <1>2, <2>2, <2>3
<1>7. Pending' = Pending \ {a}
  <2>1. \A b \in Actions : Asked(b)' <=> Asked(b) /\ b # a
    BY <1>4, <1>5, <1>6 DEF Asked
  <2>. QED  BY <2>1 DEF Pending
<1>8. AskedOnce'
  <2>1. \A i, j \in 1 .. Len(tdQueue') : tdQueue'[i].action = tdQueue'[j].action => i = j
    <3>1. SUFFICES ASSUME NEW i \in 1 .. Len(tdQueue'), NEW j \in 1 .. Len(tdQueue'),
                          tdQueue'[i].action = tdQueue'[j].action
                   PROVE  i = j
      OBVIOUS
    <3>2. i + 1 \in 1 .. Len(tdQueue) /\ j + 1 \in 1 .. Len(tdQueue)
          /\ tdQueue[i + 1].action = tdQueue[j + 1].action
      BY <1>2, <3>1
    <3>3. i + 1 = j + 1
      BY <3>2 DEF AskedOnce
    <3>. QED  BY <1>2, <3>3
  <2>2. \A i \in 1 .. Len(tdQueue') :
           LET c == callback'[TaskOf(tdQueue'[i].action)]
           IN  tdQueue'[i].action \notin c.left /\ tdQueue'[i].action # c.master
    BY <1>2 DEF AskedOnce
  <2>. QED  BY <2>1, <2>2 DEF AskedOnce
<1>. QED  BY <1>2, <1>3, <1>7, <1>8 DEF Treats

\* A thread adds the request of s, of which it has not told before.
LEMMA TellsStep ==
    ASSUME Types, AskedOnce, NEW t \in Tasks, NEW s \in Members(t), NEW c \in CallbackType,
           \/ s \in callback[t].left /\ c = [callback[t] EXCEPT !.left = @ \ {s}]
           \/ callback[t].left = {} /\ s = callback[t].master /\ c = NoCallback,
           tdQueue' = Append(tdQueue, [kind |-> callback[t].kind, action |-> s]),
           callback[t].kind # "none", callback' = [callback EXCEPT ![t] = c]
    PROVE  /\ Len(tdQueue) \in Nat /\ Len(tdQueue') = Len(tdQueue) + 1
           /\ \A i \in 1 .. Len(tdQueue) : tdQueue'[i] = tdQueue[i]
           /\ tdQueue'[Len(tdQueue) + 1] = [kind |-> callback[t].kind, action |-> s]
           /\ tdQueue' \in Seq(RequestType) /\ callback' \in [Tasks -> CallbackType]
           /\ AskedOnce' /\ Pending' = Pending
<1>. DEFINE q == [kind |-> callback[t].kind, action |-> s]
            n == Len(tdQueue)
<1>1. /\ callback \in [Tasks -> CallbackType] /\ tdQueue \in Seq(RequestType)
      /\ s \in Actions /\ TaskOf(s) = t /\ s # None
  BY GroupFacts DEF Types
<1>2. q \in RequestType
  BY <1>1 DEF RequestType, CallbackType
<1>3. /\ n \in Nat /\ Len(tdQueue') = n + 1 /\ \A i \in 1 .. n : tdQueue'[i] = tdQueue[i]
      /\ tdQueue'[n + 1] = q /\ tdQueue' \in Seq(RequestType)
  BY <1>1, <1>2
<1>4. /\ \A u \in Tasks : u # t => callback'[u] = callback[u]
      /\ callback'[t] = c /\ callback' \in [Tasks -> CallbackType]
  BY <1>1
<1>5. /\ c.left = callback[t].left \ {s} /\ s \notin c.left /\ s # c.master
      /\ \/ c.master = callback[t].master /\ s # callback[t].master
         \/ c.master = None /\ s = callback[t].master
      /\ callback[t].left \subseteq Members(t) /\ callback[t].master \in Members(t) \cup {None}
      /\ c.master = None => c.left = {}
      /\ c.kind = callback[t].kind \/ c.master = None
  <2>1. /\ callback[t].left \subseteq Members(t) /\ callback[t].master \in Members(t) \cup {None}
        /\ callback[t].master \notin callback[t].left
        /\ callback[t].master = None => callback[t].left = {}
    BY DEF AskedOnce
  <2>2. CASE s \in callback[t].left /\ c = [callback[t] EXCEPT !.left = @ \ {s}]
    <3>1. /\ c.left = callback[t].left \ {s} /\ c.master = callback[t].master
          /\ c.kind = callback[t].kind
      BY <1>1, <2>2 DEF CallbackType
    <3>. QED  BY <2>1, <2>2, <3>1
  <2>3. CASE callback[t].left = {} /\ s = callback[t].master /\ c = NoCallback
    <3>1. c.left = {} /\ c.master = None
      BY <2>3 DEF NoCallback
    <3>. QED  BY <1>1, <2>1, <2>3, <3>1
  <2>. QED  BY <2>2, <2>3
<1>6. \A i \in 1 .. n : tdQueue[i].action # s /\ tdQueue[i].action \in Actions
  <2>1. s \in callback[t].left \/ s = callback[t].master
    BY <1>5
  <2>. QED  BY <1>1, <2>1, QueueFacts DEF AskedOnce
<1>. HIDE DEF n
<1>7. \A b \in Actions : (\E i \in 1 .. Len(tdQueue') : tdQueue'[i].action = b)
                           <=> (b = s \/ \E i \in 1 .. n : tdQueue[i].action = b)
  <2>1. SUFFICES ASSUME NEW b \in Actions
                 PROVE  (\E i \in 1 .. Len(tdQueue') : tdQueue'[i].action = b)
                           <=> (b = s \/ \E i \in 1 .. n : tdQueue[i].action = b)
    OBVIOUS
  <2>2. n + 1 \in 1 .. Len(tdQueue') /\ tdQueue'[n + 1].action = s
    BY <1>3
  <2>3. \A i \in 1 .. n : i \in 1 .. Len(tdQueue') /\ tdQueue'[i].action = tdQueue[i].action
    BY <1>3
  <2>4. \A i \in 1 .. Len(tdQueue') : i \in 1 .. n \/ i = n + 1
    BY <1>3
  <2>. QED  BY <2>2, <2>3, <2>4
<1>8. Pending' = Pending
  <2>1. ASSUME NEW b \in Actions PROVE Asked(b)' <=> Asked(b)
    <3>. DEFINE u == TaskOf(b)
    <3>1. (\E i \in 1 .. Len(tdQueue') : tdQueue'[i].action = b)
             <=> (b = s \/ \E i \in 1 .. Len(tdQueue) : tdQueue[i].action = b)
      BY <1>7 DEF n
    <3>2. CASE b = s
      <4>1. s \in callback[t].left \/ s = callback[t].master
        BY <1>5
      <4>. QED  BY <1>1, <3>1, <3>2, <4>1 DEF Asked
    <3>3. CASE b # s
      <4>1. b \in callback'[u].left <=> b \in callback[u].left
        BY <1>4, <1>5, <3>3, GroupFacts
      <4>2. callback'[u].master = b <=> callback[u].master = b
        BY <1>1, <1>4, <1>5, <3>3, GroupFacts
      <4>. QED  BY <3>1, <3>3, <4>1, <4>2 DEF Asked
    <3>. QED  BY <3>2, <3>3
  <2>. QED  BY <2>1 DEF Pending
<1>9. AskedOnce'
  <2>1. \A u \in Tasks : /\ callback'[u].left \subseteq Members(u)
                         /\ callback'[u].master \in Members(u) \cup {None}
                         /\ callback'[u].master \notin callback'[u].left
                         /\ callback'[u].master = None => callback'[u].left = {}
                         /\ callback'[u].kind = "none" => callback'[u].master = None
    <3>1. SUFFICES ASSUME NEW u \in Tasks
                   PROVE  /\ callback'[u].left \subseteq Members(u)
                          /\ callback'[u].master \in Members(u) \cup {None}
                          /\ callback'[u].master \notin callback'[u].left
                          /\ callback'[u].master = None => callback'[u].left = {}
                          /\ callback'[u].kind = "none" => callback'[u].master = None
      OBVIOUS
    <3>2. /\ callback[u].left \subseteq Members(u)
          /\ callback[u].master \in Members(u) \cup {None}
          /\ callback[u].master \notin callback[u].left
          /\ callback[u].master = None => callback[u].left = {}
          /\ callback[u].kind = "none" => callback[u].master = None
      BY DEF AskedOnce
    <3>3. CASE u # t
      BY <1>4, <3>2, <3>3
    <3>4. CASE u = t
      <4>1. c.left \subseteq Members(t) /\ c.master \in Members(t) \cup {None}
            /\ (c.master = None => c.left = {}) /\ (c.kind = "none" => c.master = None)
        BY <1>5
      <4>2. c.master \notin c.left
        <5>1. CASE c.master = None
          BY <1>5, <5>1
        <5>2. CASE c.master # None
          BY <1>5, <3>2, <3>4, <5>2
        <5>. QED  BY <5>1, <5>2
      <4>. QED  BY <1>4, <3>4, <4>1, <4>2
    <3>. QED  BY <3>3, <3>4
  <2>2. \A i \in 1 .. Len(tdQueue') : \/ i \in 1 .. n /\ tdQueue'[i] = tdQueue[i]
                                      \/ i = n + 1 /\ tdQueue'[i].action = s
    BY <1>3
  <2>3. \A i, j \in 1 .. n : tdQueue[i].action = tdQueue[j].action => i = j
    BY DEF AskedOnce, n
  <2>4. \A i, j \in 1 .. Len(tdQueue') : tdQueue'[i].action = tdQueue'[j].action => i = j
    BY <1>6, <2>2, <2>3
  <2>5. ASSUME NEW b \in Actions, b = s \/ \E i \in 1 .. Len(tdQueue) : tdQueue[i].action = b
        PROVE  b \notin callback'[TaskOf(b)].left /\ b # callback'[TaskOf(b)].master
    <3>1. CASE b = s
      BY <1>1, <1>4, <1>5, <3>1
    <3>2. CASE b # s
      <4>1. b \notin callback[TaskOf(b)].left /\ b # callback[TaskOf(b)].master
        BY <2>5, <3>2 DEF AskedOnce
      <4>. QED  BY <1>1, <1>4, <1>5, <4>1, GroupFacts
    <3>. QED  BY <3>1, <3>2
  <2>6. \A i \in 1 .. Len(tdQueue') :
           LET d == callback'[TaskOf(tdQueue'[i].action)]
           IN  tdQueue'[i].action \notin d.left /\ tdQueue'[i].action # d.master
    BY <1>1, <1>6, <2>2, <2>5 DEF n
  <2>. QED  BY <2>1, <2>4, <2>6 DEF AskedOnce
<1>. QED  BY <1>3, <1>4, <1>8, <1>9 DEF n

-----------------------------------------------------------------------------
(* The steps *)

\* What the invariant says of the tasks whose job runs.
LEMMA JobFacts ==
    ASSUME GroupInv, NEW t \in Tasks, job[t] # None
    PROVE  /\ job[t] \in Members(t) /\ state[job[t]] = "RUNNING"
           /\ slaves[t] = Members(t) \ {job[t]}
           /\ \A a \in Members(t) : state[a] = "RUNNING" /\ a \notin Pending
           /\ callback[t].left = {} /\ callback[t].master = None
           /\ Multi(t) => Working(t)
<1>1. \A a \in Members(t) : a \notin Pending
  BY GroupFacts DEF GroupInv, RequestsOK
<1>2. callback[t].left = {} /\ callback[t].master = None
  BY <1>1, QueueFacts DEF GroupInv, RequestsOK
<1>3. CASE Multi(t)
  <2>1. Working(t)
    BY <1>3 DEF GroupInv, GroupsOK, Forming, Over
  <2>. QED  BY <1>1, <1>2, <2>1 DEF Working
<1>4. CASE ~ Multi(t)
  <2>1. slaves[t] = {} /\ job[t] \in Members(t) /\ state[job[t]] = "RUNNING"
    BY <1>4 DEF GroupInv, GroupsOK, PlainOK
  <2>2. Members(t) = {job[t]}
    <3>1. Size[t] = 1
      BY <1>4, GroupFacts DEF Multi
    <3>2. \A b \in Members(t) : b = <<t, 1>>
      BY <3>1, GroupFacts
    <3>. QED  BY <2>1, <3>2
  <2>. QED  BY <1>1, <1>2, <1>4, <2>1, <2>2
<1>. QED  BY <1>3, <1>4

\* The end of a job.
LEMMA JobEndStep ==
    ASSUME GroupInv, NEW t \in Tasks, NEW kind \in {"COMPLETED", "ERROR"}, job[t] # None,
           EndOfJob(t, kind), job' = [job EXCEPT ![t] = None],
           UNCHANGED <<schedVars, groupVars, taskVars, ended, halted>>,
           errors' \in 0 .. MaxErrors, erred' \in SUBSET Tasks
    PROVE  GroupInv' /\ Pending' = Pending \cup Members(t)
<1>. DEFINE m == job[t]
<1>1. /\ m \in Members(t) /\ slaves[t] = Members(t) \ {m}
      /\ \A a \in Members(t) : state[a] = "RUNNING" /\ a \notin Pending
      /\ callback[t].left = {} /\ callback[t].master = None
      /\ Multi(t) => Working(t)
  BY JobFacts
<1>2. /\ state' = state /\ resource' = resource /\ executing' = executing /\ free' = free
      /\ waiting' = waiting /\ multiNodeId' = multiNodeId /\ nextProcessId' = nextProcessId
      /\ slaves' = slaves /\ status' = status /\ executionCount' = executionCount
      /\ notices' = notices /\ ended' = ended /\ halted' = halted /\ tdQueue' = tdQueue
  BY DEF schedVars, groupVars, taskVars, EndOfJob
<1>3. callback \in [Tasks -> CallbackType] /\ job \in [Tasks -> Actions \cup {None}]
  BY DEF GroupInv, Types
<1>4. /\ \A u \in Tasks : u # t => callback'[u] = callback[u] /\ job'[u] = job[u]
      /\ callback'[t] = [kind |-> kind, left |-> slaves[t], master |-> m] /\ job'[t] = None
  BY <1>3 DEF EndOfJob
<1>5. [kind |-> kind, left |-> slaves[t], master |-> m] \in CallbackType
  BY <1>1, GroupFacts DEF CallbackType
<1>6. Types'
  <2>1. callback' \in [Tasks -> CallbackType]
    BY <1>3, <1>5 DEF EndOfJob
  <2>2. job' \in [Tasks -> Actions \cup {None}]
    BY <1>3
  <2>. QED  BY <1>2, <2>1, <2>2 DEF GroupInv, Types, CallbackType, RequestType
<1>7. PlacesOK' /\ CountsOK'
  BY <1>2 DEF GroupInv, PlacesOK, CountsOK, Left
<1>8. \A i \in 1 .. Len(tdQueue) : /\ tdQueue[i].action \in Actions /\ tdQueue[i].action \in Pending
                                   /\ TaskOf(tdQueue[i].action) \in Tasks
                                   /\ TaskOf(tdQueue[i].action) # t
  <2>1. \A i \in 1 .. Len(tdQueue) : tdQueue[i].action \in Actions /\ tdQueue[i].action \in Pending
    BY QueueFacts DEF GroupInv, RequestsOK
  <2>. QED  BY <1>1, <2>1, GroupFacts
<1>9. AskedOnce'
  <2>1. AskedOnce
    BY DEF GroupInv, RequestsOK
  <2>2. \A u \in Tasks : /\ callback'[u].left \subseteq Members(u)
                         /\ callback'[u].master \in Members(u) \cup {None}
                         /\ callback'[u].master \notin callback'[u].left
                         /\ callback'[u].master = None => callback'[u].left = {}
                         /\ callback'[u].kind = "none" => callback'[u].master = None
    BY <1>1, <1>4, <2>1, GroupFacts DEF AskedOnce
  <2>3. \A i \in 1 .. Len(tdQueue) :
           LET c == callback'[TaskOf(tdQueue[i].action)]
           IN  tdQueue[i].action \notin c.left /\ tdQueue[i].action # c.master
    BY <1>4, <1>8, <2>1 DEF AskedOnce
  <2>. QED  BY <1>2, <2>1, <2>2, <2>3 DEF AskedOnce
<1>10. Pending' = Pending \cup Members(t)
  <2>1. ASSUME NEW a \in Actions, TaskOf(a) # t PROVE Asked(a)' <=> Asked(a)
    BY <1>2, <1>4, <2>1, GroupFacts DEF Asked
  <2>2. ASSUME NEW a \in Members(t) PROVE Asked(a)'
    <3>1. TaskOf(a) = t /\ (a \in slaves[t] \/ a = m)
      BY <1>1, GroupFacts
    <3>. QED  BY <1>4, <3>1 DEF Asked
  <2>. QED  BY <2>1, <2>2, GroupFacts DEF Pending, Members
<1>11. RequestsOK'
  <2>1. \A a \in Pending : state[a] = "RUNNING" /\ job[TaskOf(a)] = None
    BY DEF GroupInv, RequestsOK
  <2>2. \A a \in Pending : TaskOf(a) \in Tasks
    BY GroupFacts DEF Pending
  <2>3. \A a \in Pending' : state'[a] = "RUNNING" /\ job'[TaskOf(a)] = None
    BY <1>1, <1>2, <1>4, <1>10, <2>1, <2>2, GroupFacts
  <2>. QED  BY <1>9, <2>3 DEF RequestsOK
<1>12. GroupsOK'
  <2>1. ASSUME NEW u \in Tasks, u # t
        PROVE  IF Multi(u) THEN Forming(u)' \/ Working(u)' \/ Over(u)' ELSE PlainOK(u)'
    <3>1. \A a \in Members(u) : a \in Pending' <=> a \in Pending
      BY <1>10, <2>1, GroupFacts
    <3>2. Settled(u)' = Settled(u)
      BY <1>2, <3>1 DEF Settled
    <3>3. IF Multi(u) THEN Forming(u) \/ Working(u) \/ Over(u) ELSE PlainOK(u)
      BY DEF GroupInv, GroupsOK
    <3>4. Forming(u) => Forming(u)'
      BY <1>2, <1>4, <2>1, <3>1, <3>2 DEF Forming
    <3>5. Working(u) => Working(u)'
      BY <1>2, <1>4, <2>1, <3>1, <3>2 DEF Working
    <3>6. Over(u) => Over(u)'
      BY <1>2, <1>4, <2>1, <3>1, <3>2 DEF Over
    <3>7. PlainOK(u) => PlainOK(u)'
      BY <1>2, <1>4, <2>1 DEF PlainOK
    <3>. QED  BY <3>3, <3>4, <3>5, <3>6, <3>7
  <2>2. ASSUME Multi(t) PROVE Over(t)'
    <3>1. Working(t)
      BY <1>1, <2>2
    <3>2. Settled(t)' = {}
      BY <1>10 DEF Settled
    <3>3. nextProcessId'[t] = 0 /\ Cardinality(Settled(t)') = 0
      BY <1>2, <3>1, <3>2, FS_EmptySet DEF Working
    <3>. QED  BY <1>2, <1>4, <3>1, <3>3 DEF Over, Working
  <2>3. ASSUME ~ Multi(t) PROVE PlainOK(t)'
    BY <1>2, <1>4, <2>3 DEF GroupInv, GroupsOK, PlainOK
  <2>. QED  BY <2>1, <2>2, <2>3 DEF GroupsOK, Multi
<1>. QED  BY <1>6, <1>7, <1>10, <1>11, <1>12 DEF GroupInv

\* The two outcomes of NotifySlave: a slave is told, or a retry cuts the thread short.
TellSlave(t) ==
    \E s \in callback[t].left :
        /\ tdQueue' = Append(tdQueue, [kind |-> callback[t].kind, action |-> s])
        /\ callback' = [callback EXCEPT ![t].left = @ \ {s}]
        /\ UNCHANGED <<schedVars, groupVars, taskVars, job, ended, halted, errors, erred>>

NotificationCut(t) ==
    /\ callback[t].left # {}
    /\ nextProcessId[t] < 0
    /\ callback' = [callback EXCEPT ![t] = NoCallback]
    /\ UNCHANGED <<schedVars, groupVars, taskVars, job, tdQueue, ended, halted, errors, erred>>

\* NotifySlave has no other outcome: the thread is cut short only when an execution has
\* registered after the group was complete.
LEMMA SlaveCases ==
    ASSUME NEW t \in Tasks, NotifySlave(t)
    PROVE  TellSlave(t) \/ NotificationCut(t)
<1>1. PICK s \in callback[t].left, cut \in MayBeCut(t) :
         /\ tdQueue' = IF cut THEN tdQueue
                       ELSE Append(tdQueue, [kind |-> callback[t].kind, action |-> s])
         /\ callback' = IF cut THEN [callback EXCEPT ![t] = NoCallback]
                        ELSE [callback EXCEPT ![t].left = @ \ {s}]
         /\ UNCHANGED <<schedVars, groupVars, taskVars, job, ended, halted, errors, erred>>
  BY DEF NotifySlave
<1>2. CASE cut = TRUE
  <2>1. nextProcessId[t] < 0
    BY <1>2 DEF MayBeCut
  <2>2. tdQueue' = tdQueue /\ callback' = [callback EXCEPT ![t] = NoCallback]
    BY <1>1, <1>2
  <2>. QED  BY <1>1, <2>1, <2>2 DEF NotificationCut
<1>3. CASE cut = FALSE
  BY <1>1, <1>3 DEF TellSlave
<1>. QED  BY <1>2, <1>3 DEF MayBeCut

\* What the thread that is told of the end of a job adds to the queue.
LEMMA NotifyFacts ==
    ASSUME GroupInv, NEW t \in Tasks, TellSlave(t) \/ NotifyMaster(t)
    PROVE  \E s \in Members(t) \cap Pending :
              /\ Len(tdQueue) \in Nat /\ Len(tdQueue') = Len(tdQueue) + 1
              /\ \A i \in 1 .. Len(tdQueue) : tdQueue'[i] = tdQueue[i]
              /\ tdQueue'[Len(tdQueue) + 1] = [kind |-> callback[t].kind, action |-> s]
              /\ tdQueue' \in Seq(RequestType) /\ callback' \in [Tasks -> CallbackType]
              /\ AskedOnce' /\ Pending' = Pending
              /\ \A u \in Tasks : u # t => callback'[u] = callback[u]
              /\ callback'[t].kind = callback[t].kind \/ callback'[t] = NoCallback
              /\ \/ /\ s \in callback[t].left /\ callback'[t].left = callback[t].left \ {s}
                    /\ callback'[t].master = callback[t].master
                 \/ callback[t].left = {} /\ s = callback[t].master /\ callback'[t] = NoCallback
<1>1. Types /\ AskedOnce /\ callback \in [Tasks -> CallbackType]
  BY DEF GroupInv, RequestsOK, Types
<1>2. callback[t] \in CallbackType /\ NoCallback \in CallbackType
  BY <1>1 DEF CallbackType, NoCallback
<1>3. callback[t].master # None => callback[t].kind # "none"
  BY <1>1 DEF AskedOnce
<1>4. CASE TellSlave(t)
  <2>1. PICK s \in callback[t].left :
           /\ tdQueue' = Append(tdQueue, [kind |-> callback[t].kind, action |-> s])
           /\ callback' = [callback EXCEPT ![t].left = @ \ {s}]
    BY <1>4 DEF TellSlave
  <2>. DEFINE c == [callback[t] EXCEPT !.left = @ \ {s}]
  <2>2. s \in Members(t) \cap Pending /\ callback[t].kind # "none"
    BY <1>1, <1>3, QueueFacts DEF AskedOnce
  <2>3. c \in CallbackType /\ c.left = callback[t].left \ {s} /\ c.master = callback[t].master
        /\ c.kind = callback[t].kind
    BY <1>2 DEF CallbackType
  <2>4. callback' = [callback EXCEPT ![t] = c]
    BY <2>1
  <2>5. callback'[t] = c /\ \A u \in Tasks : u # t => callback'[u] = callback[u]
    BY <1>1, <2>4
  <2>6. c = [callback[t] EXCEPT !.left = @ \ {s}]
    OBVIOUS
  <2>. HIDE DEF c
  <2>7. /\ Len(tdQueue) \in Nat /\ Len(tdQueue') = Len(tdQueue) + 1
        /\ \A i \in 1 .. Len(tdQueue) : tdQueue'[i] = tdQueue[i]
        /\ tdQueue'[Len(tdQueue) + 1] = [kind |-> callback[t].kind, action |-> s]
        /\ tdQueue' \in Seq(RequestType) /\ callback' \in [Tasks -> CallbackType]
        /\ AskedOnce' /\ Pending' = Pending
    BY <1>1, <2>1, <2>2, <2>3, <2>4, <2>6, TellsStep
  <2>. QED  BY <2>1, <2>2, <2>3, <2>5, <2>7
<1>5. CASE NotifyMaster(t)
  <2>. DEFINE s == callback[t].master
  <2>1. /\ callback[t].left = {} /\ s # None
        /\ tdQueue' = Append(tdQueue, [kind |-> callback[t].kind, action |-> s])
        /\ callback' = [callback EXCEPT ![t] = NoCallback]
    BY <1>5 DEF NotifyMaster
  <2>2. s \in Members(t) \cap Pending /\ callback[t].kind # "none"
    BY <1>1, <1>3, <2>1, QueueFacts
  <2>3. callback'[t] = NoCallback /\ \A u \in Tasks : u # t => callback'[u] = callback[u]
    BY <1>1, <2>1
  <2>4. s = callback[t].master
    OBVIOUS
  <2>. HIDE DEF s
  <2>5. /\ Len(tdQueue) \in Nat /\ Len(tdQueue') = Len(tdQueue) + 1
        /\ \A i \in 1 .. Len(tdQueue) : tdQueue'[i] = tdQueue[i]
        /\ tdQueue'[Len(tdQueue) + 1] = [kind |-> callback[t].kind, action |-> s]
        /\ tdQueue' \in Seq(RequestType) /\ callback' \in [Tasks -> CallbackType]
        /\ AskedOnce' /\ Pending' = Pending
    BY <1>1, <1>2, <2>1, <2>2, <2>4, TellsStep
  <2>. QED  BY <2>1, <2>2, <2>3, <2>4, <2>5
<1>. QED  BY <1>4, <1>5

\* A thread tells of the end of one more execution.
LEMMA NotifyStep ==
    ASSUME GroupInv, NEW t \in Tasks, TellSlave(t) \/ NotifyMaster(t)
    PROVE  GroupInv'
<1>1. /\ state' = state /\ resource' = resource /\ executing' = executing /\ free' = free
      /\ waiting' = waiting /\ multiNodeId' = multiNodeId /\ nextProcessId' = nextProcessId
      /\ slaves' = slaves /\ status' = status /\ executionCount' = executionCount
      /\ notices' = notices /\ ended' = ended /\ halted' = halted /\ job' = job
      /\ errors' = errors /\ erred' = erred
  BY DEF schedVars, groupVars, taskVars, TellSlave, NotifyMaster
<1>2. tdQueue' \in Seq(RequestType) /\ callback' \in [Tasks -> CallbackType] /\ AskedOnce' /\ Pending' = Pending
  BY NotifyFacts
<1>3. Types'
  BY <1>1, <1>2 DEF GroupInv, Types, CallbackType, RequestType
<1>4. PlacesOK' /\ CountsOK'
  BY <1>1 DEF GroupInv, PlacesOK, CountsOK, Left
<1>5. RequestsOK'
  BY <1>1, <1>2 DEF GroupInv, RequestsOK
<1>6. GroupsOK'
  BY <1>1, <1>2, SameGroups DEF GroupInv
<1>. QED  BY <1>3, <1>4, <1>5, <1>6 DEF GroupInv

\* What the thread leaves when a retry cuts it short: what it has not told of the end of the
\* job is not told any more, and runs.
LEMMA CutFacts ==
    ASSUME GroupInv, NEW t \in Tasks, NotificationCut(t)
    PROVE  /\ callback'[t] = NoCallback /\ \A u \in Tasks : u # t => callback'[u] = callback[u]
           /\ callback' \in [Tasks -> CallbackType] /\ AskedOnce'
           /\ Pending' \subseteq Pending /\ Over(t) /\ Multi(t)
           /\ \A a \in Actions : TaskOf(a) # t => (a \in Pending' <=> a \in Pending)
<1>1. Types /\ AskedOnce /\ callback \in [Tasks -> CallbackType]
  BY DEF GroupInv, RequestsOK, Types
<1>2. callback[t].left # {} /\ nextProcessId[t] < 0 /\ tdQueue' = tdQueue
  BY DEF NotificationCut
<1>3. callback' = [callback EXCEPT ![t] = NoCallback]
  BY DEF NotificationCut
<1>4. NoCallback \in CallbackType /\ NoCallback.left = {} /\ NoCallback.master = None
  BY DEF CallbackType, NoCallback
<1>5. callback'[t] = NoCallback /\ \A u \in Tasks : u # t => callback'[u] = callback[u]
  BY <1>1, <1>3
<1>6. callback' \in [Tasks -> CallbackType]
  BY <1>1, <1>3, <1>4
<1>7. \A i \in 1 .. Len(tdQueue) : tdQueue[i].action \in Actions /\ TaskOf(tdQueue[i].action) \in Tasks
  BY <1>1, QueueFacts, GroupFacts
<1>8. AskedOnce'
  <2>1. \A u \in Tasks : /\ callback'[u].left \subseteq Members(u)
                         /\ callback'[u].master \in Members(u) \cup {None}
                         /\ callback'[u].master \notin callback'[u].left
                         /\ callback'[u].master = None => callback'[u].left = {}
                         /\ callback'[u].kind = "none" => callback'[u].master = None
    BY <1>1, <1>4, <1>5 DEF AskedOnce
  <2>2. \A i \in 1 .. Len(tdQueue) :
           LET c == callback'[TaskOf(tdQueue[i].action)]
           IN  tdQueue[i].action \notin c.left /\ tdQueue[i].action # c.master
    <3>1. \A a \in Actions : a # None
      BY GroupFacts
    <3>. QED  BY <1>1, <1>4, <1>5, <1>7, <3>1 DEF AskedOnce
  <2>. QED  BY <1>1, <1>2, <2>1, <2>2 DEF AskedOnce
<1>9. ASSUME NEW a \in Actions, TaskOf(a) # t PROVE a \in Pending' <=> a \in Pending
  BY <1>2, <1>5, <1>9, GroupFacts DEF Pending, Asked
<1>10. ASSUME NEW a \in Actions, TaskOf(a) = t, a \in Pending' PROVE a \in Pending
  BY <1>2, <1>4, <1>5, <1>10, GroupFacts DEF Pending, Asked
<1>11. Pending' \subseteq Pending
  BY <1>9, <1>10 DEF Pending
<1>12. Multi(t) /\ Over(t)
  <2>1. PICK s \in callback[t].left : s \in Members(t) \cap Pending
    BY <1>1, <1>2, QueueFacts
  <2>2. ~ PlainOK(t) /\ ~ Forming(t) /\ ~ Working(t)
    BY <1>2, <2>1 DEF PlainOK, Forming, Working
  <2>. QED  BY <2>2 DEF GroupInv, GroupsOK
<1>. QED  BY <1>5, <1>6, <1>8, <1>9, <1>11, <1>12

\* A thread that is cut short keeps the groups well-formed.
LEMMA CutStep ==
    ASSUME GroupInv, NEW t \in Tasks, NotificationCut(t)
    PROVE  GroupInv'
<1>1. /\ state' = state /\ resource' = resource /\ executing' = executing /\ free' = free
      /\ waiting' = waiting /\ multiNodeId' = multiNodeId /\ nextProcessId' = nextProcessId
      /\ slaves' = slaves /\ status' = status /\ executionCount' = executionCount
      /\ notices' = notices /\ ended' = ended /\ halted' = halted /\ job' = job
      /\ errors' = errors /\ erred' = erred /\ tdQueue' = tdQueue
  BY DEF schedVars, groupVars, taskVars, NotificationCut
<1>2. /\ callback' \in [Tasks -> CallbackType] /\ AskedOnce'
      /\ Pending' \subseteq Pending /\ Over(t) /\ Multi(t)
      /\ \A a \in Actions : TaskOf(a) # t => (a \in Pending' <=> a \in Pending)
  BY CutFacts
<1>3. Types'
  BY <1>1, <1>2 DEF GroupInv, Types, CallbackType, RequestType
<1>4. PlacesOK' /\ CountsOK'
  BY <1>1 DEF GroupInv, PlacesOK, CountsOK, Left
<1>5. RequestsOK'
  BY <1>1, <1>2 DEF GroupInv, RequestsOK
<1>6. ASSUME NEW u \in Tasks, u # t
      PROVE  /\ Forming(u) => Forming(u)'
             /\ Working(u) => Working(u)'
             /\ Over(u) => Over(u)'
             /\ PlainOK(u) => PlainOK(u)'
  <2>1. \A a \in Members(u) : a \in Pending' <=> a \in Pending
    BY <1>2, <1>6, GroupFacts
  <2>2. Settled(u)' = Settled(u)
    BY <1>1, <2>1 DEF Settled
  <2>. QED  BY <1>1, <2>1, <2>2 DEF Forming, Working, Over, PlainOK
<1>7. Over(t)'
  <2>1. Settled(t) \subseteq Settled(t)'
    BY <1>1, <1>2 DEF Settled
  <2>2. Settled(t)' \in SUBSET Members(t) /\ IsFiniteSet(Members(t))
    BY GroupFacts DEF Settled
  <2>3. IsFiniteSet(Settled(t)')
    BY <2>2, FS_Subset
  <2>4. /\ Cardinality(Settled(t)) <= Cardinality(Settled(t)')
        /\ Cardinality(Settled(t)) \in Nat /\ Cardinality(Settled(t)') \in Nat
    BY <2>1, <2>3, FS_Subset, FS_CardinalityType
  <2>5. nextProcessId[t] \in Int
    BY DEF GroupInv, Types
  <2>6. 0 - Cardinality(Settled(t)') <= nextProcessId'[t] /\ nextProcessId'[t] <= 0
    BY <1>1, <1>2, <2>4, <2>5 DEF Over
  <2>. QED  BY <1>1, <1>2, <2>6 DEF Over
<1>8. GroupsOK'
  BY <1>2, <1>6, <1>7 DEF GroupInv, GroupsOK, Multi
<1>. QED  BY <1>3, <1>4, <1>5, <1>8 DEF GroupInv

\* What takes the unit of an execution whose end the TD treats.
LEMMA ResumeFacts ==
    ASSUME GroupInv, NEW a \in Pending, NEW r \in Resumed(a)
    PROVE  /\ r \subseteq Actions /\ IsFiniteSet(r) /\ a \notin r
           /\ \A b, d \in r : b = d
           /\ resource[a] \in Workers /\ a \in Actions
           /\ \A b \in r : state[b] = "WAITING" /\ resource[b] = resource[a] /\ b \notin Pending
           /\ FreeAfter(a, r) \in [Workers -> Nat]
           /\ WaitingAfter(a, r) \in [Workers -> SUBSET Actions]
           /\ \A w \in Workers : WaitingAfter(a, r)[w] = waiting[w] \ r
<1>1. /\ a \in Actions /\ state[a] = "RUNNING" /\ resource[a] \in Workers
      /\ free \in [Workers -> Nat] /\ waiting \in [Workers -> SUBSET Actions]
  <2>1. a \in Actions /\ state[a] = "RUNNING"
    BY DEF GroupInv, RequestsOK, Pending
  <2>2. resource[a] \in Workers
    BY <2>1 DEF GroupInv, PlacesOK
  <2>. QED  BY <2>1, <2>2 DEF GroupInv, Types
<1>2. r = {} \/ \E b \in waiting[resource[a]] : r = {b}
  BY DEF Resumed
<1>3. \A b \in r : b \in waiting[resource[a]] /\ b \in Actions
  BY <1>1, <1>2
<1>4. \A b \in r : state[b] = "WAITING" /\ resource[b] = resource[a]
  BY <1>1, <1>3 DEF GroupInv, PlacesOK
<1>5. \A b \in r : b \notin Pending
  BY <1>4 DEF GroupInv, RequestsOK
<1>6. IsFiniteSet(r) /\ \A b, d \in r : b = d
  BY <1>2, FS_EmptySet, FS_Singleton
<1>7. FreeAfter(a, r) \in [Workers -> Nat]
  BY <1>1 DEF FreeAfter
<1>8. WaitingAfter(a, r) \in [Workers -> SUBSET Actions]
  BY <1>1 DEF WaitingAfter
<1>9. ASSUME NEW w \in Workers PROVE WaitingAfter(a, r)[w] = waiting[w] \ r
  <2>1. CASE w = resource[a]
    BY <1>1, <2>1 DEF WaitingAfter
  <2>2. CASE w # resource[a]
    <3>1. \A b \in r : b \notin waiting[w]
      BY <1>3, <1>4, <2>2 DEF GroupInv, PlacesOK
    <3>. QED  BY <1>1, <2>2, <3>1 DEF WaitingAfter
  <2>. QED  BY <2>1, <2>2
<1>. QED  BY <1>1, <1>3, <1>4, <1>5, <1>6, <1>7, <1>8, <1>9

\* The executions of a group that have not ended are some of its executions.
LEMMA LeftFacts ==
    ASSUME NEW t \in Tasks
    PROVE  /\ Left(t) \subseteq Members(t) /\ IsFiniteSet(Left(t))
           /\ Cardinality(Left(t)) \in Nat
           /\ Cardinality(Left(t)) = 0 <=> Left(t) = {}
<1>1. Left(t) \in SUBSET Members(t) /\ IsFiniteSet(Members(t))
  BY GroupFacts DEF Left
<1>2. IsFiniteSet(Left(t))
  BY <1>1, FS_Subset
<1>. QED  BY <1>1, <1>2, FS_CardinalityType, FS_EmptySet

\* The TD treats the end of an execution that does not try again.
LEMMA EndStep ==
    ASSUME GroupInv, NEW kind, Treats(kind), NEW st \in {"FINISHED", "FAILED"},
           NEW a, a = Head(tdQueue).action, NotifyEnd(a, st), NEW r \in Resumed(a),
           state' = StateAfter(a, r, st), free' = FreeAfter(a, r),
           waiting' = WaitingAfter(a, r), DoAction([b \in r |-> 1]),
           UNCHANGED <<resource, executing, callback, ended, halted, errors, erred>>
    PROVE  GroupInv'
<1>1. Types /\ AskedOnce /\ callback' = callback
  BY DEF GroupInv, RequestsOK
<1>2. /\ a \in Pending /\ Pending' = Pending \ {a}
      /\ tdQueue' \in Seq(RequestType) /\ AskedOnce'
  BY <1>1, TreatsStep
<1>3. /\ r \subseteq Actions /\ IsFiniteSet(r) /\ a \notin r
      /\ \A b, d \in r : b = d
      /\ resource[a] \in Workers /\ a \in Actions
      /\ \A b \in r : state[b] = "WAITING" /\ resource[b] = resource[a] /\ b \notin Pending
      /\ free' \in [Workers -> Nat]
      /\ waiting' \in [Workers -> SUBSET Actions]
      /\ \A w \in Workers : waiting'[w] = waiting[w] \ r
  BY <1>2, ResumeFacts
<1>4. \A b \in Pending : b \in Actions /\ state[b] = "RUNNING" /\ job[TaskOf(b)] = None
  BY DEF GroupInv, RequestsOK, Pending
<1>5. /\ \A b \in Actions : state'[b] = IF b = a THEN st ELSE IF b \in r THEN "RUNNING" ELSE state[b]
      /\ state' \in [Actions -> {"NEW", "WAITING", "RUNNING", "FINISHED", "FAILED"}]
      /\ resource' = resource /\ executing' = executing
  <2>1. state' = [x \in Actions |-> IF x = a THEN st ELSE IF x \in r THEN "RUNNING" ELSE state[x]]
    BY DEF StateAfter
  <2>2. state \in [Actions -> {"NEW", "WAITING", "RUNNING", "FINISHED", "FAILED"}]
    BY <1>1 DEF Types
  <2>. QED  BY <2>1, <2>2
<1>. DEFINE order == [b \in r |-> 1]
<1>6. Ordered(order, r)
  BY <1>3 DEF Ordered
<1>7. Launches(r)
  <2>1. executing' \in [Actions -> SUBSET Workers]
    BY <1>1, <1>5 DEF Types
  <2>2. \A b \in r : state'[b] = "RUNNING" /\ b \notin Settled(TaskOf(b))
    BY <1>3, <1>5 DEF Settled
  <2>3. \A b \in Pending' : /\ b \in Pending /\ b \notin r
                            /\ executing'[b] = executing[b] /\ state'[b] = "RUNNING"
    BY <1>2, <1>3, <1>4, <1>5
  <2>4. \A b \in Pending : b \notin Pending' /\ b \notin r => state'[b] # "RUNNING"
    BY <1>2, <1>3, <1>5
  <2>5. \A b \in Actions : b \notin Pending /\ b \notin r =>
          /\ executing'[b] = executing[b]
          /\ state'[b] = state[b] \/ (state'[b] = "WAITING" /\ state[b] # "RUNNING")
    BY <1>2, <1>5
  <2>6. \A t \in Tasks : Forming(t) => \A b \in r \cap Members(t) : executing'[b] = {}
    BY <1>3, <1>5 DEF Forming
  <2>. QED  BY <2>1, <2>2, <2>3, <2>4, <2>5, <2>6 DEF Launches
<1>8. /\ GroupsOK'
      /\ \A b \in Pending' : state'[b] = "RUNNING" /\ job'[TaskOf(b)] = None
      /\ multiNodeId' \in [Actions -> Int]
      /\ \A b \in Actions :
            multiNodeId'[b] \in 1 - Size[TaskOf(b)] .. Size[TaskOf(b)] \cup {UNASSIGNED_ID}
      /\ nextProcessId' \in [Tasks -> Int]
      /\ slaves' \in [Tasks -> SUBSET Actions]
      /\ job' \in [Tasks -> Actions \cup {None}]
  <2>. HIDE DEF order
  <2>1. DoAction(order)
    BY DEF order
  <2>. QED  BY <1>6, <1>7, <2>1, LaunchStep
<1>9. /\ executionCount' = [executionCount EXCEPT ![TaskOf(a)] = @ - 1]
      /\ status' = [status EXCEPT ![TaskOf(a)] = IF IsMaster(a) \/ st = "FAILED" THEN st ELSE @]
      /\ notices' = [notices EXCEPT ![TaskOf(a)] = IF IsMaster(a) THEN @ + 1 ELSE @]
  BY DEF NotifyEnd
<1>10. /\ status' \in [Tasks -> {"TO_ANALYSE", "TO_EXECUTE", "FINISHED", "FAILED"}]
       /\ notices' \in [Tasks -> Nat]
       /\ \A t \in Tasks : status'[t] = "TO_ANALYSE" => status[t] = "TO_ANALYSE"
  <2>1. /\ status \in [Tasks -> {"TO_ANALYSE", "TO_EXECUTE", "FINISHED", "FAILED"}]
        /\ notices \in [Tasks -> Nat]
    BY <1>1 DEF Types
  <2>2. \A t \in Tasks : status'[t] = status[t] \/ status'[t] = st
    BY <1>9, <2>1
  <2>3. notices' \in [Tasks -> Nat]
    <3>1. TaskOf(a) \in Tasks
      BY <1>3, GroupFacts
    <3>. QED  BY <1>9, <2>1, <3>1
  <2>4. status' \in [Tasks -> {"TO_ANALYSE", "TO_EXECUTE", "FINISHED", "FAILED"}]
    BY <1>9, <2>1
  <2>. QED  BY <2>2, <2>3, <2>4
<1>11. Types'
  <2>1. /\ resource' \in [Actions -> Workers \cup {None}] /\ executing' \in [Actions -> SUBSET Workers]
        /\ callback' \in [Tasks -> CallbackType] /\ ended' \in [Tasks -> Nat]
        /\ halted' \in BOOLEAN /\ errors' \in 0 .. MaxErrors /\ erred' \in SUBSET Tasks
    BY <1>1 DEF Types
  <2>. QED  BY <1>2, <1>3, <1>5, <1>8, <1>10, <2>1, Zenon DEF Types, CallbackType, RequestType
<1>12. PlacesOK'
  <2>1. \A b \in Actions, w \in Workers : b \in waiting'[w] <=> state'[b] = "WAITING" /\ resource'[b] = w
    <3>1. SUFFICES ASSUME NEW b \in Actions, NEW w \in Workers
                   PROVE  b \in waiting'[w] <=> state'[b] = "WAITING" /\ resource'[b] = w
      OBVIOUS
    <3>2. b \in waiting[w] <=> state[b] = "WAITING" /\ resource[b] = w
      BY DEF GroupInv, PlacesOK
    <3>3. b \in waiting'[w] <=> b \in waiting[w] /\ b \notin r
      BY <1>3
    <3>. QED  BY <1>2, <1>4, <1>5, <3>2, <3>3
  <2>2. \A b \in Actions : state'[b] \in {"WAITING", "RUNNING"} => resource'[b] \in Workers
    BY <1>3, <1>5 DEF GroupInv, PlacesOK
  <2>. QED  BY <2>1, <2>2 DEF PlacesOK
<1>13. CountsOK'
  <2>1. executionCount = [t \in Tasks |-> Cardinality(Left(t))]
    BY DEF GroupInv, CountsOK
  <2>2. TaskOf(a) \in Tasks /\ a \in Left(TaskOf(a))
    BY <1>2, <1>3, <1>4, GroupFacts DEF Left
  <2>3. \A b \in Actions : state'[b] \in {"WAITING", "RUNNING"}
                             <=> state[b] \in {"WAITING", "RUNNING"} /\ b # a
    BY <1>3, <1>5
  <2>4. /\ Left(TaskOf(a))' = Left(TaskOf(a)) \ {a}
        /\ \A t \in Tasks : t # TaskOf(a) => Left(t)' = Left(t)
    <3>1. \A t \in Tasks : \A b \in Members(t) : b \in Actions /\ TaskOf(b) = t
      BY GroupFacts
    <3>2. Left(TaskOf(a))' = Left(TaskOf(a)) \ {a}
      BY <2>2, <2>3, <3>1 DEF Left
    <3>3. ASSUME NEW t \in Tasks, t # TaskOf(a) PROVE Left(t)' = Left(t)
      BY <2>3, <3>1, <3>3 DEF Left
    <3>. QED  BY <3>2, <3>3
  <2>5. Cardinality(Left(TaskOf(a))') = Cardinality(Left(TaskOf(a))) - 1
    BY <2>2, <2>4, LeftFacts, FS_RemoveElement
  <2>6. executionCount' = [t \in Tasks |-> Cardinality(Left(t)')]
    <3>1. executionCount' = [t \in Tasks |-> IF t = TaskOf(a) THEN executionCount[t] - 1
                                              ELSE executionCount[t]]
      BY <1>9, <2>1
    <3>2. \A t \in Tasks : executionCount[t] = Cardinality(Left(t))
      BY <2>1
    <3>3. \A t \in Tasks : Cardinality(Left(t)') = IF t = TaskOf(a) THEN executionCount[t] - 1
                                                   ELSE executionCount[t]
      BY <2>4, <2>5, <3>2
    <3>. QED  BY <3>1, <3>3
  <2>7. \A b \in Actions : status'[TaskOf(b)] = "TO_ANALYSE" => state'[b] = "NEW"
    <3>1. SUFFICES ASSUME NEW b \in Actions, status'[TaskOf(b)] = "TO_ANALYSE" PROVE state'[b] = "NEW"
      OBVIOUS
    <3>2. state[b] = "NEW"
      BY <1>10, <3>1, GroupFacts DEF GroupInv, CountsOK
    <3>. QED  BY <1>2, <1>3, <1>4, <1>5, <3>2
  <2>. QED  BY <2>6, <2>7 DEF CountsOK
<1>14. RequestsOK'
  BY <1>2, <1>8 DEF RequestsOK
<1>. QED  BY <1>8, <1>11, <1>12, <1>13, <1>14 DEF GroupInv

\* The TD treats the end of an execution that tries again.
LEMMA RetryStep ==
    ASSUME GroupInv, Treats("ERROR"), NEW a, a = Head(tdQueue).action,
           NEW r \in Resumed(a), NEW w \in Workers, NEW now \in BOOLEAN,
           resource' = [resource EXCEPT ![a] = w],
           state' = StateAfter(a, r, IF now THEN "RUNNING" ELSE "WAITING"),
           executing' = [executing EXCEPT ![a] = @ \cup IF now THEN {w} ELSE {}],
           free' = [FreeAfter(a, r) EXCEPT ![w] = @ - IF now THEN 1 ELSE 0],
           now => FreeAfter(a, r)[w] > 0,
           waiting' = [WaitingAfter(a, r) EXCEPT ![w] = @ \cup IF now THEN {} ELSE {a}],
           DoAction([b \in r \cup (IF now THEN {a} ELSE {}) |-> IF b = a THEN 2 ELSE 1]),
           UNCHANGED <<taskVars, callback, ended, halted, errors, erred>>
    PROVE  GroupInv'
<1>. DEFINE L == r \cup (IF now THEN {a} ELSE {})
            st == IF now THEN "RUNNING" ELSE "WAITING"
<1>1. Types /\ AskedOnce /\ callback' = callback
  BY DEF GroupInv, RequestsOK
<1>2. /\ a \in Pending /\ Pending' = Pending \ {a}
      /\ tdQueue' \in Seq(RequestType) /\ AskedOnce'
  BY <1>1, TreatsStep
<1>3. /\ r \subseteq Actions /\ IsFiniteSet(r) /\ a \notin r
      /\ \A b, d \in r : b = d
      /\ a \in Actions
      /\ \A b \in r : state[b] = "WAITING" /\ b \notin Pending
      /\ FreeAfter(a, r) \in [Workers -> Nat]
      /\ WaitingAfter(a, r) \in [Workers -> SUBSET Actions]
      /\ \A v \in Workers : WaitingAfter(a, r)[v] = waiting[v] \ r
  BY <1>2, ResumeFacts
<1>4. \A b \in Pending : b \in Actions /\ state[b] = "RUNNING" /\ job[TaskOf(b)] = None
  BY DEF GroupInv, RequestsOK, Pending
<1>5. /\ \A b \in Actions : state'[b] = IF b = a THEN st ELSE IF b \in r THEN "RUNNING" ELSE state[b]
      /\ state' \in [Actions -> {"NEW", "WAITING", "RUNNING", "FINISHED", "FAILED"}]
  <2>1. state' = [x \in Actions |-> IF x = a THEN st ELSE IF x \in r THEN "RUNNING" ELSE state[x]]
    BY DEF StateAfter
  <2>2. state \in [Actions -> {"NEW", "WAITING", "RUNNING", "FINISHED", "FAILED"}]
    BY <1>1 DEF Types
  <2>. QED  BY <2>1, <2>2
<1>6. /\ resource' \in [Actions -> Workers \cup {None}] /\ executing' \in [Actions -> SUBSET Workers]
      /\ resource'[a] = w /\ \A b \in Actions : b # a => resource'[b] = resource[b]
      /\ \A b \in Actions : b # a => executing'[b] = executing[b]
  <2>1. resource \in [Actions -> Workers \cup {None}] /\ executing \in [Actions -> SUBSET Workers]
    BY <1>1 DEF Types
  <2>. QED  BY <1>3, <2>1
<1>7. free' \in [Workers -> Nat]
  <2>. DEFINE fr == FreeAfter(a, r)
  <2>1. fr \in [Workers -> Nat] /\ free' = [fr EXCEPT ![w] = @ - IF now THEN 1 ELSE 0]
        /\ (now => fr[w] > 0)
    BY <1>3
  <2>. HIDE DEF fr
  <2>2. fr[w] - (IF now THEN 1 ELSE 0) \in Nat
    BY <2>1
  <2>. QED  BY <2>1, <2>2
<1>8. /\ waiting' \in [Workers -> SUBSET Actions]
      /\ \A v \in Workers : waiting'[v] = (waiting[v] \ r) \cup (IF v = w /\ ~ now THEN {a} ELSE {})
  <2>. DEFINE wt == WaitingAfter(a, r)
  <2>1. /\ wt \in [Workers -> SUBSET Actions] /\ \A v \in Workers : wt[v] = waiting[v] \ r
        /\ waiting' = [wt EXCEPT ![w] = @ \cup IF now THEN {} ELSE {a}]
    BY <1>3
  <2>. HIDE DEF wt
  <2>. QED  BY <1>3, <2>1
<1>. DEFINE order == [b \in L |-> IF b = a THEN 2 ELSE 1]
<1>9. Ordered(order, L)
  <2>1. IsFiniteSet({a})
    BY FS_Singleton
  <2>2. L \subseteq Actions /\ IsFiniteSet(L)
    <3>1. CASE now
      BY <1>3, <2>1, <3>1, FS_Union
    <3>2. CASE ~ now
      BY <1>3, <3>2
    <3>. QED  BY <3>1, <3>2
  <2>3. \A b \in L : b \in r \/ b = a
    OBVIOUS
  <2>4. \A b, d \in L : order[b] = order[d] => b = d
    BY <1>3, <2>3
  <2>. QED  BY <2>2, <2>4 DEF Ordered
<1>10. /\ \A b \in L : b \in r \/ (b = a /\ now)
       /\ r \subseteq L /\ (now => a \in L)
  OBVIOUS
<1>11. Launches(L)
  <2>. HIDE DEF L
  <2>1. \A b \in L : state'[b] = "RUNNING" /\ b \notin Settled(TaskOf(b))
    BY <1>2, <1>3, <1>5, <1>10 DEF Settled
  <2>2. \A b \in Pending' : /\ b \in Pending /\ b \notin L
                            /\ executing'[b] = executing[b] /\ state'[b] = "RUNNING"
    BY <1>2, <1>3, <1>4, <1>5, <1>6, <1>10
  <2>3. \A b \in Pending : b \notin Pending' /\ b \notin L => state'[b] # "RUNNING"
    BY <1>2, <1>3, <1>5, <1>10
  <2>4. \A b \in Actions : b \notin Pending /\ b \notin L =>
          /\ executing'[b] = executing[b]
          /\ state'[b] = state[b] \/ (state'[b] = "WAITING" /\ state[b] # "RUNNING")
    BY <1>2, <1>5, <1>6, <1>10
  <2>5. \A t \in Tasks : Forming(t) => \A b \in L \cap Members(t) : executing'[b] = {}
    <3>1. SUFFICES ASSUME NEW t \in Tasks, Forming(t), NEW b \in L, b \in Members(t)
                   PROVE  executing'[b] = {}
      OBVIOUS
    <3>2. b \notin Pending /\ (state[b] # "RUNNING" => executing[b] = {})
      BY <3>1 DEF Forming
    <3>3. b # a /\ b \in r
      BY <1>2, <1>10, <3>1, <3>2
    <3>. QED  BY <1>3, <1>6, <3>2, <3>3
  <2>. QED  BY <1>6, <2>1, <2>2, <2>3, <2>4, <2>5 DEF Launches
<1>12. /\ GroupsOK'
       /\ \A b \in Pending' : state'[b] = "RUNNING" /\ job'[TaskOf(b)] = None
       /\ multiNodeId' \in [Actions -> Int]
       /\ \A b \in Actions :
             multiNodeId'[b] \in 1 - Size[TaskOf(b)] .. Size[TaskOf(b)] \cup {UNASSIGNED_ID}
       /\ nextProcessId' \in [Tasks -> Int]
       /\ slaves' \in [Tasks -> SUBSET Actions]
       /\ job' \in [Tasks -> Actions \cup {None}]
  <2>1. DoAction(order)
    OBVIOUS
  <2>. HIDE DEF order, L
  <2>. QED  BY <1>9, <1>11, <2>1, LaunchStep
<1>13. status' = status /\ executionCount' = executionCount /\ notices' = notices
  BY DEF taskVars
<1>14. Types'
  <2>1. /\ callback' \in [Tasks -> CallbackType] /\ ended' \in [Tasks -> Nat]
        /\ status' \in [Tasks -> {"TO_ANALYSE", "TO_EXECUTE", "FINISHED", "FAILED"}]
        /\ notices' \in [Tasks -> Nat]
        /\ halted' \in BOOLEAN /\ errors' \in 0 .. MaxErrors /\ erred' \in SUBSET Tasks
    BY <1>1, <1>13 DEF Types
  <2>. QED  BY <1>2, <1>5, <1>6, <1>7, <1>8, <1>12, <2>1, Zenon DEF Types, CallbackType, RequestType
<1>15. PlacesOK'
  <2>1. ASSUME NEW b \in Actions, NEW v \in Workers
        PROVE  b \in waiting'[v] <=> state'[b] = "WAITING" /\ resource'[b] = v
    <3>1. b \in waiting[v] <=> state[b] = "WAITING" /\ resource[b] = v
      BY DEF GroupInv, PlacesOK
    <3>2. CASE b = a
      BY <1>2, <1>3, <1>4, <1>5, <1>6, <1>8, <3>1, <3>2
    <3>3. CASE b # a
      BY <1>5, <1>6, <1>8, <3>1, <3>3
    <3>. QED  BY <3>2, <3>3
  <2>2. ASSUME NEW b \in Actions, state'[b] \in {"WAITING", "RUNNING"}
        PROVE  resource'[b] \in Workers
    BY <1>3, <1>5, <1>6, <2>2 DEF GroupInv, PlacesOK
  <2>. QED  BY <2>1, <2>2 DEF PlacesOK
<1>16. CountsOK'
  <2>1. \A b \in Actions : state'[b] \in {"WAITING", "RUNNING"} <=> state[b] \in {"WAITING", "RUNNING"}
    BY <1>2, <1>3, <1>4, <1>5
  <2>2. \A t \in Tasks : Left(t)' = Left(t)
    BY <2>1, GroupFacts DEF Left
  <2>3. executionCount' = [t \in Tasks |-> Cardinality(Left(t)')]
    BY <1>13, <2>2 DEF GroupInv, CountsOK
  <2>4. \A b \in Actions : status'[TaskOf(b)] = "TO_ANALYSE" => state'[b] = "NEW"
    BY <1>2, <1>3, <1>4, <1>5, <1>13 DEF GroupInv, CountsOK
  <2>. QED  BY <2>3, <2>4 DEF CountsOK
<1>17. RequestsOK'
  BY <1>2, <1>12 DEF RequestsOK
<1>. QED  BY <1>12, <1>14, <1>15, <1>16, <1>17 DEF GroupInv

\* The executions of a task that run on w at once do not need more units than it has.
LEMMA EnoughUnits ==
    ASSUME NEW t \in Tasks, NEW choice \in [1 .. Size[t] -> Workers], NEW w \in Workers,
           NEW runs \in SUBSET (1 .. Size[t]), NEW n \in Nat,
           \A i \in runs : choice[i] = w =>
              Cardinality({j \in 1 .. i - 1 : choice[j] = choice[i]}) < n
    PROVE  /\ Cardinality({<<t, i>> : i \in {j \in runs : choice[j] = w}}) \in Nat
           /\ Cardinality({<<t, i>> : i \in {j \in runs : choice[j] = w}}) <= n
<1>. DEFINE S == {j \in runs : choice[j] = w}
            T == {<<t, i>> : i \in S}
            f == [i \in S |-> i]
            g == [i \in S |-> <<t, i>>]
<1>1. Size[t] \in Nat /\ \A i \in 1 .. Size[t] : i \in Int
  BY GroupFacts
<1>2. IsFiniteSet(1 .. Size[t])
  <2>1. Size[t] \in Int /\ 1 \in Int
    BY <1>1
  <2>. QED  BY <2>1, FS_Interval, Zenon
<1>3. S \in SUBSET (1 .. Size[t]) /\ IsFiniteSet(S)
  <2>1. S \in SUBSET (1 .. Size[t])
    OBVIOUS
  <2>. QED  BY <1>2, <2>1, FS_Subset
<1>4. \A i \in S : Rank(S, f, i) < n
  <2>1. SUFFICES ASSUME NEW i \in S PROVE Rank(S, f, i) < n
    OBVIOUS
  <2>. DEFINE Low == {j \in S : f[j] < f[i]}
              Earlier == {j \in 1 .. i - 1 : choice[j] = choice[i]}
  <2>2. i \in 1 .. Size[t] /\ choice[i] = w /\ i \in runs
    BY <1>3
  <2>3. Low \in SUBSET Earlier
    BY <1>1, <1>3, <2>2
  <2>4. IsFiniteSet(Earlier)
    <3>1. Earlier \in SUBSET (1 .. Size[t])
      BY <1>1, <2>2
    <3>. QED  BY <1>2, <3>1, FS_Subset
  <2>5. Cardinality(Low) <= Cardinality(Earlier)
    BY <2>3, <2>4, FS_Subset
  <2>6. Cardinality(Low) \in Nat /\ Cardinality(Earlier) \in Nat
    BY <2>3, <2>4, FS_Subset, FS_CardinalityType
  <2>7. Cardinality(Earlier) < n
    BY <2>2
  <2>8. Rank(S, f, i) = Cardinality(Low)
    BY Zenon DEF Rank
  <2>. HIDE DEF Low, Earlier, S, f
  <2>. QED  BY <2>5, <2>6, <2>7, <2>8
<1>5. Cardinality(S) <= n
  <2>1. \A i \in S : f[i] \in Int
    BY <1>1, <1>3
  <2>2. \A i, j \in S : f[i] = f[j] => i = j
    OBVIOUS
  <2>. HIDE DEF S, f
  <2>. QED  BY <1>3, <1>4, <2>1, <2>2, FewBefore
<1>6. ExistsBijection(S, T)
  <2>1. g \in Bijection(S, T)
    BY DEF Bijection, Injection, Surjection, IsInjective
  <2>. HIDE DEF S, T, g
  <2>. QED  BY <2>1 DEF ExistsBijection
<1>7. Cardinality(T) = Cardinality(S) /\ Cardinality(S) \in Nat
  <2>. HIDE DEF S, T
  <2>. QED  BY <1>3, <1>6, FS_Bijection, FS_CardinalityType
<1>8. Cardinality(T) \in Nat /\ Cardinality(T) <= n
  <2>. HIDE DEF S, T
  <2>. QED  BY <1>5, <1>7
<1>. QED  BY <1>8

\* The executions of a task are created and placed.
LEMMA SubmitStep ==
    ASSUME GroupInv, NEW t \in Tasks, NEW choice \in [1 .. Size[t] -> Workers],
           SubmitTask(t, choice)
    PROVE  GroupInv'
<1>. DEFINE Earlier(i) == {j \in 1 .. i - 1 : choice[j] = choice[i]}
            runs == {i \in 1 .. Size[t] : /\ waiting[choice[i]] = {}
                                          /\ Cardinality(Earlier(i)) < free[choice[i]]}
            On(S, w) == {<<t, i>> : i \in {j \in S : choice[j] = w}}
            rest == (1 .. Size[t]) \ runs
            L == {<<t, i>> : i \in runs}
            order == [a \in L |-> a[2]]
<1>1. /\ status[t] = "TO_ANALYSE" /\ status' = [status EXCEPT ![t] = "TO_EXECUTE"]
      /\ executionCount' = [executionCount EXCEPT ![t] = Size[t]]
      /\ state' = [a \in Actions |-> IF TaskOf(a) # t THEN state[a]
                                     ELSE IF a[2] \in runs THEN "RUNNING" ELSE "WAITING"]
      /\ resource' = [a \in Actions |-> IF TaskOf(a) = t THEN choice[a[2]] ELSE resource[a]]
      /\ executing' = [a \in Actions |-> IF TaskOf(a) = t /\ a[2] \in runs THEN {choice[a[2]]}
                                         ELSE executing[a]]
  BY Zenon DEF SubmitTask
<1>2. /\ free' = [w \in Workers |-> free[w] - Cardinality(On(runs, w))]
      /\ waiting' = [w \in Workers |-> waiting[w] \cup On(rest, w)]
      /\ DoAction(order)
      /\ notices' = notices /\ callback' = callback /\ tdQueue' = tdQueue /\ ended' = ended
      /\ halted' = halted /\ errors' = errors /\ erred' = erred
  BY Zenon DEF SubmitTask
<1>3. Types /\ AskedOnce
  BY DEF GroupInv, RequestsOK
<1>4. AskedOnce' /\ Pending' = Pending
  BY <1>2, <1>3, SameRequests
<1>5. \A a \in Actions : /\ TaskOf(a) \in Tasks /\ a = <<TaskOf(a), a[2]>>
                         /\ a[2] \in 1 .. Size[TaskOf(a)]
  BY GroupFacts
<1>6. /\ Members(t) = {<<t, i>> : i \in 1 .. Size[t]} /\ Members(t) \subseteq Actions
      /\ \A u \in Tasks : \A a \in Members(u) : TaskOf(a) = u /\ a \in Actions
      /\ IsFiniteSet(Members(t)) /\ Cardinality(Members(t)) = Size[t]
      /\ \A a \in Actions : a \in Members(TaskOf(a))
  BY GroupFacts
<1>7. \A a \in Actions : TaskOf(a) = t => state[a] = "NEW"
  BY <1>1 DEF GroupInv, CountsOK
<1>8. \A a \in Pending : a \in Actions /\ state[a] = "RUNNING" /\ TaskOf(a) # t
  BY <1>7 DEF GroupInv, RequestsOK, Pending
<1>9. runs \in SUBSET (1 .. Size[t]) /\ L \subseteq Members(t)
  BY <1>6
<1>10. \A a \in Actions : /\ TaskOf(a) = t /\ a[2] \in runs <=> a \in L
                          /\ TaskOf(a) = t => choice[a[2]] \in Workers
  <2>. HIDE DEF runs
  <2>1. ASSUME NEW a \in Actions, TaskOf(a) = t PROVE a = <<t, a[2]>> /\ a[2] \in 1 .. Size[t]
    BY <1>5, <2>1
  <2>2. \A a \in L : TaskOf(a) = t /\ a[2] \in runs
    BY DEF TaskOf
  <2>. QED  BY <2>1, <2>2
<1>11. \A w \in Workers : free[w] \in Nat /\ waiting[w] \in SUBSET Actions
  BY <1>3 DEF Types
<1>12. free' \in [Workers -> Nat]
  <2>1. SUFFICES ASSUME NEW w \in Workers PROVE free[w] - Cardinality(On(runs, w)) \in Nat
    BY <1>2, Zenon
  <2>2. \A i \in runs : choice[i] = w =>
              Cardinality({j \in 1 .. i - 1 : choice[j] = choice[i]}) < free[w]
    OBVIOUS
  <2>3. /\ Cardinality({<<t, i>> : i \in {j \in runs : choice[j] = w}}) \in Nat
        /\ Cardinality({<<t, i>> : i \in {j \in runs : choice[j] = w}}) <= free[w]
    <3>. HIDE DEF runs
    <3>. QED  BY <1>9, <1>11, <2>2, EnoughUnits
  <2>4. Cardinality(On(runs, w)) \in Nat /\ Cardinality(On(runs, w)) <= free[w]
    BY <2>3
  <2>. HIDE DEF On, runs
  <2>. QED  BY <1>11, <2>4
<1>. HIDE DEF runs
<1>13. /\ \A a \in Actions : a \notin L =>
             /\ executing'[a] = executing[a]
             /\ state'[a] = IF TaskOf(a) = t THEN "WAITING" ELSE state[a]
       /\ \A a \in L : state'[a] = "RUNNING" /\ executing'[a] = {choice[a[2]]}
  BY <1>1, <1>6, <1>9, <1>10
<1>14. /\ \A w \in Workers : \A a \in Actions :
             a \in waiting'[w] <=> a \in waiting[w] \/ (TaskOf(a) = t /\ a \notin L /\ choice[a[2]] = w)
       /\ waiting' \in [Workers -> SUBSET Actions]
  <2>1. ASSUME NEW w \in Workers, NEW a \in Actions
        PROVE  a \in On(rest, w) <=> TaskOf(a) = t /\ a \notin L /\ choice[a[2]] = w
    <3>1. a \in On(rest, w) <=> \E i \in 1 .. Size[t] : i \notin runs /\ choice[i] = w /\ a = <<t, i>>
      OBVIOUS
    <3>2. CASE TaskOf(a) = t
      <4>1. a = <<t, a[2]>> /\ a[2] \in 1 .. Size[t] /\ (a[2] \in runs <=> a \in L)
        BY <1>5, <1>10, <3>2
      <4>2. \A i \in 1 .. Size[t] : a = <<t, i>> => i = a[2]
        OBVIOUS
      <4>. QED  BY <3>1, <3>2, <4>1, <4>2
    <3>3. CASE TaskOf(a) # t
      BY <3>1, <3>3 DEF TaskOf
    <3>. QED  BY <3>2, <3>3
  <2>2. \A w \in Workers : On(rest, w) \subseteq Actions
    BY <1>6
  <2>. HIDE DEF On, L, rest
  <2>. QED  BY <1>2, <1>11, <2>1, <2>2
<1>15. Ordered(order, L)
  <2>1. IsFiniteSet(L) /\ L \subseteq Actions
    <3>1. L \in SUBSET Members(t)
      BY <1>9
    <3>. QED  BY <1>6, <3>1, FS_Subset
  <2>2. \A a \in L : order[a] \in Int
    <3>1. \A a \in L : a[2] \in 1 .. Size[t] /\ order[a] = a[2]
      BY <1>9
    <3>2. Size[t] \in Nat
      BY GroupFacts
    <3>. HIDE DEF L, order
    <3>. QED  BY <3>1, <3>2
  <2>3. \A a, b \in L : order[a] = order[b] => a = b
    OBVIOUS
  <2>. HIDE DEF L
  <2>. QED  BY <2>1, <2>2, <2>3 DEF Ordered
<1>16. Settled(t) = {} /\ Left(t) = {}
  BY <1>6, <1>7 DEF Settled, Left
<1>. HIDE DEF L, order
<1>17. Launches(L)
  <2>1. executing' \in [Actions -> SUBSET Workers]
    <3>1. executing \in [Actions -> SUBSET Workers]
      BY <1>3 DEF Types
    <3>. QED  BY <1>1, <1>10, <3>1
  <2>2. \A a \in L : state'[a] = "RUNNING" /\ a \notin Settled(TaskOf(a))
    BY <1>6, <1>9, <1>13, <1>16
  <2>3. \A a \in Pending' : /\ a \in Pending /\ a \notin L
                            /\ executing'[a] = executing[a] /\ state'[a] = "RUNNING"
    BY <1>4, <1>6, <1>8, <1>9, <1>13
  <2>4. \A a \in Actions : a \notin Pending /\ a \notin L =>
          /\ executing'[a] = executing[a]
          /\ state'[a] = state[a] \/ (state'[a] = "WAITING" /\ state[a] # "RUNNING")
    BY <1>7, <1>13
  <2>5. ASSUME NEW u \in Tasks
        PROVE  \/ \A a \in L \cap Members(u) : executing'[a] = {}
               \/ Settled(u) = {} /\ \A a \in L \cap Members(u) : Cardinality(executing'[a]) = 1
    <3>1. CASE u = t
      <4>1. \A a \in L : Cardinality(executing'[a]) = 1
        <5>1. SUFFICES ASSUME NEW a \in L PROVE Cardinality(executing'[a]) = 1
          OBVIOUS
        <5>2. executing'[a] = {choice[a[2]]}
          BY <1>13
        <5>3. Cardinality({choice[a[2]]}) = 1
          BY FS_Singleton
        <5>. QED  BY <5>2, <5>3
      <4>. QED  BY <1>16, <3>1, <4>1
    <3>2. CASE u # t
      BY <1>6, <1>9, <3>2
    <3>. QED  BY <3>1, <3>2
  <2>. QED  BY <1>4, <2>1, <2>2, <2>3, <2>4, <2>5 DEF Launches
<1>18. /\ GroupsOK'
       /\ \A b \in Pending' : state'[b] = "RUNNING" /\ job'[TaskOf(b)] = None
       /\ multiNodeId' \in [Actions -> Int]
       /\ \A b \in Actions :
             multiNodeId'[b] \in 1 - Size[TaskOf(b)] .. Size[TaskOf(b)] \cup {UNASSIGNED_ID}
       /\ nextProcessId' \in [Tasks -> Int]
       /\ slaves' \in [Tasks -> SUBSET Actions]
       /\ job' \in [Tasks -> Actions \cup {None}]
  BY <1>2, <1>15, <1>17, LaunchStep
<1>19. Types'
  <2>1. /\ tdQueue' \in Seq(RequestType) /\ callback' \in [Tasks -> CallbackType]
        /\ ended' \in [Tasks -> Nat] /\ notices' \in [Tasks -> Nat]
        /\ halted' \in BOOLEAN /\ errors' \in 0 .. MaxErrors /\ erred' \in SUBSET Tasks
    BY <1>2, <1>3 DEF Types
  <2>2. /\ state' \in [Actions -> {"NEW", "WAITING", "RUNNING", "FINISHED", "FAILED"}]
        /\ resource' \in [Actions -> Workers \cup {None}]
        /\ executing' \in [Actions -> SUBSET Workers]
    <3>1. /\ state \in [Actions -> {"NEW", "WAITING", "RUNNING", "FINISHED", "FAILED"}]
          /\ resource \in [Actions -> Workers \cup {None}]
      BY <1>3 DEF Types
    <3>2. state' \in [Actions -> {"NEW", "WAITING", "RUNNING", "FINISHED", "FAILED"}]
      BY <1>1, <3>1
    <3>3. resource' \in [Actions -> Workers \cup {None}]
      BY <1>1, <1>10, <3>1
    <3>. QED  BY <1>17, <3>2, <3>3 DEF Launches
  <2>3. status' \in [Tasks -> {"TO_ANALYSE", "TO_EXECUTE", "FINISHED", "FAILED"}]
    <3>1. status \in [Tasks -> {"TO_ANALYSE", "TO_EXECUTE", "FINISHED", "FAILED"}]
      BY <1>3 DEF Types
    <3>. QED  BY <1>1, <3>1
  <2>. QED  BY <1>12, <1>14, <1>18, <2>1, <2>2, <2>3, Zenon DEF Types, CallbackType, RequestType
<1>20. \A a \in Actions : resource'[a] = IF TaskOf(a) = t THEN choice[a[2]] ELSE resource[a]
  BY <1>1
<1>21. PlacesOK'
  <2>1. ASSUME NEW b \in Actions, NEW v \in Workers
        PROVE  b \in waiting'[v] <=> state'[b] = "WAITING" /\ resource'[b] = v
    <3>1. b \in waiting[v] <=> state[b] = "WAITING" /\ resource[b] = v
      BY DEF GroupInv, PlacesOK
    <3>2. CASE TaskOf(b) = t
      BY <1>7, <1>13, <1>14, <1>20, <3>1, <3>2
    <3>3. CASE TaskOf(b) # t
      <4>1. b \notin L
        BY <1>10, <3>3
      <4>. QED  BY <1>13, <1>14, <1>20, <3>1, <3>3, <4>1
    <3>. QED  BY <3>2, <3>3
  <2>2. ASSUME NEW b \in Actions, state'[b] \in {"WAITING", "RUNNING"}
        PROVE  resource'[b] \in Workers
    <3>1. CASE TaskOf(b) = t
      BY <1>10, <1>20, <3>1
    <3>2. CASE TaskOf(b) # t
      <4>1. b \notin L
        BY <1>10, <3>2
      <4>. QED  BY <1>13, <1>20, <2>2, <3>2, <4>1 DEF GroupInv, PlacesOK
    <3>. QED  BY <3>1, <3>2
  <2>. QED  BY <2>1, <2>2 DEF PlacesOK
<1>22. CountsOK'
  <2>1. Left(t)' = Members(t)
    BY <1>6, <1>13 DEF Left
  <2>2. ASSUME NEW u \in Tasks, u # t PROVE Left(u)' = Left(u)
    <3>1. \A a \in Members(u) : a \in Actions /\ a \notin L /\ TaskOf(a) # t
      BY <1>6, <1>9, <2>2
    <3>. QED  BY <1>13, <3>1 DEF Left
  <2>3. executionCount' = [u \in Tasks |-> Cardinality(Left(u)')]
    <3>1. executionCount = [u \in Tasks |-> Cardinality(Left(u))]
      BY DEF GroupInv, CountsOK
    <3>2. executionCount' = [u \in Tasks |-> IF u = t THEN Size[t] ELSE executionCount[u]]
      BY <1>1, <3>1
    <3>3. \A u \in Tasks : Cardinality(Left(u)') = IF u = t THEN Size[t] ELSE executionCount[u]
      BY <1>6, <2>1, <2>2, <3>1
    <3>. QED  BY <3>2, <3>3
  <2>4. ASSUME NEW b \in Actions, status'[TaskOf(b)] = "TO_ANALYSE" PROVE state'[b] = "NEW"
    <3>1. status \in [Tasks -> {"TO_ANALYSE", "TO_EXECUTE", "FINISHED", "FAILED"}]
      BY <1>3 DEF Types
    <3>2. TaskOf(b) # t /\ status[TaskOf(b)] = "TO_ANALYSE"
      BY <1>1, <1>5, <2>4, <3>1
    <3>3. b \notin L /\ state[b] = "NEW"
      BY <1>10, <3>2 DEF GroupInv, CountsOK
    <3>. QED  BY <1>13, <3>2, <3>3
  <2>. QED  BY <2>3, <2>4 DEF CountsOK
<1>23. RequestsOK'
  BY <1>4, <1>18 DEF RequestsOK
<1>. QED  BY <1>18, <1>19, <1>21, <1>22, <1>23 DEF GroupInv

\* The AP treats a notification.
LEMMA EndTaskStep ==
    ASSUME GroupInv, NEW t \in Tasks, EndTask(t)
    PROVE  GroupInv'
<1>1. /\ state' = state /\ resource' = resource /\ executing' = executing /\ free' = free
      /\ waiting' = waiting /\ multiNodeId' = multiNodeId /\ nextProcessId' = nextProcessId
      /\ slaves' = slaves /\ status' = status /\ executionCount' = executionCount
      /\ job' = job /\ callback' = callback /\ tdQueue' = tdQueue /\ errors' = errors /\ erred' = erred
  BY DEF EndTask, schedVars, groupVars
<1>2. AskedOnce' /\ Pending' = Pending
  BY <1>1, SameRequests DEF GroupInv, RequestsOK
<1>3. notices' \in [Tasks -> Nat] /\ ended' \in [Tasks -> Nat] /\ halted' \in BOOLEAN
  <2>1. notices \in [Tasks -> Nat] /\ ended \in [Tasks -> Nat] /\ halted \in BOOLEAN
    BY DEF GroupInv, Types
  <2>2. /\ notices[t] > 0 /\ notices' = [notices EXCEPT ![t] = @ - 1]
        /\ ended' = [ended EXCEPT ![t] = IF executionCount[t] = 0 /\ status[t] = "FINISHED"
                                         THEN @ + 1 ELSE @]
        /\ halted' = (halted \/ (executionCount[t] = 0 /\ status[t] = "FAILED"))
    BY DEF EndTask
  <2>3. notices[t] - 1 \in Nat /\ ended[t] \in Nat
    BY <2>1, <2>2
  <2>. QED  BY <2>1, <2>2, <2>3
<1>4. Types'
  BY <1>1, <1>3 DEF GroupInv, Types, CallbackType, RequestType
<1>5. PlacesOK' /\ CountsOK'
  BY <1>1 DEF GroupInv, PlacesOK, CountsOK, Left
<1>6. RequestsOK'
  BY <1>1, <1>2 DEF GroupInv, RequestsOK
<1>7. GroupsOK'
  BY <1>1, <1>2, SameGroups DEF GroupInv
<1>. QED  BY <1>4, <1>5, <1>6, <1>7 DEF GroupInv

\* The invariant holds at first.
LEMMA GroupInit == Init => GroupInv
<1>. SUFFICES ASSUME Init PROVE GroupInv
  OBVIOUS
<1>1. Pending = {}
  <2>1. SUFFICES ASSUME NEW a \in Actions PROVE ~ Asked(a)
    BY DEF Pending
  <2>2. callback[TaskOf(a)] = NoCallback /\ Len(tdQueue) = 0 /\ a # None
    BY GroupFacts DEF Init
  <2>. QED  BY <2>2 DEF Asked, NoCallback
<1>2. \A t \in Tasks : Settled(t) = {} /\ Left(t) = {}
  BY GroupFacts DEF Init, Settled, Left
<1>3. \A t \in Tasks : Size[t] \in Nat /\ Size[t] > 0 /\ Members(t) \subseteq Actions
  BY GroupFacts
<1>4. Types
  <2>1. free \in [Workers -> Nat]
    BY CapacityAssumption DEF Init
  <2>2. nextProcessId \in [Tasks -> Int]
    BY SizeAssumption DEF Init
  <2>3. callback \in [Tasks -> CallbackType]
    BY DEF Init, CallbackType, NoCallback
  <2>4. errors \in 0 .. MaxErrors
    BY ErrorsAssumption DEF Init
  <2>5. tdQueue \in Seq(RequestType)
    BY DEF Init
  <2>6. /\ multiNodeId \in [Actions -> Int]
        /\ \A a \in Actions : multiNodeId[a] \in 1 - Size[TaskOf(a)] .. Size[TaskOf(a)] \cup {UNASSIGNED_ID}
    BY DEF Init, UNASSIGNED_ID
  <2>7. /\ state \in [Actions -> {"NEW", "WAITING", "RUNNING", "FINISHED", "FAILED"}]
        /\ resource \in [Actions -> Workers \cup {None}]
        /\ executing \in [Actions -> SUBSET Workers]
        /\ waiting \in [Workers -> SUBSET Actions]
        /\ slaves \in [Tasks -> SUBSET Actions]
        /\ job \in [Tasks -> Actions \cup {None}]
    BY DEF Init
  <2>8. /\ status \in [Tasks -> {"TO_ANALYSE", "TO_EXECUTE", "FINISHED", "FAILED"}]
        /\ notices \in [Tasks -> Nat] /\ ended \in [Tasks -> Nat]
        /\ halted \in BOOLEAN /\ erred \in SUBSET Tasks
    BY DEF Init
  <2>. QED  BY <2>1, <2>2, <2>3, <2>4, <2>5, <2>6, <2>7, <2>8, Zenon DEF Types
<1>5. PlacesOK
  BY DEF Init, PlacesOK
<1>6. CountsOK
  <2>1. \A t \in Tasks : Cardinality(Left(t)) = 0
    BY <1>2, FS_EmptySet
  <2>2. executionCount = [t \in Tasks |-> Cardinality(Left(t))]
    BY <2>1 DEF Init
  <2>. QED  BY <2>2 DEF Init, CountsOK
<1>7. RequestsOK
  <2>1. AskedOnce
    BY DEF Init, AskedOnce, NoCallback
  <2>. QED  BY <1>1, <2>1 DEF RequestsOK
<1>8. GroupsOK
  <2>1. ASSUME NEW t \in Tasks, Multi(t) PROVE Forming(t)
    <3>1. nextProcessId[t] = Size[t] /\ job[t] = None /\ slaves[t] = {}
      BY DEF Init
    <3>2. nextProcessId[t] = Size[t] - Cardinality(Settled(t))
      <4>1. Cardinality(Settled(t)) = 0
        BY <1>2, FS_EmptySet
      <4>. QED  BY <1>3, <3>1, <4>1
    <3>3. ASSUME NEW a \in Members(t)
          PROVE  state[a] = "NEW" /\ executing[a] = {} /\ Cardinality(executing[a]) <= 1
      <4>1. state[a] = "NEW" /\ executing[a] = {}
        BY <1>3 DEF Init
      <4>2. Cardinality(executing[a]) = 0
        BY <4>1, FS_EmptySet
      <4>. QED  BY <4>1, <4>2
    <3>. QED  BY <1>1, <1>2, <1>3, <3>1, <3>2, <3>3 DEF Forming
  <2>2. ASSUME NEW t \in Tasks, ~ Multi(t) PROVE PlainOK(t)
    BY <1>3, <2>2 DEF Init, PlainOK, Multi
  <2>. QED  BY <2>1, <2>2 DEF GroupsOK
<1>. QED  BY <1>4, <1>5, <1>6, <1>7, <1>8 DEF GroupInv

\* The end of an execution for good, whichever way.
LEMMA EndCases ==
    ASSUME GroupInv, ActionCompleted \/ FailAction
    PROVE  GroupInv'
<1>1. CASE ActionCompleted
  <2>. DEFINE a == Head(tdQueue).action
  <2>1. PICK r \in Resumed(a) :
           /\ state' = StateAfter(a, r, "FINISHED") /\ free' = FreeAfter(a, r)
           /\ waiting' = WaitingAfter(a, r) /\ DoAction([b \in r |-> 1])
    BY <1>1, Zenon DEF ActionCompleted
  <2>2. /\ Treats("COMPLETED") /\ NotifyEnd(a, "FINISHED")
        /\ UNCHANGED <<resource, executing, callback, ended, halted, errors, erred>>
    BY <1>1, Zenon DEF ActionCompleted
  <2>. QED  BY <2>1, <2>2, EndStep
<1>2. CASE FailAction
  <2>. DEFINE a == Head(tdQueue).action
  <2>1. PICK r \in Resumed(a) :
           /\ state' = StateAfter(a, r, "FAILED") /\ free' = FreeAfter(a, r)
           /\ waiting' = WaitingAfter(a, r) /\ DoAction([b \in r |-> 1])
    BY <1>2, Zenon DEF FailAction
  <2>2. /\ Treats("ERROR") /\ NotifyEnd(a, "FAILED")
        /\ UNCHANGED <<resource, executing, callback, ended, halted, errors, erred>>
    BY <1>2, Zenon DEF FailAction
  <2>. QED  BY <2>1, <2>2, EndStep
<1>. QED  BY <1>1, <1>2

\* What the TD does with an execution a that tries again on w, r taking its unit.
Retries(a, r, w, now) ==
    /\ now <=> WaitingAfter(a, r)[w] = {} /\ FreeAfter(a, r)[w] > 0
    /\ resource' = [resource EXCEPT ![a] = w]
    /\ state' = StateAfter(a, r, IF now THEN "RUNNING" ELSE "WAITING")
    /\ executing' = [executing EXCEPT ![a] = @ \cup IF now THEN {w} ELSE {}]
    /\ free' = [FreeAfter(a, r) EXCEPT ![w] = @ - IF now THEN 1 ELSE 0]
    /\ waiting' = [WaitingAfter(a, r) EXCEPT ![w] = @ \cup IF now THEN {} ELSE {a}]
    /\ DoAction([b \in r \cup (IF now THEN {a} ELSE {}) |-> IF b = a THEN 2 ELSE 1])

\* There are such r and w.
LEMMA RetryCases ==
    ASSUME RetryAction
    PROVE  \E r \in Resumed(Head(tdQueue).action), w \in Workers, now \in BOOLEAN :
              Retries(Head(tdQueue).action, r, w, now)
<1>. DEFINE a == Head(tdQueue).action
<1>1. PICK r \in Resumed(a), w \in Workers \ executing[a] :
          LET fr  == FreeAfter(a, r)
              wt  == WaitingAfter(a, r)
              now == wt[w] = {} /\ fr[w] > 0
          IN  /\ resource' = [resource EXCEPT ![a] = w]
              /\ state' = StateAfter(a, r, IF now THEN "RUNNING" ELSE "WAITING")
              /\ executing' = [executing EXCEPT ![a] = @ \cup IF now THEN {w} ELSE {}]
              /\ free' = [fr EXCEPT ![w] = @ - IF now THEN 1 ELSE 0]
              /\ waiting' = [wt EXCEPT ![w] = @ \cup IF now THEN {} ELSE {a}]
              /\ DoAction([b \in r \cup (IF now THEN {a} ELSE {}) |-> IF b = a THEN 2 ELSE 1])
  BY Zenon DEF RetryAction
<1>. DEFINE now == WaitingAfter(a, r)[w] = {} /\ FreeAfter(a, r)[w] > 0
<1>2. now \in BOOLEAN /\ w \in Workers
  OBVIOUS
<1>3. Retries(a, r, w, now)
  BY <1>1, Zenon DEF Retries
<1>. HIDE DEF now
<1>. QED  BY <1>2, <1>3

\* Every step keeps the invariant.
LEMMA GroupNext == GroupInv /\ [Next]_vars => GroupInv'
<1>. SUFFICES ASSUME GroupInv, [Next]_vars PROVE GroupInv'
  OBVIOUS
<1>1. ASSUME NEW t \in Tasks, NEW choice \in [1 .. Size[t] -> Workers], SubmitTask(t, choice)
      PROVE  GroupInv'
  BY <1>1, SubmitStep
<1>2. ASSUME NEW t \in Tasks, JobCompleted(t) PROVE GroupInv'
  <2>1. /\ job[t] # None /\ EndOfJob(t, "COMPLETED") /\ job' = [job EXCEPT ![t] = None]
        /\ UNCHANGED <<schedVars, groupVars, taskVars, ended, halted, errors, erred>>
    BY <1>2 DEF JobCompleted
  <2>2. errors' \in 0 .. MaxErrors /\ erred' \in SUBSET Tasks
    BY <2>1 DEF GroupInv, Types
  <2>3. UNCHANGED <<schedVars, groupVars, taskVars, ended, halted>>
    BY <2>1
  <2>. QED  BY <2>1, <2>2, <2>3, JobEndStep
<1>3. ASSUME NEW t \in Tasks, JobError(t) PROVE GroupInv'
  <2>1. /\ job[t] # None /\ EndOfJob(t, "ERROR") /\ job' = [job EXCEPT ![t] = None]
        /\ UNCHANGED <<schedVars, groupVars, taskVars, ended, halted>>
        /\ errors < MaxErrors /\ errors' = errors + 1 /\ erred' = erred \cup {t}
    BY <1>3 DEF JobError
  <2>2. errors \in 0 .. MaxErrors /\ erred \in SUBSET Tasks
    BY DEF GroupInv, Types
  <2>3. errors' \in 0 .. MaxErrors /\ erred' \in SUBSET Tasks
    BY <2>1, <2>2, ErrorsAssumption
  <2>. QED  BY <2>1, <2>3, JobEndStep
<1>4. ASSUME NEW t \in Tasks, TellSlave(t) \/ NotifyMaster(t) PROVE GroupInv'
  BY <1>4, NotifyStep
<1>5. ASSUME NEW t \in Tasks, NotificationCut(t) PROVE GroupInv'
  BY <1>5, CutStep
<1>6. ASSUME ActionCompleted \/ FailAction PROVE GroupInv'
  BY <1>6, EndCases
<1>7. ASSUME RetryAction PROVE GroupInv'
  <2>. DEFINE a == Head(tdQueue).action
  <2>1. PICK r \in Resumed(a), w \in Workers, now \in BOOLEAN : Retries(a, r, w, now)
    BY <1>7, RetryCases
  <2>2. Treats("ERROR") /\ UNCHANGED <<taskVars, callback, ended, halted, errors, erred>>
    BY <1>7, Zenon DEF RetryAction
  <2>. QED  BY <2>1, <2>2, RetryStep DEF Retries
<1>8. ASSUME NEW t \in Tasks, EndTask(t) PROVE GroupInv'
  BY <1>8, EndTaskStep
<1>9. CASE UNCHANGED vars
  <2>1. /\ state' = state /\ resource' = resource /\ executing' = executing /\ free' = free
        /\ waiting' = waiting /\ multiNodeId' = multiNodeId /\ nextProcessId' = nextProcessId
        /\ slaves' = slaves /\ status' = status /\ executionCount' = executionCount
        /\ notices' = notices /\ ended' = ended /\ halted' = halted
        /\ job' = job /\ callback' = callback /\ tdQueue' = tdQueue /\ errors' = errors /\ erred' = erred
    BY <1>9 DEF vars, schedVars, groupVars, taskVars
  <2>2. AskedOnce' /\ Pending' = Pending
    BY <2>1, SameRequests DEF GroupInv, RequestsOK
  <2>3. Types'
    BY <2>1 DEF GroupInv, Types, CallbackType, RequestType
  <2>4. PlacesOK' /\ CountsOK'
    BY <2>1 DEF GroupInv, PlacesOK, CountsOK, Left
  <2>5. RequestsOK'
    BY <2>1, <2>2 DEF GroupInv, RequestsOK
  <2>6. GroupsOK'
    BY <2>1, <2>2, SameGroups DEF GroupInv
  <2>. QED  BY <2>3, <2>4, <2>5, <2>6 DEF GroupInv
<1>. QED  BY <1>1, <1>2, <1>3, <1>4, <1>5, <1>6, <1>7, <1>8, <1>9, SlaveCases DEF Next, TDStep

\* GroupInv is an invariant.
THEOREM GroupsAreKept == Spec => []GroupInv
<1>. QED  BY GroupInit, GroupNext, PTL DEF Spec

-----------------------------------------------------------------------------
(* Types and jobs *)

\* Type correctness: whatever is launched again, the next identifier of a group never goes
\* more than its size below 0, and the units of a worker and the count of the executions
\* of a task never become negative.
THEOREM TypeCorrect == Spec => []TypeOK
<1>1. GroupInv => TypeOK
  <2>. SUFFICES ASSUME GroupInv PROVE TypeOK
    OBVIOUS
  <2>1. ASSUME NEW t \in Tasks PROVE nextProcessId[t] \in - Size[t] .. Size[t]
    <3>1. Size[t] \in Nat /\ Size[t] > 0
      BY GroupFacts
    <3>2. Cardinality(Settled(t)) \in Nat /\ Cardinality(Settled(t)) <= Size[t]
      BY SettledFacts
    <3>3. \/ nextProcessId[t] = 1 \/ nextProcessId[t] = 0
          \/ nextProcessId[t] = Size[t] - Cardinality(Settled(t))
          \/ 0 - Cardinality(Settled(t)) <= nextProcessId[t] /\ nextProcessId[t] <= 0
      BY DEF GroupInv, GroupsOK, Forming, Working, Over, PlainOK
    <3>4. nextProcessId[t] \in Int
      BY DEF GroupInv, Types
    <3>. QED  BY <3>1, <3>2, <3>3, <3>4
  <2>2. executionCount \in [Tasks -> Nat]
    BY LeftFacts DEF GroupInv, CountsOK
  <2>3. state \in [Actions -> {"NEW", "RUNNABLE", "WAITING", "RUNNING", "FINISHED", "FAILED"}]
    BY DEF GroupInv, Types
  <2>4. Types
    BY DEF GroupInv
  <2>. QED  BY <2>1, <2>2, <2>3, <2>4, Zenon DEF Types, TypeOK, CallbackType, RequestType
<1>. QED  BY <1>1, GroupsAreKept, PTL

\* The job of a task runs while every node of the task is held, each execution of the group
\* under its own identifier, and the others are the slaves of the one that has the job
\* (MultiNodeGroup.registerProcess, MultiNodeExecutionAction.doAction).
THEOREM JobsHaveTheirNodes == Spec => []JobHasItsNodes
<1>1. GroupInv => JobHasItsNodes
  <2>. SUFFICES ASSUME GroupInv, NEW t \in Tasks, job[t] # None
                PROVE  /\ \A a \in Members(t) : state[a] = "RUNNING"
                       /\ Multi(t) => /\ {multiNodeId[a] : a \in Members(t)} = 1 .. Size[t]
                                      /\ slaves[t] = Members(t) \ {job[t]}
    BY DEF JobHasItsNodes
  <2>1. /\ \A a \in Members(t) : state[a] = "RUNNING"
        /\ slaves[t] = Members(t) \ {job[t]} /\ (Multi(t) => Working(t))
    BY JobFacts
  <2>2. ASSUME Working(t) PROVE {multiNodeId[a] : a \in Members(t)} = 1 .. Size[t]
    <3>. DEFINE M == Members(t)
                I == {multiNodeId[a] : a \in M}
                f == [a \in M |-> multiNodeId[a]]
    <3>1. /\ \A a \in M : multiNodeId[a] \in 1 .. Size[t]
          /\ \A a, b \in M : multiNodeId[a] = multiNodeId[b] => a = b
      BY <2>2 DEF Working
    <3>2. IsFiniteSet(M) /\ Cardinality(M) = Size[t] /\ Size[t] \in Nat /\ Size[t] > 0
      BY GroupFacts
    <3>. HIDE DEF M
    <3>3. ExistsBijection(M, I)
      <4>1. f \in Bijection(M, I)
        BY <3>1 DEF Bijection, Injection, Surjection, IsInjective
      <4>. HIDE DEF f, I
      <4>. QED  BY <4>1 DEF ExistsBijection
    <3>4. Cardinality(I) = Size[t]
      <4>. HIDE DEF I
      <4>. QED  BY <3>2, <3>3, FS_Bijection
    <3>5. I \in SUBSET (1 .. Size[t])
      BY <3>1
    <3>6. IsFiniteSet(1 .. Size[t]) /\ Cardinality(1 .. Size[t]) = Size[t]
      <4>1. Size[t] \in Int /\ 1 \in Int
        BY <3>2
      <4>2. /\ IsFiniteSet(1 .. Size[t])
            /\ Cardinality(1 .. Size[t]) = IF 1 > Size[t] THEN 0 ELSE Size[t] - 1 + 1
        BY <4>1, FS_Interval, Zenon
      <4>. QED  BY <3>2, <4>2
    <3>7. I = 1 .. Size[t]
      <4>. HIDE DEF I
      <4>. QED  BY <3>4, <3>5, <3>6, FS_Subset
    <3>. QED  BY <3>7 DEF M
  <2>. QED  BY <2>1, <2>2
<1>. QED  BY <1>1, GroupsAreKept, PTL

-----------------------------------------------------------------------------
(* The master is the last of its group *)

\* What the AP has to do with the end of a task comes after the end of all its executions.
LEMMA NoticesLast ==
    ASSUME GroupInv',
           \A t \in Tasks : /\ notices'[t] + ended'[t] <= 1
                            /\ notices'[t] > 0 \/ ended'[t] > 0 => \A a \in Members(t) : HasEnded(a)'
    PROVE  EndsWhenFree'
<1>1. ASSUME NEW t \in Tasks, \A a \in Members(t) : HasEnded(a)' PROVE executionCount'[t] = 0
  <2>1. Left(t)' = {}
    BY <1>1 DEF HasEnded, Left
  <2>2. executionCount'[t] = Cardinality(Left(t)')
    BY DEF GroupInv, CountsOK
  <2>. QED  BY <2>1, <2>2, FS_EmptySet
<1>. QED  BY <1>1 DEF EndsWhenFree, HasEnded

\* What EndsWhenFree says with the words of the lemma.
LEMMA EndsFacts ==
    ASSUME GroupInv, EndsWhenFree, NEW t \in Tasks
    PROVE  /\ notices[t] \in Nat /\ ended[t] \in Nat /\ notices[t] + ended[t] <= 1
           /\ notices[t] > 0 \/ ended[t] > 0 => \A a \in Members(t) : HasEnded(a)
           /\ (\E a \in Members(t) : ~ HasEnded(a)) => notices[t] = 0 /\ ended[t] = 0
<1>1. notices[t] \in Nat /\ ended[t] \in Nat
  BY DEF GroupInv, Types
<1>. QED  BY <1>1 DEF EndsWhenFree, HasEnded

\* When neither the threads nor the TD go on.
LEMMA SameLast ==
    ASSUME GroupInv, MasterLast, tdQueue' = tdQueue, callback' = callback,
           \A a \in Pending : multiNodeId'[a] = multiNodeId[a] /\ executing'[a] = executing[a],
           \A a \in Actions : HasEnded(a) => HasEnded(a)'
    PROVE  MasterLast'
<1>1. Types /\ AskedOnce
  BY DEF GroupInv, RequestsOK
<1>2. /\ \A i \in 1 .. Len(tdQueue) : tdQueue[i].action \in Pending
      /\ \A t \in Tasks : /\ callback[t].left \subseteq Pending
                          /\ callback[t].master # None => callback[t].master \in Pending
  BY <1>1, QueueFacts
<1>3. /\ \A a \in Pending : IsMaster(a)' <=> IsMaster(a)
      /\ \A a \in Pending : \A k : Settles(k, a)' <=> Settles(k, a)
  BY DEF IsMaster, Multi, Settles
<1>4. /\ Len(tdQueue) \in Nat
      /\ \A n \in Nat : \A a : n <= Len(tdQueue) /\ SettledBefore(n, a) => SettledBefore(n, a)'
  <2>1. Len(tdQueue) \in Nat
    BY <1>1 DEF Types
  <2>2. ASSUME NEW n \in Nat, NEW a, n <= Len(tdQueue), SettledBefore(n, a)
        PROVE  SettledBefore(n, a)'
    <3>1. PICK j \in 1 .. n : tdQueue[j].action = a /\ Settles(tdQueue[j].kind, a)
      BY <2>2 DEF SettledBefore
    <3>2. j \in 1 .. Len(tdQueue)
      BY <2>1, <2>2
    <3>3. Settles(tdQueue[j].kind, a)'
      BY <1>2, <1>3, <3>1, <3>2
    <3>. QED  BY <3>1, <3>3 DEF SettledBefore
  <2>. QED  BY <2>1, <2>2
<1>5. \A t \in Tasks : \A a \in Members(t) : a \in Actions
  BY GroupFacts
<1>6. ASSUME NEW t \in Tasks PROVE TellsLast(t)'
  <2>1. TellsLast(t)
    BY DEF MasterLast
  <2>2. SUFFICES ASSUME callback[t].master # None PROVE TellsLast(t)'
    BY DEF TellsLast
  <2>3. callback[t].master \in Pending /\ \A a \in callback[t].left : a \in Pending
    BY <1>2, <2>2
  <2>4. IsMaster(callback[t].master)' /\ \A a \in callback[t].left : ~ IsMaster(a)'
    BY <1>3, <2>1, <2>2, <2>3 DEF TellsLast
  <2>5. ASSUME Settles(callback[t].kind, callback[t].master)', NEW a \in Members(t)
        PROVE  \/ a = callback[t].master \/ HasEnded(a)' \/ SettledBefore(Len(tdQueue), a)'
               \/ a \in callback[t].left /\ Settles(callback[t].kind, a)'
    <3>1. Settles(callback[t].kind, callback[t].master)
      BY <1>3, <2>3, <2>5
    <3>2. \/ a = callback[t].master \/ HasEnded(a) \/ SettledBefore(Len(tdQueue), a)
          \/ a \in callback[t].left /\ Settles(callback[t].kind, a)
      BY <2>1, <2>2, <3>1 DEF TellsLast
    <3>3. SettledBefore(Len(tdQueue), a) => SettledBefore(Len(tdQueue), a)'
      BY <1>4
    <3>4. HasEnded(a) => HasEnded(a)'
      BY <1>5
    <3>5. a \in callback[t].left /\ Settles(callback[t].kind, a) => Settles(callback[t].kind, a)'
      BY <1>3, <2>3
    <3>. QED  BY <3>2, <3>3, <3>4, <3>5
  <2>. QED  BY <2>4, <2>5 DEF TellsLast
<1>7. ASSUME NEW i \in 1 .. Len(tdQueue) PROVE AsksLast(i)'
  <2>. DEFINE q == tdQueue[i]
  <2>1. AsksLast(i) /\ q.action \in Pending /\ q.action \in Actions /\ TaskOf(q.action) \in Tasks
    BY <1>1, <1>2, QueueFacts, GroupFacts DEF MasterLast
  <2>2. ASSUME IsMaster(q.action)', Settles(q.kind, q.action)', NEW a \in Members(TaskOf(q.action))
        PROVE  a = q.action \/ HasEnded(a)' \/ SettledBefore(i - 1, a)'
    <3>1. IsMaster(q.action) /\ Settles(q.kind, q.action)
      BY <1>3, <2>1, <2>2
    <3>2. a = q.action \/ HasEnded(a) \/ SettledBefore(i - 1, a)
      BY <2>1, <3>1 DEF AsksLast
    <3>3. i - 1 \in Nat /\ i - 1 <= Len(tdQueue)
      BY <1>4
    <3>4. SettledBefore(i - 1, a) => SettledBefore(i - 1, a)'
      BY <1>4, <3>3
    <3>. QED  BY <1>5, <2>1, <3>2, <3>4
  <2>. QED  BY <2>2 DEF AsksLast
<1>. QED  BY <1>6, <1>7 DEF MasterLast

\* At the end of a job the master is the execution that has it, and it has been launched no
\* more often than the others.
LEMMA JobEndLast ==
    ASSUME GroupInv, MasterLast, NEW t \in Tasks, NEW kind \in {"COMPLETED", "ERROR"},
           job[t] # None, EndOfJob(t, kind), state' = state, executing' = executing,
           multiNodeId' = multiNodeId
    PROVE  MasterLast'
<1>. DEFINE m == job[t]
<1>1. /\ m \in Members(t) /\ slaves[t] = Members(t) \ {m} /\ (Multi(t) => Working(t))
      /\ \A a \in Members(t) : a \notin Pending
  BY JobFacts
<1>2. /\ tdQueue' = tdQueue
      /\ callback' = [callback EXCEPT ![t] = [kind |-> kind, left |-> slaves[t], master |-> m]]
      /\ callback \in [Tasks -> CallbackType]
  BY DEF EndOfJob, GroupInv, Types
<1>3. /\ \A u \in Tasks : u # t => callback'[u] = callback[u]
      /\ callback'[t].kind = kind /\ callback'[t].left = slaves[t] /\ callback'[t].master = m
  BY <1>2
<1>4. /\ \A a : (IsMaster(a)' <=> IsMaster(a)) /\ (HasEnded(a)' <=> HasEnded(a))
      /\ \A k, a : Settles(k, a)' <=> Settles(k, a)
  BY DEF IsMaster, Multi, HasEnded, Settles
<1>5. \A n, a : SettledBefore(n, a)' <=> SettledBefore(n, a)
  BY <1>2, <1>4 DEF SettledBefore
<1>6. ASSUME NEW u \in Tasks, u # t PROVE TellsLast(u)'
  <2>1. TellsLast(u) /\ callback'[u] = callback[u]
    BY <1>3, <1>6 DEF MasterLast
  <2>. QED  BY <1>2, <1>4, <1>5, <2>1 DEF TellsLast
<1>7. TellsLast(t)'
  <2>1. IsMaster(m)
    BY <1>1, GroupFacts DEF IsMaster, Working
  <2>2. ASSUME NEW a \in slaves[t] PROVE ~ IsMaster(a)
    <3>1. a \in Members(t) /\ a # m /\ TaskOf(a) = t
      BY <1>1, <2>2, GroupFacts
    <3>2. Multi(t)
      <4>1. SUFFICES ASSUME Size[t] = 1 PROVE FALSE
        BY GroupFacts DEF Multi
      <4>2. \A b \in Members(t) : b = <<t, 1>>
        BY <4>1, GroupFacts
      <4>. QED  BY <1>1, <3>1, <4>2
    <3>3. Working(t)
      BY <1>1, <3>2
    <3>4. multiNodeId[a] # MASTER_GROUP_ID
      BY <1>1, <3>1, <3>3 DEF Working
    <3>. QED  BY <3>1, <3>2, <3>4 DEF IsMaster
  <2>3. ASSUME Settles(kind, m), NEW a \in Members(t), a # m
        PROVE  a \in slaves[t] /\ Settles(kind, a)
    <3>1. a \in slaves[t]
      BY <1>1, <2>3
    <3>2. CASE kind = "COMPLETED"
      BY <3>1, <3>2 DEF Settles
    <3>3. CASE kind # "COMPLETED"
      <4>1. Cardinality(executing[m]) >= SCHEDULING_CHANCES
        BY <2>3, <3>3 DEF Settles
      <4>2. Working(t)
        <5>1. Multi(t)
          <6>1. SUFFICES ASSUME Size[t] = 1 PROVE FALSE
            BY GroupFacts DEF Multi
          <6>2. \A b \in Members(t) : b = <<t, 1>>
            BY <6>1, GroupFacts
          <6>. QED  BY <1>1, <2>3, <6>2
        <5>. QED  BY <1>1, <5>1
      <4>3. Cardinality(executing[m]) <= Cardinality(executing[a])
        BY <4>2 DEF Working
      <4>4. Cardinality(executing[m]) \in Nat /\ Cardinality(executing[a]) \in Nat
        <5>1. m \in Actions /\ a \in Actions
          BY <1>1, GroupFacts
        <5>2. executing[m] \in SUBSET Workers /\ executing[a] \in SUBSET Workers
          BY <5>1 DEF GroupInv, Types
        <5>. QED  BY <5>2, CapacityAssumption, FS_Subset, FS_CardinalityType
      <4>5. Cardinality(executing[a]) >= SCHEDULING_CHANCES
        BY <4>1, <4>3, <4>4, ErrorsAssumption
      <4>. QED  BY <3>1, <4>5 DEF Settles
    <3>. QED  BY <3>2, <3>3
  <2>. QED  BY <1>3, <1>4, <2>1, <2>2, <2>3 DEF TellsLast
<1>8. ASSUME NEW i \in 1 .. Len(tdQueue) PROVE AsksLast(i)'
  <2>1. AsksLast(i)
    BY DEF MasterLast
  <2>. QED  BY <1>2, <1>4, <1>5, <2>1 DEF AsksLast
<1>. QED  BY <1>2, <1>6, <1>7, <1>8 DEF MasterLast

\* A thread that is cut short tells nobody any more, so that the master of its group does not
\* end either.
LEMMA CutLast ==
    ASSUME GroupInv, MasterLast, NEW t \in Tasks, NotificationCut(t)
    PROVE  MasterLast'
<1>1. /\ state' = state /\ executing' = executing /\ multiNodeId' = multiNodeId
      /\ tdQueue' = tdQueue
  BY DEF schedVars, groupVars, NotificationCut
<1>2. callback'[t].master = None /\ \A u \in Tasks : u # t => callback'[u] = callback[u]
  BY CutFacts DEF NoCallback
<1>3. ASSUME NEW u \in Tasks PROVE TellsLast(u)'
  <2>1. CASE u = t
    BY <1>2, <2>1 DEF TellsLast
  <2>2. CASE u # t
    <3>1. TellsLast(u) /\ callback'[u] = callback[u]
      BY <1>2, <2>2 DEF MasterLast
    <3>. QED  BY <1>1, <3>1 DEF TellsLast, IsMaster, Multi, HasEnded, Settles, SettledBefore
  <2>. QED  BY <2>1, <2>2
<1>4. ASSUME NEW i \in 1 .. Len(tdQueue) PROVE AsksLast(i)'
  BY <1>1 DEF MasterLast, AsksLast, IsMaster, Multi, HasEnded, Settles, SettledBefore
<1>. QED  BY <1>1, <1>3, <1>4 DEF MasterLast

\* The request of the master is the last that a thread adds.
LEMMA NotifyLast ==
    ASSUME GroupInv, MasterLast, NEW t \in Tasks, TellSlave(t) \/ NotifyMaster(t)
    PROVE  MasterLast'
<1>1. PICK n : n = Len(tdQueue)
  OBVIOUS
<1>2. PICK k : k = callback[t].kind
  OBVIOUS
<1>3. PICK s \in Members(t) \cap Pending :
         /\ n \in Nat /\ Len(tdQueue') = n + 1
         /\ \A i \in 1 .. n : tdQueue'[i] = tdQueue[i]
         /\ tdQueue'[n + 1] = [kind |-> k, action |-> s]
         /\ \A u \in Tasks : u # t => callback'[u] = callback[u]
         /\ callback'[t].kind = k \/ callback'[t] = NoCallback
         /\ \/ /\ s \in callback[t].left /\ callback'[t].left = callback[t].left \ {s}
               /\ callback'[t].master = callback[t].master
            \/ callback[t].left = {} /\ s = callback[t].master /\ callback'[t] = NoCallback
  BY <1>1, <1>2, NotifyFacts
<1>4. state' = state /\ executing' = executing /\ multiNodeId' = multiNodeId
  BY DEF schedVars, groupVars, TellSlave, NotifyMaster
<1>5. /\ \A a : (IsMaster(a)' <=> IsMaster(a)) /\ (HasEnded(a)' <=> HasEnded(a))
      /\ \A c, a : Settles(c, a)' <=> Settles(c, a)
  BY <1>4 DEF IsMaster, Multi, HasEnded, Settles
<1>6. s \in Members(t) /\ s \in Actions /\ TaskOf(s) = t /\ s # None /\ None \notin Members(t)
  BY GroupFacts
<1>7. \A l \in Nat : \A a : l <= n /\ SettledBefore(l, a) => SettledBefore(l, a)' /\ SettledBefore(n + 1, a)'
  <2>1. SUFFICES ASSUME NEW l \in Nat, NEW a, l <= n, SettledBefore(l, a)
                 PROVE  SettledBefore(l, a)' /\ SettledBefore(n + 1, a)'
    OBVIOUS
  <2>2. PICK j \in 1 .. l : tdQueue[j].action = a /\ Settles(tdQueue[j].kind, a)
    BY <2>1 DEF SettledBefore
  <2>3. j \in 1 .. n /\ j \in 1 .. n + 1
    BY <1>3, <2>1
  <2>4. tdQueue'[j] = tdQueue[j]
    BY <1>3, <2>3
  <2>5. tdQueue'[j].action = a /\ Settles(tdQueue[j].kind, a)'
    BY <1>5, <2>2, <2>4
  <2>. QED  BY <2>3, <2>5 DEF SettledBefore
<1>8. Settles(k, s) => SettledBefore(n + 1, s)'
  <2>1. n + 1 \in 1 .. n + 1 /\ tdQueue'[n + 1].action = s /\ tdQueue'[n + 1].kind = k
    BY <1>3
  <2>2. Settles(k, s) => Settles(tdQueue[n + 1].kind, s)'
    BY <1>5, <2>1
  <2>. QED  BY <2>1, <2>2 DEF SettledBefore
<1>9. ASSUME NEW u \in Tasks, u # t PROVE TellsLast(u)'
  <2>1. TellsLast(u) /\ callback'[u] = callback[u] /\ n <= n
    BY <1>3, <1>9 DEF MasterLast
  <2>. QED  BY <1>3, <1>5, <1>7, <1>1, <2>1 DEF TellsLast
<1>10. TellsLast(t)
  BY DEF MasterLast
<1>11. TellsLast(t)' /\ (IsMaster(s) /\ Settles(k, s) =>
                          \A a \in Members(t) : a = s \/ HasEnded(a) \/ SettledBefore(n, a)')
  <2>1. CASE /\ s \in callback[t].left /\ callback'[t].left = callback[t].left \ {s}
             /\ callback'[t].master = callback[t].master
    <3>1. callback[t].master # None
      BY <2>1 DEF GroupInv, RequestsOK, AskedOnce
    <3>2. /\ IsMaster(callback[t].master) /\ \A a \in callback[t].left : ~ IsMaster(a)
          /\ Settles(k, callback[t].master) =>
                \A a \in Members(t) :
                   \/ a = callback[t].master \/ HasEnded(a) \/ SettledBefore(n, a)
                   \/ a \in callback[t].left /\ Settles(k, a)
      BY <1>10, <1>1, <1>2, <3>1 DEF TellsLast
    <3>3. callback'[t].kind = k
      BY <1>3, <2>1, <3>1 DEF NoCallback
    <3>4. ASSUME Settles(k, callback[t].master), NEW a \in Members(t)
          PROVE  \/ a = callback[t].master \/ HasEnded(a) \/ SettledBefore(n + 1, a)'
                 \/ a \in callback[t].left \ {s} /\ Settles(k, a)
      <4>1. CASE SettledBefore(n, a)
        BY <1>3, <1>7, <4>1
      <4>2. CASE a \in callback[t].left /\ Settles(k, a)
        BY <1>8, <4>2
      <4>. QED  BY <3>2, <3>4, <4>1, <4>2
    <3>5. TellsLast(t)'
      BY <1>3, <1>5, <2>1, <3>2, <3>3, <3>4 DEF TellsLast
    <3>. QED  BY <2>1, <3>2, <3>5
  <2>2. CASE callback[t].left = {} /\ s = callback[t].master /\ callback'[t] = NoCallback
    <3>1. TellsLast(t)'
      BY <2>2 DEF TellsLast, NoCallback
    <3>2. Settles(k, s) => \A a \in Members(t) : a = s \/ HasEnded(a) \/ SettledBefore(n, a)
      BY <1>6, <1>10, <1>1, <1>2, <2>2 DEF TellsLast
    <3>3. \A a : SettledBefore(n, a) => SettledBefore(n, a)'
      BY <1>3, <1>7
    <3>. QED  BY <3>1, <3>2, <3>3
  <2>. QED  BY <1>3, <2>1, <2>2
<1>12. ASSUME NEW i \in 1 .. Len(tdQueue') PROVE AsksLast(i)'
  <2>1. CASE i \in 1 .. n
    <3>1. AsksLast(i) /\ tdQueue'[i] = tdQueue[i] /\ i - 1 \in Nat /\ i - 1 <= n
      BY <1>3, <1>1, <2>1 DEF MasterLast
    <3>2. \A a : SettledBefore(i - 1, a) => SettledBefore(i - 1, a)'
      BY <1>7, <3>1
    <3>. QED  BY <1>5, <3>1, <3>2 DEF AsksLast
  <2>2. CASE i = n + 1
    <3>1. tdQueue'[i].action = s /\ tdQueue'[i].kind = k /\ i - 1 = n
      BY <1>3, <2>2
    <3>. QED  BY <1>5, <1>6, <1>11, <3>1 DEF AsksLast
  <2>3. i \in 1 .. n \/ i = n + 1
    BY <1>3
  <2>. QED  BY <2>1, <2>2, <2>3
<1>. QED  BY <1>9, <1>11, <1>12 DEF MasterLast

\* The TD treats a request: those that are left move forward, and what the request ends for
\* good has ended.
LEMMA TreatsLast ==
    ASSUME GroupInv, MasterLast, NEW kind, Treats(kind), callback' = callback,
           NEW a, a = Head(tdQueue).action, Settles(kind, a) => HasEnded(a)',
           \A x \in Pending \ {a} : multiNodeId'[x] = multiNodeId[x] /\ executing'[x] = executing[x],
           \A x \in Actions : HasEnded(x) => HasEnded(x)'
    PROVE  MasterLast'
<1>1. PICK n : n = Len(tdQueue)
  OBVIOUS
<1>2. Types /\ AskedOnce
  BY DEF GroupInv, RequestsOK
<1>3. /\ n \in Nat /\ n > 0 /\ Len(tdQueue') = n - 1
      /\ tdQueue[1].action = a /\ tdQueue[1].kind = kind
      /\ \A i \in 1 .. Len(tdQueue') : i + 1 \in 1 .. n /\ tdQueue'[i] = tdQueue[i + 1]
      /\ AskedOnce' /\ Pending' = Pending \ {a} /\ a \in Pending
  BY <1>1, <1>2, TreatsStep
<1>4. /\ \A i \in 1 .. n : tdQueue[i].action \in Pending /\ tdQueue[i].action \in Actions
      /\ \A t \in Tasks : /\ callback[t].left \subseteq Pending
                          /\ callback[t].master # None => callback[t].master \in Pending
  BY <1>1, <1>2, QueueFacts
<1>5. \A i \in 1 .. n : i # 1 => tdQueue[i].action # a
  <2>1. 1 \in 1 .. n
    BY <1>3
  <2>. QED  BY <1>1, <1>2, <1>3, <2>1 DEF AskedOnce
<1>6. \A t \in Tasks : a \notin callback[t].left /\ callback[t].master # a
  <2>1. SUFFICES ASSUME NEW t \in Tasks, a \in callback[t].left \/ callback[t].master = a
                 PROVE  FALSE
    OBVIOUS
  <2>2. a \in Actions
    BY <1>3 DEF Pending
  <2>3. a \in Members(t)
    <3>1. callback[t].left \subseteq Members(t) /\ callback[t].master \in Members(t) \cup {None}
      BY <1>2 DEF AskedOnce
    <3>. QED  BY <2>1, <2>2, <3>1, GroupFacts
  <2>4. TaskOf(a) = t /\ 1 \in 1 .. n
    BY <1>3, <2>3, GroupFacts
  <2>. QED  BY <1>1, <1>2, <1>3, <2>1, <2>4 DEF AskedOnce
<1>7. /\ \A x \in Pending : x # a => (IsMaster(x)' <=> IsMaster(x))
      /\ \A x \in Pending : \A k : x # a => (Settles(k, x)' <=> Settles(k, x))
  BY DEF IsMaster, Multi, Settles
<1>8. ASSUME NEW l \in Nat, l < n, NEW x \in Actions, SettledBefore(l + 1, x)
      PROVE  HasEnded(x)' \/ SettledBefore(l, x)'
  <2>1. PICK j \in 1 .. l + 1 : tdQueue[j].action = x /\ Settles(tdQueue[j].kind, x)
    BY <1>8 DEF SettledBefore
  <2>2. CASE j = 1
    BY <1>3, <2>1, <2>2
  <2>3. CASE j # 1
    <3>1. j \in 1 .. n /\ j - 1 \in 1 .. l /\ j - 1 \in 1 .. Len(tdQueue') /\ j - 1 + 1 = j
      BY <1>3, <1>8, <2>3
    <3>2. tdQueue'[j - 1] = tdQueue[j]
      BY <1>3, <3>1
    <3>3. x # a /\ x \in Pending
      BY <1>4, <1>5, <2>1, <2>3, <3>1
    <3>4. tdQueue'[j - 1].action = x /\ Settles(tdQueue[j - 1].kind, x)'
      BY <1>7, <2>1, <3>2, <3>3
    <3>. QED  BY <3>1, <3>4 DEF SettledBefore
  <2>. QED  BY <2>2, <2>3
<1>9. \A t \in Tasks : \A x \in Members(t) : x \in Actions
  BY GroupFacts
<1>10. ASSUME NEW t \in Tasks PROVE TellsLast(t)'
  <2>1. SUFFICES ASSUME callback[t].master # None PROVE TellsLast(t)'
    BY DEF TellsLast
  <2>2. TellsLast(t)
    BY DEF MasterLast
  <2>3. /\ callback[t].master \in Pending /\ callback[t].master # a
        /\ \A x \in callback[t].left : x \in Pending /\ x # a
    BY <1>4, <1>6, <2>1
  <2>4. IsMaster(callback[t].master)' /\ \A x \in callback[t].left : ~ IsMaster(x)'
    BY <1>7, <2>1, <2>2, <2>3 DEF TellsLast
  <2>5. ASSUME Settles(callback[t].kind, callback[t].master)', NEW x \in Members(t)
        PROVE  \/ x = callback[t].master \/ HasEnded(x)' \/ SettledBefore(Len(tdQueue), x)'
               \/ x \in callback[t].left /\ Settles(callback[t].kind, x)'
    <3>1. Settles(callback[t].kind, callback[t].master)
      BY <1>7, <2>3, <2>5
    <3>2. \/ x = callback[t].master \/ HasEnded(x) \/ SettledBefore(n, x)
          \/ x \in callback[t].left /\ Settles(callback[t].kind, x)
      BY <1>1, <2>1, <2>2, <3>1 DEF TellsLast
    <3>3. ASSUME SettledBefore(n, x) PROVE HasEnded(x)' \/ SettledBefore(Len(tdQueue), x)'
      <4>1. n - 1 \in Nat /\ n - 1 < n /\ n - 1 + 1 = n /\ x \in Actions
        BY <1>3, <1>9
      <4>2. HasEnded(x)' \/ SettledBefore(n - 1, x)'
        BY <1>8, <3>3, <4>1
      <4>. QED  BY <1>3, <4>2 DEF SettledBefore
    <3>4. HasEnded(x) => HasEnded(x)'
      BY <1>9
    <3>5. x \in callback[t].left /\ Settles(callback[t].kind, x) => Settles(callback[t].kind, x)'
      BY <1>7, <2>3
    <3>. QED  BY <3>2, <3>3, <3>4, <3>5
  <2>. QED  BY <2>4, <2>5 DEF TellsLast
<1>11. ASSUME NEW i \in 1 .. Len(tdQueue') PROVE AsksLast(i)'
  <2>1. i + 1 \in 1 .. n /\ tdQueue'[i] = tdQueue[i + 1] /\ i + 1 # 1
        /\ i - 1 \in Nat /\ i - 1 < n /\ i - 1 + 1 = i
    BY <1>3
  <2>2. PICK q : q = tdQueue[i + 1]
    OBVIOUS
  <2>3. AsksLast(i + 1) /\ q.action \in Pending /\ q.action # a /\ TaskOf(q.action) \in Tasks
    BY <1>1, <1>4, <1>5, <2>1, <2>2, GroupFacts DEF MasterLast
  <2>4. ASSUME IsMaster(q.action)', Settles(q.kind, q.action)', NEW x \in Members(TaskOf(q.action))
        PROVE  x = q.action \/ HasEnded(x)' \/ SettledBefore(i - 1, x)'
    <3>1. IsMaster(q.action) /\ Settles(q.kind, q.action)
      BY <1>7, <2>3, <2>4
    <3>2. x = q.action \/ HasEnded(x) \/ SettledBefore(i + 1 - 1, x)
      BY <2>3, <2>2, <3>1 DEF AsksLast
    <3>3. SettledBefore(i, x) => HasEnded(x)' \/ SettledBefore(i - 1, x)'
      BY <1>8, <1>9, <2>1, <2>3
    <3>4. i + 1 - 1 = i
      BY <2>1
    <3>. QED  BY <1>9, <2>3, <3>2, <3>3, <3>4
  <2>. QED  BY <2>1, <2>2, <2>4 DEF AsksLast
<1>. QED  BY <1>10, <1>11 DEF MasterLast

\* GroupInv, and that the AP is told when nothing is left.
EndInv == GroupInv /\ MasterLast /\ EndsWhenFree

\* An execution that ends for good: the AP is told if it is the master, and then it is the
\* last of its group.
LEMMA EndLast ==
    ASSUME EndInv, GroupInv', NEW kind, Treats(kind), NEW st \in {"FINISHED", "FAILED"},
           NEW a, a = Head(tdQueue).action, Settles(kind, a),
           NotifyEnd(a, st), NEW r \in Resumed(a),
           state' = StateAfter(a, r, st), DoAction([b \in r |-> 1]),
           UNCHANGED <<resource, executing, callback, ended, halted, errors, erred>>
    PROVE  MasterLast' /\ EndsWhenFree'
<1>1. GroupInv /\ MasterLast /\ EndsWhenFree /\ Types /\ AskedOnce
  BY DEF EndInv, GroupInv, RequestsOK
<1>2. /\ a \in Pending /\ 1 \in 1 .. Len(tdQueue)
      /\ tdQueue[1].action = a /\ tdQueue[1].kind = kind
  BY <1>1, TreatsStep
<1>3. /\ a \in Actions /\ r \subseteq Actions /\ a \notin r
      /\ \A b \in r : state[b] = "WAITING" /\ b \notin Pending
  BY <1>1, <1>2, ResumeFacts
<1>4. state[a] = "RUNNING" /\ ~ HasEnded(a)
  BY <1>1, <1>2 DEF GroupInv, RequestsOK, HasEnded
<1>5. /\ state'[a] = st /\ \A x \in Actions : x # a /\ x \notin r => state'[x] = state[x]
  BY <1>3 DEF StateAfter
<1>6. HasEnded(a)' /\ \A x \in Actions : HasEnded(x) => HasEnded(x)'
  BY <1>3, <1>4, <1>5 DEF HasEnded
<1>7. \A x \in Pending : multiNodeId'[x] = multiNodeId[x] /\ executing'[x] = executing[x]
  <2>1. \A x \in Pending : x \in Actions /\ x \notin DOMAIN [b \in r |-> 1]
    BY <1>3 DEF Pending
  <2>2. multiNodeId' = [x \in Actions |->
           IF Multi(TaskOf(x)) /\ x \in DOMAIN [b \in r |-> 1]
           THEN IF Multi(TaskOf(x)) THEN RegisteredId([b \in r |-> 1], x) ELSE MASTER_GROUP_ID
           ELSE multiNodeId[x]]
    BY Zenon DEF DoAction
  <2>. QED  BY <2>1, <2>2
<1>8. MasterLast'
  BY <1>1, <1>6, <1>7, TreatsLast
<1>9. TaskOf(a) \in Tasks /\ a \in Members(TaskOf(a)) /\ \A t \in Tasks : Members(t) \subseteq Actions
  BY <1>3, GroupFacts
<1>10. notices' = [notices EXCEPT ![TaskOf(a)] = IF IsMaster(a) THEN @ + 1 ELSE @] /\ ended' = ended
  BY DEF NotifyEnd
<1>11. notices \in [Tasks -> Nat]
  BY <1>1 DEF Types
<1>12. ASSUME NEW t \in Tasks
       PROVE  /\ notices'[t] + ended'[t] <= 1
              /\ notices'[t] > 0 \/ ended'[t] > 0 => \A x \in Members(t) : HasEnded(x)'
  <2>1. /\ notices[t] \in Nat /\ ended[t] \in Nat /\ notices[t] + ended[t] <= 1
        /\ notices[t] > 0 \/ ended[t] > 0 => \A x \in Members(t) : HasEnded(x)
        /\ (\E x \in Members(t) : ~ HasEnded(x)) => notices[t] = 0 /\ ended[t] = 0
    BY <1>1, EndsFacts
  <2>2. CASE t = TaskOf(a) /\ IsMaster(a)
    <3>1. notices'[t] = notices[t] + 1 /\ notices[t] = 0 /\ ended'[t] = 0
      BY <1>4, <1>9, <1>10, <1>11, <2>1, <2>2
    <3>2. \A x \in Members(t) : HasEnded(x)'
      <4>1. AsksLast(1)
        BY <1>1, <1>2 DEF MasterLast
      <4>2. \A x \in Members(t) : x = a \/ HasEnded(x) \/ SettledBefore(1 - 1, x)
        BY <1>2, <2>2, <4>1 DEF AsksLast
      <4>3. \A x : ~ SettledBefore(1 - 1, x)
        BY DEF SettledBefore
      <4>. QED  BY <1>6, <1>9, <4>2, <4>3
    <3>. QED  BY <3>1, <3>2
  <2>3. CASE ~ (t = TaskOf(a) /\ IsMaster(a))
    <3>1. notices'[t] = notices[t] /\ ended'[t] = ended[t]
      BY <1>10, <1>11, <2>3
    <3>. QED  BY <1>6, <1>9, <2>1, <3>1
  <2>. QED  BY <2>2, <2>3
<1>. QED  BY <1>8, <1>12, NoticesLast

\* An execution that tries again ends nothing.
LEMMA RetryLast ==
    ASSUME EndInv, GroupInv', RetryAction
    PROVE  MasterLast' /\ EndsWhenFree'
<1>1. GroupInv /\ MasterLast /\ EndsWhenFree /\ Types /\ AskedOnce
  BY DEF EndInv, GroupInv, RequestsOK
<1>2. PICK a : a = Head(tdQueue).action
  OBVIOUS
<1>3. PICK r \in Resumed(a), w \in Workers, now \in BOOLEAN : Retries(a, r, w, now)
  BY <1>2, RetryCases
<1>4. /\ Treats("ERROR") /\ callback' = callback /\ notices' = notices /\ ended' = ended
      /\ Cardinality(executing[a]) < SCHEDULING_CHANCES
  <2>1. /\ Treats("ERROR") /\ UNCHANGED <<taskVars, callback, ended, halted, errors, erred>>
        /\ Cardinality(executing[Head(tdQueue).action]) < SCHEDULING_CHANCES
    BY Zenon DEF RetryAction
  <2>. QED  BY <1>2, <2>1 DEF taskVars
<1>5. a \in Pending
  BY <1>1, <1>2, <1>4, TreatsStep
<1>6. /\ a \in Actions /\ r \subseteq Actions /\ a \notin r
      /\ \A b \in r : state[b] = "WAITING" /\ b \notin Pending
  BY <1>1, <1>5, ResumeFacts
<1>7. state[a] = "RUNNING"
  BY <1>1, <1>5 DEF GroupInv, RequestsOK
<1>8. \A x \in Actions : x # a /\ x \notin r => state'[x] = state[x]
  BY <1>3 DEF Retries, StateAfter
<1>9. \A x \in Actions : HasEnded(x) => HasEnded(x)'
  BY <1>6, <1>7, <1>8 DEF HasEnded
<1>10. ~ Settles("ERROR", a)
  <2>1. executing[a] \in SUBSET Workers
    BY <1>1, <1>6 DEF Types
  <2>2. Cardinality(executing[a]) \in Nat
    BY <2>1, CapacityAssumption, FS_Subset, FS_CardinalityType
  <2>. QED  BY <1>4, <2>2, ErrorsAssumption DEF Settles
<1>11. \A x \in Pending \ {a} : multiNodeId'[x] = multiNodeId[x] /\ executing'[x] = executing[x]
  <2>. DEFINE order == [b \in r \cup (IF now THEN {a} ELSE {}) |-> IF b = a THEN 2 ELSE 1]
  <2>1. \A x \in Pending \ {a} : x \in Actions /\ x \notin DOMAIN order
    BY <1>6 DEF Pending
  <2>2. DoAction(order)
    BY <1>3 DEF Retries
  <2>. HIDE DEF order
  <2>3. multiNodeId' = [x \in Actions |->
           IF Multi(TaskOf(x)) /\ x \in DOMAIN order
           THEN IF Multi(TaskOf(x)) THEN RegisteredId(order, x) ELSE MASTER_GROUP_ID
           ELSE multiNodeId[x]]
    BY <2>2, Zenon DEF DoAction
  <2>4. \A x \in Actions : x # a => executing'[x] = executing[x]
    <3>1. executing \in [Actions -> SUBSET Workers]
      BY <1>1 DEF Types
    <3>2. executing' = [executing EXCEPT ![a] = @ \cup IF now THEN {w} ELSE {}]
      BY <1>3 DEF Retries
    <3>. QED  BY <3>1, <3>2
  <2>. QED  BY <2>1, <2>3, <2>4
<1>12. MasterLast'
  BY <1>1, <1>2, <1>4, <1>9, <1>10, <1>11, TreatsLast
<1>13. \A t \in Tasks : Members(t) \subseteq Actions
  BY GroupFacts
<1>14. \A t \in Tasks : /\ notices'[t] + ended'[t] <= 1
                        /\ notices'[t] > 0 \/ ended'[t] > 0 => \A x \in Members(t) : HasEnded(x)'
  BY <1>1, <1>4, <1>9, <1>13, EndsFacts
<1>. QED  BY <1>12, <1>14, NoticesLast

\* A task that is submitted has no requests and no notifications yet.
LEMMA SubmitLast ==
    ASSUME EndInv, GroupInv', NEW t \in Tasks, NEW choice \in [1 .. Size[t] -> Workers],
           SubmitTask(t, choice)
    PROVE  MasterLast' /\ EndsWhenFree'
<1>1. GroupInv /\ MasterLast /\ EndsWhenFree /\ Types /\ AskedOnce
  BY DEF EndInv, GroupInv, RequestsOK
<1>. DEFINE runs == {i \in 1 .. Size[t] :
                       /\ waiting[choice[i]] = {}
                       /\ Cardinality({j \in 1 .. i - 1 : choice[j] = choice[i]}) < free[choice[i]]}
            order == [a \in {<<t, i>> : i \in runs} |-> a[2]]
<1>2. /\ status[t] = "TO_ANALYSE"
      /\ state' = [a \in Actions |-> IF TaskOf(a) # t THEN state[a]
                                     ELSE IF a[2] \in runs THEN "RUNNING" ELSE "WAITING"]
      /\ executing' = [a \in Actions |-> IF TaskOf(a) = t /\ a[2] \in runs THEN {choice[a[2]]}
                                         ELSE executing[a]]
      /\ notices' = notices /\ callback' = callback /\ tdQueue' = tdQueue /\ ended' = ended
      /\ DoAction(order)
  BY Zenon DEF SubmitTask
<1>3. \A a \in Actions : TaskOf(a) = t => state[a] = "NEW"
  BY <1>1, <1>2 DEF GroupInv, CountsOK
<1>4. \A a \in Pending : a \in Actions /\ TaskOf(a) # t
  BY <1>1, <1>3 DEF GroupInv, RequestsOK, Pending
<1>5. \A a \in DOMAIN order : TaskOf(a) = t
  <2>1. DOMAIN order = {<<t, i>> : i \in runs}
    OBVIOUS
  <2>. HIDE DEF runs, order
  <2>. QED  BY <2>1 DEF TaskOf
<1>. HIDE DEF runs, order
<1>6. multiNodeId' = [x \in Actions |->
           IF Multi(TaskOf(x)) /\ x \in DOMAIN order
           THEN IF Multi(TaskOf(x)) THEN RegisteredId(order, x) ELSE MASTER_GROUP_ID
           ELSE multiNodeId[x]]
  BY <1>2, Zenon DEF DoAction
<1>7. \A a \in Pending : multiNodeId'[a] = multiNodeId[a] /\ executing'[a] = executing[a]
  BY <1>2, <1>4, <1>5, <1>6
<1>8. \A a \in Actions : HasEnded(a) => HasEnded(a)'
  BY <1>2, <1>3 DEF HasEnded
<1>9. MasterLast'
  BY <1>1, <1>2, <1>7, <1>8, SameLast
<1>10. \A u \in Tasks : Members(u) \subseteq Actions
  BY GroupFacts
<1>11. \A u \in Tasks : /\ notices'[u] + ended'[u] <= 1
                        /\ notices'[u] > 0 \/ ended'[u] > 0 => \A x \in Members(u) : HasEnded(x)'
  BY <1>1, <1>2, <1>8, <1>10, EndsFacts
<1>. QED  BY <1>9, <1>11, NoticesLast

\* Every step keeps EndInv.
LEMMA EndNext == EndInv /\ [Next]_vars => EndInv'
<1>. SUFFICES ASSUME EndInv, [Next]_vars PROVE MasterLast' /\ EndsWhenFree'
  BY GroupNext DEF EndInv
<1>1. GroupInv' /\ GroupInv /\ MasterLast /\ EndsWhenFree /\ Types /\ AskedOnce
  BY GroupNext DEF EndInv, GroupInv, RequestsOK
<1>2. ASSUME NEW t \in Tasks, NEW choice \in [1 .. Size[t] -> Workers], SubmitTask(t, choice)
      PROVE  MasterLast' /\ EndsWhenFree'
  BY <1>1, <1>2, SubmitLast
<1>3. ASSUME NEW t \in Tasks, JobCompleted(t) \/ JobError(t) PROVE MasterLast' /\ EndsWhenFree'
  <2>1. /\ job[t] # None /\ \E kind \in {"COMPLETED", "ERROR"} : EndOfJob(t, kind)
        /\ state' = state /\ executing' = executing /\ multiNodeId' = multiNodeId
        /\ notices' = notices /\ ended' = ended /\ executionCount' = executionCount
    BY <1>3 DEF JobCompleted, JobError, schedVars, groupVars, taskVars
  <2>2. MasterLast'
    BY <1>1, <2>1, JobEndLast
  <2>3. EndsWhenFree'
    BY <1>1, <2>1 DEF EndsWhenFree
  <2>. QED  BY <2>2, <2>3
<1>4. ASSUME NEW t \in Tasks, TellSlave(t) \/ NotifyMaster(t) PROVE MasterLast' /\ EndsWhenFree'
  <2>1. state' = state /\ notices' = notices /\ ended' = ended /\ executionCount' = executionCount
    BY <1>4 DEF TellSlave, NotifyMaster, schedVars, taskVars
  <2>2. MasterLast'
    BY <1>1, <1>4, NotifyLast
  <2>3. EndsWhenFree'
    BY <1>1, <2>1 DEF EndsWhenFree
  <2>. QED  BY <2>2, <2>3
<1>5. ASSUME NEW t \in Tasks, NotificationCut(t) PROVE MasterLast' /\ EndsWhenFree'
  <2>1. state' = state /\ notices' = notices /\ ended' = ended /\ executionCount' = executionCount
    BY <1>5 DEF NotificationCut, schedVars, taskVars
  <2>2. MasterLast'
    BY <1>1, <1>5, CutLast
  <2>3. EndsWhenFree'
    BY <1>1, <2>1 DEF EndsWhenFree
  <2>. QED  BY <2>2, <2>3
<1>6. ASSUME ActionCompleted PROVE MasterLast' /\ EndsWhenFree'
  <2>. DEFINE a == Head(tdQueue).action
  <2>1. PICK r \in Resumed(a) :
           /\ state' = StateAfter(a, r, "FINISHED") /\ DoAction([b \in r |-> 1])
    BY <1>6, Zenon DEF ActionCompleted
  <2>2. /\ Treats("COMPLETED") /\ NotifyEnd(a, "FINISHED")
        /\ UNCHANGED <<resource, executing, callback, ended, halted, errors, erred>>
    BY <1>6, Zenon DEF ActionCompleted
  <2>3. Settles("COMPLETED", a)
    BY DEF Settles
  <2>. QED  BY <1>1, <2>1, <2>2, <2>3, EndLast
<1>7. ASSUME FailAction PROVE MasterLast' /\ EndsWhenFree'
  <2>. DEFINE a == Head(tdQueue).action
  <2>1. PICK r \in Resumed(a) :
           /\ state' = StateAfter(a, r, "FAILED") /\ DoAction([b \in r |-> 1])
    BY <1>7, Zenon DEF FailAction
  <2>2. /\ Treats("ERROR") /\ NotifyEnd(a, "FAILED")
        /\ UNCHANGED <<resource, executing, callback, ended, halted, errors, erred>>
        /\ Cardinality(executing[a]) >= SCHEDULING_CHANCES
    BY <1>7, Zenon DEF FailAction
  <2>3. Settles("ERROR", a)
    BY <2>2 DEF Settles
  <2>. QED  BY <1>1, <2>1, <2>2, <2>3, EndLast
<1>8. ASSUME RetryAction PROVE MasterLast' /\ EndsWhenFree'
  BY <1>1, <1>8, RetryLast
<1>9. ASSUME NEW t \in Tasks, EndTask(t) PROVE MasterLast' /\ EndsWhenFree'
  <2>1. /\ state' = state /\ executing' = executing /\ multiNodeId' = multiNodeId
        /\ tdQueue' = tdQueue /\ callback' = callback
        /\ notices[t] > 0 /\ notices' = [notices EXCEPT ![t] = @ - 1]
        /\ ended' = [ended EXCEPT ![t] = IF executionCount[t] = 0 /\ status[t] = "FINISHED"
                                         THEN @ + 1 ELSE @]
    BY <1>9 DEF EndTask, schedVars, groupVars
  <2>2. \A a : HasEnded(a) => HasEnded(a)'
    BY <2>1 DEF HasEnded
  <2>3. MasterLast'
    BY <1>1, <2>1, <2>2, SameLast
  <2>4. notices \in [Tasks -> Nat] /\ ended \in [Tasks -> Nat]
    BY <1>1 DEF Types
  <2>5. ASSUME NEW u \in Tasks
        PROVE  /\ notices'[u] + ended'[u] <= 1
               /\ notices'[u] > 0 \/ ended'[u] > 0 => \A x \in Members(u) : HasEnded(x)'
    <3>1. /\ notices[u] \in Nat /\ ended[u] \in Nat /\ notices[u] + ended[u] <= 1
          /\ notices[u] > 0 \/ ended[u] > 0 => \A x \in Members(u) : HasEnded(x)
      BY <1>1, EndsFacts
    <3>2. CASE u = t
      <4>1. notices'[t] = notices[t] - 1 /\ ended'[t] \in {ended[t], ended[t] + 1}
        BY <2>1, <2>4
      <4>. QED  BY <2>1, <2>2, <3>1, <3>2, <4>1
    <3>3. CASE u # t
      BY <2>1, <2>2, <2>4, <3>1, <3>3
    <3>. QED  BY <3>2, <3>3
  <2>. QED  BY <1>1, <2>3, <2>5, NoticesLast
<1>10. CASE UNCHANGED vars
  <2>1. /\ state' = state /\ executing' = executing /\ multiNodeId' = multiNodeId
        /\ tdQueue' = tdQueue /\ callback' = callback
        /\ notices' = notices /\ ended' = ended /\ executionCount' = executionCount
    BY <1>10 DEF vars, schedVars, groupVars, taskVars
  <2>2. \A a : HasEnded(a) => HasEnded(a)'
    BY <2>1 DEF HasEnded
  <2>3. MasterLast'
    BY <1>1, <2>1, <2>2, SameLast
  <2>4. EndsWhenFree'
    BY <1>1, <2>1 DEF EndsWhenFree
  <2>. QED  BY <2>3, <2>4
<1>. QED  BY <1>2, <1>3, <1>4, <1>5, <1>6, <1>7, <1>8, <1>9, <1>10, SlaveCases DEF Next, TDStep

\* The AP is told of the end of a multi-node task once, when no execution of it is left,
\* whatever the TD resumes between the requests of the slaves and the one of the master
\* (MultiNodeExecutionAction.notifyCompleted and notifyError, ExecutionAction.doCompleted).
THEOREM MasterEndsLast == Spec => []EndsWhenFree
<1>1. Init => EndInv
  <2>. SUFFICES ASSUME Init PROVE MasterLast /\ EndsWhenFree
    BY GroupInit DEF EndInv
  <2>1. MasterLast
    <3>1. \A t \in Tasks : callback[t].master = None
      BY DEF Init, NoCallback
    <3>2. Len(tdQueue) = 0
      BY DEF Init
    <3>. QED  BY <3>1, <3>2 DEF MasterLast, TellsLast
  <2>2. EndsWhenFree
    BY DEF Init, EndsWhenFree
  <2>. QED  BY <2>1, <2>2
<1>2. EndInv => EndsWhenFree
  BY DEF EndInv
<1>. QED  BY <1>1, <1>2, EndNext, PTL DEF Spec
=============================================================================
