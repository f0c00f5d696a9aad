------------------------ MODULE JobExecution_proofs ------------------------
(***************************************************************************)
(* Theorems of JobExecution, for any executions, data, workers, number of  *)
(* threads and chances.                                                    *)
(*                                                                         *)
(* JobInv is the inductive invariant. Its first half, CopyInv, is about    *)
(* the copies: each one is in at most one place, a listener appears at most*)
(* once among those of a copy, and never in those of two copies of a datum.*)
(* Its second half, LaunchInv, is about the executions: the listener of    *)
(* the last round is enabled when nobody orders its transfers any more,    *)
(* those of earlier rounds have nothing left, and exactly one thing carries*)
(* a running execution. The halves meet in ListenersCounted: a thread that *)
(* notifies a listener finds that it still counts an operation, and so that*)
(* it is the one of the last round.                                        *)
(***************************************************************************)
EXTENDS JobExecution, FiniteSetTheorems, SequenceTheorems, TLAPS

-----------------------------------------------------------------------------
(* The inductive invariant *)

Outcomes  == {"null", "ok", "failed", "in_progress"}
Steps     == {"idle", "perform", "copy", "finally", "end", "notify"}
Reactions == {"doReady", "doFailures"}
Ends      == {"completed", "error"}

States == {"ready", "running", "completed", "failed"}

Fields == [state : States, worker : Workers \cup {None}, launches : Nat,
           transferErrors : Nat, executionErrors : Nat, round : Nat]
ListenerFields == [operation : Int, errors : Nat, enabled : BOOLEAN]
CopyFields ==
    [op : Ops \cup {None}, step : Steps, notify : Seq(Listeners), outcome : Outcomes]

\* The types of the variables, without the bounds of the counters.
Types ==
    /\ mode \in Modes
    /\ action \in [Actions -> Fields]
    /\ listener \in [Listeners -> ListenerFields]
    /\ runner \in [Actions -> [by : Threads \cup {None}, left : SUBSET Data]]
    /\ tgtLoc \in [Listeners -> Workers \cup {None}]
    /\ doing \in [Threads -> {None} \cup (Listeners \X Reactions)]
    /\ copyQueue \in Seq(Ops)
    /\ copy \in [Pool -> CopyFields]
    /\ opListeners \in [Ops -> Seq(Listeners)]
    /\ endState \in [Ops -> Outcomes]
    /\ inProgress \in SUBSET Ops
    /\ jobQueue \in Seq(Actions) /\ onWorker \in [Actions -> Nat]
    /\ tdQueue \in Seq(Actions \X Ends)

In(q, x) == \E k \in 1 .. Len(q) : q[k] = x
Distinct(q) == \A k, m \in 1 .. Len(q) : q[k] = q[m] => k = m

\* The copies that are still to be ordered.
Unordered(op) ==
    \/ op[2] > action[op[1]].round
    \/ op[2] = action[op[1]].round /\ op[3] \in runner[op[1]].left

\* The copy of a thread of the pool.
Holds(i, op) == copy[i].step # "idle" /\ copy[i].op = op

\* A copy of which no thread knows yet, or that it has just taken.
Waits(op) ==
    \/ Unordered(op) \/ In(copyQueue, op)
    \/ \E i \in Pool : Holds(i, op) /\ copy[i].step = "perform"

\* Nothing has been done with a copy: it has its own listener only, and that one is in no
\* other copy of the datum.
Untouched(op) ==
    /\ op \notin inProgress /\ endState[op] = "null" /\ opListeners[op] = << Own(op) >>
    /\ \A x \in Ops : x # op /\ x[3] = op[3] => ~ In(opListeners[x], Own(op))

\* No copy is in two places.
PlacesDistinct ==
    /\ Distinct(copyQueue)
    /\ \A i, j \in Pool : copy[i].step # "idle" /\ Holds(j, copy[i].op) => i = j
    /\ \A i \in Pool : copy[i].step # "idle" => ~ In(copyQueue, copy[i].op)

CopyOK(i) ==
    LET c == copy[i]
    IN  /\ c.step # "idle" => c.op \in Ops /\ ~ Unordered(c.op)
        /\ c.step \in {"copy", "finally"} => c.op \in inProgress
        /\ c.step \in {"perform", "end"} => c.op \notin inProgress
        /\ c.step \in {"perform", "copy", "end"} => endState[c.op] = "null"
        /\ c.step = "finally" => endState[c.op] \in {"null", "failed"}
        /\ c.step = "notify" => endState[c.op] # "null" /\ Distinct(c.notify)
        /\ c.step = "notify" /\ c.op \in inProgress => endState[c.op] = "failed"

OpOK(op) ==
    /\ Distinct(opListeners[op])
    /\ op \in inProgress =>
          \E i \in Pool : Holds(i, op) /\ copy[i].step \in {"copy", "finally", "notify"}
    /\ Waits(op) => Untouched(op)
    /\ Unordered(op) => ~ In(copyQueue, op)

\* WillNotify, and ListenersCounted of one listener. Positions are those of a sequence that
\* hold a member of P.
Tells(i, l) ==
    LET c == copy[i]
    IN  \/ c.step = "perform" /\ Own(c.op) = l
        \/ /\ c.step \in {"copy", "end"} \/ (c.step = "finally" /\ endState[c.op] = "null")
           /\ In(opListeners[c.op], l)
        \/ c.step = "notify" /\ In(c.notify, l)

Positions(q, P) == {k \in 1 .. Len(q) : q[k] \in P}
OpsOf(l) == {op \in Ops : Own(op) = l}
Tellers(l) == {i \in Pool : Tells(i, l)}
Counted(l) ==
    listener[l].operation
        = Cardinality(Positions(copyQueue, OpsOf(l))) + Cardinality(Tellers(l))

CopyInv ==
    /\ PlacesDistinct
    /\ \A i \in Pool : CopyOK(i)
    /\ \A op \in Ops : OpOK(op)
    /\ \A l \in Listeners : Counted(l)

\* A thread that orders transfers does nothing else.
Occupied(a) ==
    runner[a].by # None =>
        doing[runner[a].by] = None /\ \A b \in Actions : runner[b].by = runner[a].by => b = a

Doers(a) == {i \in Threads : doing[i] # None /\ doing[i][1][1] = a}
Awaits(a) == action[a].round # 0 /\ listener[Current(a)].enabled
                                /\ listener[Current(a)].operation > 0

\* The transfers of the last round are not decided yet.
Transferring(a) == runner[a].by # None \/ Doers(a) # {} \/ Awaits(a)

BoundsOK(a) ==
    LET f == action[a]
        T == TRANSFER_CHANCES
    IN  /\ f.launches <= SCHEDULING_CHANCES
        /\ f.state = "ready" => f.launches < SCHEDULING_CHANCES
        /\ f.transferErrors <= T /\ f.executionErrors <= SUBMISSION_CHANCES
        /\ f.round <= f.launches * T
        /\ Transferring(a) => /\ f.transferErrors < T /\ f.executionErrors = 0
                              /\ f.round <= (f.launches - 1) * T + f.transferErrors + 1
        /\ Times(jobQueue, a) + onWorker[a] > 0 => f.executionErrors < SUBMISSION_CHANCES

RoundsOK(a) ==
    LET r == action[a].round
    IN  /\ runner[a].by = None => runner[a].left = {}
        /\ r = 0 => runner[a].by = None
        /\ r # 0 => action[a].worker \in Workers
                    /\ (listener[<<a, r>>].enabled <=> runner[a].by = None)
        /\ \A q \in Rounds :
              LET l == listener[<<a, q>>]
              IN  /\ q > r => l = [operation |-> 0, errors |-> 0, enabled |-> FALSE]
                  /\ q < r => l.operation = 0
                  /\ q <= r => tgtLoc[<<a, q>>] \in Workers
                  /\ l.operation + l.errors + (IF q = r THEN Cardinality(runner[a].left) ELSE 0)
                       <= Cardinality(Data)

DoingOK(i) ==
    doing[i] # None =>
        LET a == doing[i][1][1]
            l == listener[Current(a)]
        IN  /\ doing[i][1] = Current(a) /\ l.enabled /\ l.operation = 0
            /\ doing[i][2] = (IF l.errors > 0 THEN "doFailures" ELSE "doReady")

\* OneCarrier and SubmittedAfterTransfers of one execution.
Carried(a) == Carriers(a) = One(action[a].state = "running")
Submitted(a) ==
    Times(jobQueue, a) + onWorker[a] > 0 =>
        /\ action[a].round # 0
        /\ LET l == listener[Current(a)] IN l.enabled /\ l.operation = 0 /\ l.errors = 0

LaunchOK(a) == RoundsOK(a) /\ BoundsOK(a) /\ Carried(a) /\ Submitted(a)

LaunchInv ==
    /\ \A a \in Actions : Occupied(a) /\ LaunchOK(a)
    /\ \A i \in Threads : DoingOK(i)

LocationsOK ==
    located \in [Data -> SUBSET Workers] /\ present \in [Data -> SUBSET Workers]

JobInv == Types /\ CopyInv /\ LaunchInv /\ LocationsOK

-----------------------------------------------------------------------------
(* Counting in sequences *)

\* The positions are finitely many.
LEMMA PositionsFinite ==
    ASSUME NEW S, NEW q \in Seq(S), NEW P
    PROVE  /\ IsFiniteSet(Positions(q, P)) /\ Cardinality(Positions(q, P)) \in Nat
           /\ Cardinality(Positions(q, P)) > 0 <=> \E k \in 1 .. Len(q) : q[k] \in P
<1>1. Len(q) \in Nat
  BY LenProperties
<1>2. IsFiniteSet(Positions(q, P))
  <2>1. IsFiniteSet(1 .. Len(q))
    BY <1>1, FS_Interval
  <2>2. Positions(q, P) \subseteq 1 .. Len(q)
    BY DEF Positions
  <2>. QED  BY <2>1, <2>2, FS_Subset
<1>3. Cardinality(Positions(q, P)) \in Nat
  BY <1>2, FS_CardinalityType
<1>4. Cardinality(Positions(q, P)) = 0 <=> Positions(q, P) = {}
  BY <1>2, FS_EmptySet
<1>. QED  BY <1>2, <1>3, <1>4 DEF Positions

\* An element more.
LEMMA PositionsAppend ==
    ASSUME NEW S, NEW q \in Seq(S), NEW x \in S, NEW P
    PROVE  Cardinality(Positions(Append(q, x), P))
             = Cardinality(Positions(q, P)) + One(x \in P)
<1>1. Len(q) \in Nat /\ Len(Append(q, x)) = Len(q) + 1
  BY LenProperties, AppendProperties
<1>2. /\ Append(q, x)[Len(q) + 1] = x
      /\ \A k \in 1 .. Len(q) : Append(q, x)[k] = q[k]
  BY AppendProperties
<1>3. IsFiniteSet(Positions(q, P)) /\ Cardinality(Positions(q, P)) \in Nat
  BY PositionsFinite
<1>4. CASE x \in P
  <2>1. Positions(Append(q, x), P) = Positions(q, P) \cup {Len(q) + 1}
    BY <1>1, <1>2, <1>4 DEF Positions
  <2>2. Len(q) + 1 \notin Positions(q, P)
    BY <1>1 DEF Positions
  <2>3. Cardinality(Positions(q, P) \cup {Len(q) + 1}) = Cardinality(Positions(q, P)) + 1
    BY <1>3, <2>2, FS_AddElement
  <2>. QED  BY <1>4, <2>1, <2>3 DEF One
<1>5. CASE x \notin P
  <2>1. Positions(Append(q, x), P) = Positions(q, P)
    BY <1>1, <1>2, <1>5 DEF Positions
  <2>. QED  BY <1>3, <1>5, <2>1 DEF One
<1>. QED  BY <1>4, <1>5

\* The first element is gone.
LEMMA PositionsTail ==
    ASSUME NEW S, NEW q \in Seq(S), q # << >>, NEW P
    PROVE  Cardinality(Positions(Tail(q), P))
             = Cardinality(Positions(q, P)) - One(Head(q) \in P)
<1>1. /\ Len(q) \in Nat /\ Len(q) > 0 /\ Len(Tail(q)) = Len(q) - 1 /\ Tail(q) \in Seq(S)
      /\ Head(q) = q[1] /\ \A k \in 1 .. Len(q) - 1 : Tail(q)[k] = q[k + 1]
  BY LenProperties, HeadTailProperties, EmptySeq
<1>2. /\ IsFiniteSet(Positions(q, P)) /\ Cardinality(Positions(q, P)) \in Nat
      /\ IsFiniteSet(Positions(Tail(q), P)) /\ Cardinality(Positions(Tail(q), P)) \in Nat
  BY <1>1, PositionsFinite
<1> DEFINE R == Positions(q, P) \ {1}
           f == [k \in Positions(Tail(q), P) |-> k + 1]
<1>3. f \in Bijection(Positions(Tail(q), P), R)
  <2>1. \A k \in Positions(Tail(q), P) : k \in Nat /\ f[k] = k + 1 /\ k + 1 \in R
    BY <1>1 DEF Positions
  <2>2. \A k \in R : k - 1 \in Positions(Tail(q), P) /\ f[k - 1] = k
    BY <1>1 DEF Positions
  <2> HIDE DEF R
  <2>3. f \in [Positions(Tail(q), P) -> R]
    BY <2>1
  <2>4. \A j, k \in Positions(Tail(q), P) : f[j] = f[k] => j = k
    BY <2>1
  <2> HIDE DEF f
  <2>5. \A k \in R : \E j \in Positions(Tail(q), P) : f[j] = k
    BY <2>2
  <2> HIDE DEF Positions
  <2>6. f \in Injection(Positions(Tail(q), P), R)
    BY <2>3, <2>4 DEF Injection, IsInjective
  <2>7. f \in Surjection(Positions(Tail(q), P), R)
    BY <2>3, <2>5 DEF Surjection
  <2>. QED  BY <2>6, <2>7 DEF Bijection
<1>4. IsFiniteSet(R) /\ Cardinality(R) = Cardinality(Positions(Tail(q), P))
  <2> HIDE DEF f, R
  <2>1. ExistsBijection(Positions(Tail(q), P), R)
    BY <1>3 DEF ExistsBijection
  <2>. QED  BY <1>2, <2>1, FS_Bijection
<1>5. CASE Head(q) \in P
  <2>1. 1 \in Positions(q, P)
    BY <1>1, <1>5 DEF Positions
  <2>2. Cardinality(R) = Cardinality(Positions(q, P)) - 1
    BY <1>2, <2>1, FS_RemoveElement
  <2>. QED  BY <1>4, <1>5, <2>2 DEF One
<1>6. CASE Head(q) \notin P
  <2>1. R = Positions(q, P)
    BY <1>1, <1>6 DEF Positions
  <2> HIDE DEF R
  <2>. QED  BY <1>2, <1>4, <1>6, <2>1 DEF One
<1>. QED  BY <1>5, <1>6

\* The same of one element.
LEMMA TimesFacts ==
    ASSUME NEW S, NEW q \in Seq(S), NEW x
    PROVE  /\ Times(q, x) \in Nat /\ (Times(q, x) > 0 <=> In(q, x))
           /\ \A y \in S : Times(Append(q, y), x) = Times(q, x) + One(y = x)
           /\ q # << >> => Times(Tail(q), x) = Times(q, x) - One(Head(q) = x)
<1>1. \A p : Times(p, x) = Cardinality(Positions(p, {x}))
  BY DEF Times, Positions
<1>2. \A y : One(y \in {x}) = One(y = x)
  BY DEF One
<1>3. Times(q, x) \in Nat /\ (Times(q, x) > 0 <=> In(q, x))
  BY <1>1, PositionsFinite DEF In
<1>4. \A y \in S : Times(Append(q, y), x) = Times(q, x) + One(y = x)
  BY <1>1, <1>2, PositionsAppend
<1>5. q # << >> => Times(Tail(q), x) = Times(q, x) - One(Head(q) = x)
  BY <1>1, <1>2, PositionsTail
<1>. QED  BY <1>3, <1>4, <1>5

\* What a queue holds after an element is added, and after its first one is taken.
LEMMA InFacts ==
    ASSUME NEW S, NEW q \in Seq(S), NEW x
    PROVE  /\ \A y \in S : In(Append(q, y), x) <=> In(q, x) \/ x = y
           /\ q # << >> => In(q, Head(q)) /\ (In(q, x) <=> In(Tail(q), x) \/ x = Head(q))
           /\ \A y \in S : Distinct(q) /\ ~ In(q, y) => Distinct(Append(q, y))
           /\ q # << >> /\ Distinct(q) => Distinct(Tail(q)) /\ ~ In(Tail(q), Head(q))
<1>1. ASSUME NEW y \in S
      PROVE  /\ In(Append(q, y), x) <=> In(q, x) \/ x = y
             /\ Distinct(q) /\ ~ In(q, y) => Distinct(Append(q, y))
  <2>1. Len(q) \in Nat /\ Len(Append(q, y)) = Len(q) + 1
    BY LenProperties, AppendProperties
  <2>2. /\ Append(q, y)[Len(q) + 1] = y
        /\ \A k \in 1 .. Len(q) : Append(q, y)[k] = q[k]
    BY AppendProperties
  <2>. QED  BY <2>1, <2>2 DEF In, Distinct
<1>2. ASSUME q # << >>
      PROVE  /\ In(q, Head(q)) /\ (In(q, x) <=> In(Tail(q), x) \/ x = Head(q))
             /\ Distinct(q) => Distinct(Tail(q)) /\ ~ In(Tail(q), Head(q))
  <2>1. /\ Len(q) \in Nat /\ Len(q) > 0 /\ Len(Tail(q)) = Len(q) - 1
        /\ Head(q) = q[1] /\ \A k \in 1 .. Len(q) - 1 : Tail(q)[k] = q[k + 1]
    BY <1>2, LenProperties, HeadTailProperties, EmptySeq
  <2>2. In(q, Head(q)) /\ (In(Tail(q), x) \/ x = Head(q) => In(q, x))
    BY <2>1 DEF In
  <2>3. ASSUME In(q, x) PROVE In(Tail(q), x) \/ x = Head(q)
    <3>1. PICK k \in 1 .. Len(q) : q[k] = x
      BY <2>3 DEF In
    <3>2. CASE k = 1
      BY <2>1, <3>1, <3>2
    <3>3. CASE k # 1
      <4>1. k - 1 \in 1 .. Len(q) - 1 /\ Tail(q)[k - 1] = x
        BY <2>1, <3>1, <3>3
      <4>. QED  BY <2>1, <4>1 DEF In
    <3>. QED  BY <3>2, <3>3
  <2>4. ASSUME Distinct(q) PROVE Distinct(Tail(q)) /\ ~ In(Tail(q), Head(q))
    <3>1. \A k, m \in 1 .. Len(q) - 1 : Tail(q)[k] = Tail(q)[m] => k = m
      <4>1. \A k, m \in 1 .. Len(q) - 1 : k + 1 \in 1 .. Len(q) /\ (q[k + 1] = q[m + 1] => k + 1 = m + 1)
        BY <2>1, <2>4 DEF Distinct
      <4>. QED  BY <2>1, <4>1
    <3>2. \A k \in 1 .. Len(q) - 1 : Tail(q)[k] # q[1]
      BY <2>1, <2>4 DEF Distinct
    <3>. QED  BY <2>1, <3>1, <3>2 DEF Distinct, In
  <2>. QED  BY <2>2, <2>3, <2>4
<1>. QED  BY <1>1, <1>2

\* A set of threads that changes in one thread at most.
LEMMA CountStep ==
    ASSUME NEW T, IsFiniteSet(T), NEW A \in SUBSET T, NEW B \in SUBSET T, NEW i \in T,
           \A j \in T \ {i} : j \in A <=> j \in B
    PROVE  /\ Cardinality(A) \in Nat /\ Cardinality(B) \in Nat
           /\ Cardinality(B) = Cardinality(A) - One(i \in A) + One(i \in B)
<1> DEFINE R == A \ {i}
<1>1. IsFiniteSet(A) /\ IsFiniteSet(B) /\ IsFiniteSet(R)
  BY FS_Subset
<1>2. Cardinality(A) \in Nat /\ Cardinality(B) \in Nat /\ Cardinality(R) \in Nat
  BY <1>1, FS_CardinalityType
<1>3. A = (IF i \in A THEN R \cup {i} ELSE R) /\ B = (IF i \in B THEN R \cup {i} ELSE R)
  OBVIOUS
<1>4. i \notin R
  OBVIOUS
<1> HIDE DEF R
<1>5. Cardinality(R \cup {i}) = Cardinality(R) + 1
  BY <1>1, <1>4, FS_AddElement
<1>6. Cardinality(A) = Cardinality(R) + One(i \in A)
  BY <1>2, <1>3, <1>5 DEF One
<1>7. Cardinality(B) = Cardinality(R) + One(i \in B)
  BY <1>2, <1>3, <1>5 DEF One
<1>. QED  BY <1>2, <1>6, <1>7 DEF One

-----------------------------------------------------------------------------
(* Copies *)

\* The fields of the records.
LEMMA RecordFacts ==
    /\ \A f \in Fields :
          /\ f.state \in States /\ f.worker \in Workers \cup {None} /\ f.launches \in Nat
          /\ f.transferErrors \in Nat /\ f.executionErrors \in Nat /\ f.round \in Nat
    /\ \A l \in ListenerFields : l.operation \in Int /\ l.errors \in Nat /\ l.enabled \in BOOLEAN
    /\ \A c \in CopyFields :
          /\ c.op \in Ops \cup {None} /\ c.step \in Steps
          /\ c.notify \in Seq(Listeners) /\ c.outcome \in Outcomes
BY DEF Fields, ListenerFields, CopyFields

\* Records with a field changed.
LEMMA RecordUpdates ==
    /\ \A f \in Fields :
          /\ [f EXCEPT !.round = @ + 1] \in Fields
          /\ [f EXCEPT !.executionErrors = @ + 1] \in Fields
          /\ [f EXCEPT !.transferErrors = @ + 1] \in Fields
          /\ \A s \in States : [f EXCEPT !.state = s] \in Fields
          /\ \A w \in Workers : [f EXCEPT !.state = "running", !.worker = w, !.launches = @ + 1,
                                    !.transferErrors = 0, !.executionErrors = 0] \in Fields
    /\ \A l \in ListenerFields :
          /\ [l EXCEPT !.enabled = TRUE] \in ListenerFields
          /\ \A n \in Int : [l EXCEPT !.operation = n] \in ListenerFields
          /\ \A n \in Int, m \in Nat : [l EXCEPT !.operation = n, !.errors = m] \in ListenerFields
    /\ \A c \in CopyFields :
          /\ \A s \in Steps : [c EXCEPT !.step = s] \in CopyFields
          /\ \A q \in Seq(Listeners) : [c EXCEPT !.notify = q] \in CopyFields
          /\ \A s \in Steps, o \in Outcomes, q \in Seq(Listeners) :
                [c EXCEPT !.step = s, !.outcome = o, !.notify = q] \in CopyFields
          /\ \A s \in Steps, x \in Ops : [c EXCEPT !.op = x, !.step = s] \in CopyFields
<1>1. \A f \in Fields :
          /\ [f EXCEPT !.round = @ + 1] \in Fields
          /\ [f EXCEPT !.executionErrors = @ + 1] \in Fields
          /\ [f EXCEPT !.transferErrors = @ + 1] \in Fields
          /\ \A s \in States : [f EXCEPT !.state = s] \in Fields
  BY DEF Fields
<1>2. \A f \in Fields, w \in Workers :
          [f EXCEPT !.state = "running", !.worker = w, !.launches = @ + 1,
                    !.transferErrors = 0, !.executionErrors = 0] \in Fields
  <2> SUFFICES ASSUME NEW f \in Fields, NEW w \in Workers
               PROVE  [f EXCEPT !.state = "running", !.worker = w, !.launches = @ + 1,
                                !.transferErrors = 0, !.executionErrors = 0] \in Fields
    OBVIOUS
  <2>1. "running" \in States
    BY DEF States
  <2> DEFINE f1 == [f EXCEPT !.state = "running"]
             f2 == [f1 EXCEPT !.worker = w]
             f3 == [f2 EXCEPT !.launches = @ + 1]
             f4 == [f3 EXCEPT !.transferErrors = 0]
             f5 == [f4 EXCEPT !.executionErrors = 0]
  <2>2. f1 \in Fields
    BY <1>1, <2>1
  <2> HIDE DEF f1
  <2>3. f2 \in Fields
    BY <2>2 DEF Fields
  <2> HIDE DEF f2
  <2>4. f3 \in Fields
    BY <2>3 DEF Fields
  <2> HIDE DEF f3
  <2>5. f4 \in Fields
    BY <2>4 DEF Fields
  <2> HIDE DEF f4
  <2>6. f5 \in Fields
    BY <2>5 DEF Fields
  <2> HIDE DEF f5
  <2>7. f5 = [f EXCEPT !.state = "running", !.worker = w, !.launches = @ + 1,
                       !.transferErrors = 0, !.executionErrors = 0]
    BY DEF f1, f2, f3, f4, f5
  <2>. QED  BY <2>6, <2>7
<1>3. \A l \in ListenerFields :
          /\ [l EXCEPT !.enabled = TRUE] \in ListenerFields
          /\ \A n \in Int : [l EXCEPT !.operation = n] \in ListenerFields
          /\ \A n \in Int, m \in Nat : [l EXCEPT !.operation = n, !.errors = m] \in ListenerFields
  <2> TAKE l \in ListenerFields
  <2>1. [l EXCEPT !.enabled = TRUE] \in ListenerFields
    <3>1. PICK t \in BOOLEAN : t = TRUE
      BY Zenon
    <3>2. [l EXCEPT !.enabled = t] \in ListenerFields
      BY DEF ListenerFields
    <3>. QED  BY <3>1, <3>2, Zenon
  <2>2. \A k \in ListenerFields, n \in Int : [k EXCEPT !.operation = n] \in ListenerFields
    BY DEF ListenerFields
  <2>3. \A k \in ListenerFields, m \in Nat : [k EXCEPT !.errors = m] \in ListenerFields
    BY DEF ListenerFields
  <2>. QED  BY <2>1, <2>2, <2>3
<1>4. \A c \in CopyFields :
          /\ \A s \in Steps : [c EXCEPT !.step = s] \in CopyFields
          /\ \A q \in Seq(Listeners) : [c EXCEPT !.notify = q] \in CopyFields
          /\ \A s \in Steps, o \in Outcomes, q \in Seq(Listeners) :
                [c EXCEPT !.step = s, !.outcome = o, !.notify = q] \in CopyFields
          /\ \A s \in Steps, x \in Ops : [c EXCEPT !.op = x, !.step = s] \in CopyFields
  BY DEF CopyFields
<1>. QED  BY <1>1, <1>2, <1>3, <1>4

\* The same of the variables.
LEMMA FieldFacts ==
    ASSUME Types
    PROVE  /\ \A a \in Actions :
                 /\ action[a] \in Fields
                 /\ action[a].state \in States /\ action[a].worker \in Workers \cup {None}
                 /\ action[a].launches \in Nat /\ action[a].transferErrors \in Nat
                 /\ action[a].executionErrors \in Nat /\ action[a].round \in Nat
                 /\ runner[a].by \in Threads \cup {None} /\ runner[a].left \in SUBSET Data
                 /\ onWorker[a] \in Nat
           /\ \A l \in Listeners :
                 /\ listener[l] \in ListenerFields
                 /\ listener[l].operation \in Int /\ listener[l].errors \in Nat
                 /\ listener[l].enabled \in BOOLEAN
           /\ \A i \in Pool :
                 /\ copy[i] \in CopyFields
                 /\ copy[i].op \in Ops \cup {None} /\ copy[i].step \in Steps
                 /\ copy[i].notify \in Seq(Listeners) /\ copy[i].outcome \in Outcomes
<1>1. /\ action \in [Actions -> Fields] /\ listener \in [Listeners -> ListenerFields]
      /\ copy \in [Pool -> CopyFields] /\ onWorker \in [Actions -> Nat]
      /\ runner \in [Actions -> [by : Threads \cup {None}, left : SUBSET Data]]
  BY DEF Types
<1>2. \A a \in Actions :
         runner[a].by \in Threads \cup {None} /\ runner[a].left \in SUBSET Data
  BY <1>1
<1>3. /\ \A a \in Actions : action[a] \in Fields /\ onWorker[a] \in Nat
      /\ \A l \in Listeners : listener[l] \in ListenerFields
      /\ \A i \in Pool : copy[i] \in CopyFields
  BY <1>1
<1>. QED  BY <1>2, <1>3, RecordFacts

\* A copy is given by its listener and its datum.
LEMMA OpFacts ==
    ASSUME Types, NEW op \in Ops
    PROVE  /\ op[1] \in Actions /\ op[2] \in Rounds /\ op[3] \in Data
           /\ op = <<op[1], op[2], op[3]>> /\ Own(op) = <<op[1], op[2]>> /\ Own(op) \in Listeners
           /\ \A x \in Ops : Own(x) = Own(op) /\ x[3] = op[3] => x = op
           /\ \A l \in Listeners : op \in OpsOf(l) <=> Own(op) = l
BY DEF Ops, Own, Listeners, OpsOf

\* Mode does not change, and with it the executions, their listeners and their copies.
LEMMA SameSets ==
    ASSUME mode' = mode
    PROVE  /\ Actions' = Actions /\ Listeners' = Listeners /\ Ops' = Ops
           /\ CopyFields' = CopyFields
           /\ \A l : OpsOf(l)' = OpsOf(l)
           /\ \A op : Own(op)' = Own(op) /\ ReadOnly(op)' = ReadOnly(op)
           /\ \A a : Inputs(a)' = Inputs(a)
BY DEF Actions, Listeners, Ops, CopyFields, OpsOf, Own, ReadOnly, Inputs

\* A step that touches no copy, and orders none.
LEMMA SameCopies ==
    ASSUME CopyInv, UNCHANGED <<mode, copyVars>>,
           \A op \in Ops : Unordered(op)' => Unordered(op),
           \A l \in Listeners : listener'[l].operation = listener[l].operation
    PROVE  CopyInv'
<1>1. Actions' = Actions /\ Listeners' = Listeners /\ Ops' = Ops
  BY SameSets
<1>2. \A i, op : Holds(i, op)' <=> Holds(i, op)
  BY DEF Holds, copyVars
<1>3. \A op \in Ops : (Waits(op)' => Waits(op)) /\ (Untouched(op) => Untouched(op)')
  BY <1>1, <1>2 DEF Waits, Untouched, copyVars, Own
<1>4. PlacesDistinct'
  BY <1>2 DEF CopyInv, PlacesDistinct, copyVars
<1>5. ASSUME NEW i \in Pool PROVE CopyOK(i)'
  <2>1. CopyOK(i)
    BY DEF CopyInv
  <2>. QED  BY <1>1, <2>1 DEF CopyOK, copyVars
<1>6. ASSUME NEW op \in Ops PROVE OpOK(op)'
  <2>1. OpOK(op)
    BY DEF CopyInv
  <2>. QED  BY <1>2, <1>3, <2>1 DEF OpOK, copyVars
<1>7. ASSUME NEW l \in Listeners PROVE Counted(l)'
  <2>1. Counted(l)
    BY DEF CopyInv
  <2>2. \A i : Tells(i, l)' <=> Tells(i, l)
    BY DEF Tells, copyVars, Own
  <2>3. Tellers(l)' = Tellers(l)
    BY <2>2 DEF Tellers
  <2>4. OpsOf(l)' = OpsOf(l)
    BY SameSets
  <2>. QED  BY <2>1, <2>3, <2>4 DEF Counted, copyVars
<1>. QED  BY <1>1, <1>4, <1>5, <1>6, <1>7 DEF CopyInv

\* A thread of the pool goes on with its copy: it does not touch others, and notifies
\* whom it takes off its list.
LEMMA CopyGoesOn ==
    ASSUME Types, Types', CopyInv, NEW i \in Pool, copy[i].step # "idle", copy'[i].step # "perform",
           UNCHANGED <<mode, action, runner, copyQueue, opListeners>>,
           \A j \in Pool \ {i} : copy'[j] = copy[j],
           copy'[i].step # "idle" => copy'[i].op = copy[i].op,
           \A x \in Ops \ {copy[i].op} :
               endState'[x] = endState[x] /\ (x \in inProgress' <=> x \in inProgress),
           CopyOK(i)',
           copy[i].op \in inProgress' => copy'[i].step \in {"copy", "finally", "notify"},
           \A l \in Listeners : listener'[l].operation
               = listener[l].operation - One(Tells(i, l)) + One(Tells(i, l)')
    PROVE  CopyInv'
<1> DEFINE op == copy[i].op
<1>0. CopyOK(i)
  BY DEF CopyInv
<1>1. op \in Ops /\ ~ Unordered(op)
  BY <1>0 DEF CopyOK
<1>2. Actions' = Actions /\ Listeners' = Listeners /\ Ops' = Ops
  BY SameSets
<1>3. \A x : Unordered(x)' <=> Unordered(x)
  BY DEF Unordered
<1>4. \A j \in Pool \ {i} : copy[j].step # "idle" => copy[j].op # op
  BY DEF CopyInv, PlacesDistinct, Holds
<1>5. \A x : \A j \in Pool : Holds(j, x)' => Holds(j, x)
  BY DEF Holds
<1>6. \A x : \A j \in Pool : j # i => (Holds(j, x)' <=> Holds(j, x))
  BY DEF Holds
<1>7. ~ In(copyQueue, op)
  BY DEF CopyInv, PlacesDistinct
<1>8. \A x \in Ops : Waits(x)' => Waits(x) /\ x # op
  <2> SUFFICES ASSUME NEW x \in Ops, Waits(x)' PROVE Waits(x) /\ x # op
    OBVIOUS
  <2>1. CASE Unordered(x)'
    BY <1>1, <1>3, <2>1 DEF Waits
  <2>2. CASE In(copyQueue, x)'
    BY <1>7, <2>2 DEF Waits, In
  <2>3. CASE \E j \in Pool : (Holds(j, x) /\ copy[j].step = "perform")'
    <3>1. PICK j \in Pool : (Holds(j, x) /\ copy[j].step = "perform")'
      BY <2>3
    <3>2. j # i /\ copy'[j] = copy[j]
      BY <3>1
    <3>3. Holds(j, x) /\ copy[j].step = "perform"
      BY <1>6, <3>1, <3>2
    <3>4. x # op
      BY <1>4, <3>2, <3>3 DEF Holds
    <3>. QED  BY <3>3, <3>4 DEF Waits
  <2>. QED  BY <2>1, <2>2, <2>3 DEF Waits
<1>9. PlacesDistinct'
  <2>1. Distinct(copyQueue)'
    BY DEF CopyInv, PlacesDistinct, Distinct
  <2>2. \A j \in Pool : copy'[j].step # "idle" => copy[j].step # "idle" /\ copy'[j].op = copy[j].op
    OBVIOUS
  <2>3. \A j \in Pool : copy'[j].step # "idle" => ~ In(copyQueue', copy'[j].op)
    BY <2>2 DEF CopyInv, PlacesDistinct
  <2>4. \A j, k \in Pool : copy'[j].step # "idle" /\ copy'[k].step # "idle" /\ copy'[k].op = copy'[j].op
            => j = k
    BY <2>2 DEF CopyInv, PlacesDistinct, Holds
  <2>. QED  BY <2>1, <2>3, <2>4 DEF PlacesDistinct, Holds
<1>10. ASSUME NEW j \in Pool PROVE CopyOK(j)'
  <2>1. CASE j = i
    BY <2>1
  <2>2. CASE j # i
    <3>1. CopyOK(j) /\ copy'[j] = copy[j]
      BY <2>2 DEF CopyInv
    <3>2. copy[j].step # "idle" => copy[j].op \in Ops \ {op}
      BY <1>4, <2>2, <3>1 DEF CopyOK
    <3>3. copy[j].step # "idle" => endState'[copy[j].op] = endState[copy[j].op]
                                /\ (copy[j].op \in inProgress' <=> copy[j].op \in inProgress)
      BY <3>2
    <3>. QED  BY <1>2, <1>3, <3>1, <3>3 DEF CopyOK
  <2>. QED  BY <2>1, <2>2
<1>11. ASSUME NEW x \in Ops PROVE OpOK(x)'
  <2>1. OpOK(x)
    BY DEF CopyInv
  <2>2. Distinct(opListeners[x])'
    BY <2>1 DEF OpOK, Distinct
  <2>3. Waits(x)' => Untouched(x)'
    <3> SUFFICES ASSUME Waits(x)' PROVE Untouched(x)'
      OBVIOUS
    <3>1. Untouched(x) /\ x # op
      BY <1>8, <2>1 DEF OpOK
    <3>2. endState'[x] = endState[x] /\ (x \in inProgress' <=> x \in inProgress)
      BY <3>1
    <3>. QED  BY <1>2, <3>1, <3>2 DEF Untouched, Own, In
  <2>4. ASSUME x \in inProgress'
        PROVE  \E j \in Pool : (Holds(j, x) /\ copy[j].step \in {"copy", "finally", "notify"})'
    <3>1. CASE x = op
      BY <2>4, <3>1 DEF Holds
    <3>2. CASE x # op
      <4>1. x \in inProgress
        BY <2>4, <3>2
      <4>2. PICK j \in Pool : Holds(j, x) /\ copy[j].step \in {"copy", "finally", "notify"}
        BY <2>1, <4>1 DEF OpOK
      <4>3. j # i
        BY <3>2, <4>2 DEF Holds
      <4>. QED  BY <4>2, <4>3 DEF Holds
    <3>. QED  BY <3>1, <3>2
  <2>5. Unordered(x)' => ~ In(copyQueue, x)'
    BY <1>3, <2>1 DEF OpOK, In
  <2>. QED  BY <2>2, <2>3, <2>4, <2>5 DEF OpOK
<1>12. ASSUME NEW l \in Listeners PROVE Counted(l)'
  <2>1. Counted(l)
    BY DEF CopyInv
  <2>2. \A j \in Pool \ {i} : Tells(j, l)' <=> Tells(j, l)
    <3> TAKE j \in Pool \ {i}
    <3>1. copy'[j] = copy[j] /\ CopyOK(j)
      BY DEF CopyInv
    <3>2. copy[j].step # "idle" => endState'[copy[j].op] = endState[copy[j].op]
      BY <1>4, <3>1 DEF CopyOK
    <3>. QED  BY <3>1, <3>2 DEF Tells, Own, In
  <2>3. /\ Cardinality(Tellers(l)) \in Nat /\ Cardinality(Tellers(l)') \in Nat
        /\ Cardinality(Tellers(l)') = Cardinality(Tellers(l)) - One(i \in Tellers(l))
                                        + One(i \in Tellers(l)')
    <3>1. Tellers(l) \in SUBSET Pool /\ Tellers(l)' \in SUBSET Pool
      BY DEF Tellers
    <3>2. \A j \in Pool \ {i} : j \in Tellers(l) <=> j \in Tellers(l)'
      BY <2>2 DEF Tellers
    <3>. QED  BY <3>1, <3>2, CountStep, FiniteAssumption
  <2>4. One(i \in Tellers(l)) = One(Tells(i, l)) /\ One(i \in Tellers(l)') = One(Tells(i, l)')
    BY DEF Tellers, One
  <2>5. Cardinality(Positions(copyQueue, OpsOf(l))) \in Nat
    BY PositionsFinite DEF Types
  <2>6. Positions(copyQueue, OpsOf(l))' = Positions(copyQueue, OpsOf(l))
    BY SameSets DEF Positions
  <2>7. One(Tells(i, l)) \in Int /\ One(Tells(i, l)') \in Int
    BY DEF One
  <2>. QED  BY <2>1, <2>3, <2>4, <2>5, <2>6, <2>7 DEF Counted
<1>. QED  BY <1>2, <1>9, <1>10, <1>11, <1>12 DEF CopyInv

-----------------------------------------------------------------------------
(* Types *)

\* Launches that are within their chances, each with its rounds.
LEMMA ChancesFacts ==
    /\ TRANSFER_CHANCES \in Nat \ {0} /\ SUBMISSION_CHANCES \in Nat \ {0}
    /\ SCHEDULING_CHANCES \in Nat \ {0}
    /\ TRANSFER_CHANCES * SCHEDULING_CHANCES \in Nat
    /\ \A n \in Nat : /\ n * TRANSFER_CHANCES \in Nat
                      /\ (n + 1 - 1) * TRANSFER_CHANCES = n * TRANSFER_CHANCES
                      /\ (n + 1) * TRANSFER_CHANCES = n * TRANSFER_CHANCES + TRANSFER_CHANCES
                      /\ n * TRANSFER_CHANCES = (n - 1) * TRANSFER_CHANCES + TRANSFER_CHANCES
                      /\ n <= SCHEDULING_CHANCES =>
                            n * TRANSFER_CHANCES <= TRANSFER_CHANCES * SCHEDULING_CHANCES
<1>1. /\ TRANSFER_CHANCES \in Nat \ {0} /\ SUBMISSION_CHANCES \in Nat \ {0}
      /\ SCHEDULING_CHANCES \in Nat \ {0}
  BY ChancesAssumption
<1>2. \A m, n, s \in Nat : n <= s => n * m <= m * s
  OBVIOUS
<1>. QED  BY <1>1, <1>2

\* The last round of an execution is one that its chances allow.
LEMMA RoundFacts ==
    ASSUME Types, LaunchInv, NEW a \in Actions
    PROVE  /\ action[a].round \in Nat
           /\ action[a].round <= TRANSFER_CHANCES * SCHEDULING_CHANCES
           /\ action[a].round # 0 => action[a].round \in Rounds /\ Current(a) \in Listeners
           /\ runner[a].by # None => action[a].round # 0
<1>1. BoundsOK(a) /\ RoundsOK(a)
  BY DEF LaunchInv, LaunchOK
<1>2. action[a].round \in Nat /\ action[a].launches \in Nat
  BY FieldFacts
<1>3. action[a].round <= TRANSFER_CHANCES * SCHEDULING_CHANCES
  <2>1. /\ action[a].round <= action[a].launches * TRANSFER_CHANCES
        /\ action[a].launches <= SCHEDULING_CHANCES
    BY <1>1 DEF BoundsOK
  <2>2. /\ action[a].launches * TRANSFER_CHANCES \in Nat
        /\ TRANSFER_CHANCES * SCHEDULING_CHANCES \in Nat
        /\ action[a].launches * TRANSFER_CHANCES <= TRANSFER_CHANCES * SCHEDULING_CHANCES
    BY <1>2, <2>1, ChancesFacts
  <2>. QED  BY <1>2, <2>1, <2>2
<1>4. action[a].round # 0 => action[a].round \in Rounds
  BY <1>2, <1>3, ChancesFacts DEF Rounds
<1>5. action[a].round # 0 => Current(a) \in Listeners
  BY <1>4 DEF Current, Listeners
<1>6. runner[a].by # None => action[a].round # 0
  BY <1>1 DEF RoundsOK
<1>. QED  BY <1>2, <1>3, <1>4, <1>5, <1>6

\* None is not a reaction.
LEMMA ReactionFacts ==
    ASSUME Types
    PROVE  /\ None \notin Listeners \X Reactions
           /\ \A i \in Threads : doing[i] # None =>
                 /\ doing[i] \in Listeners \X Reactions
                 /\ doing[i][1] \in Listeners /\ doing[i][1][1] \in Actions
                 /\ doing[i][1][2] \in Rounds
                 /\ doing[i][2] \in Reactions /\ doing[i] = <<doing[i][1], doing[i][2]>>
<1>1. None \notin Listeners \X Reactions
  BY NoneAssumption DEF Types, Listeners, Actions, Reactions
<1>. QED  BY <1>1 DEF Types, Listeners

\* A copy that a thread holds goes to a worker.
LEMMA CopyWorker ==
    ASSUME Types, CopyInv, LaunchInv, NEW i \in Pool, copy[i].step # "idle"
    PROVE  copy[i].op \in Ops /\ copy[i].op[3] \in Data /\ WorkerOf(copy[i].op) \in Workers
<1> DEFINE op == copy[i].op
<1>1. op \in Ops /\ ~ Unordered(op)
  BY DEF CopyInv, CopyOK
<1>2. op[1] \in Actions /\ op[2] \in Rounds /\ op[3] \in Data
  BY <1>1, OpFacts
<1>3. action[op[1]].round \in Nat /\ op[2] \in Nat
  BY <1>2, FieldFacts, ChancesFacts DEF Rounds
<1>4. op[2] <= action[op[1]].round
  BY <1>1, <1>3 DEF Unordered
<1>5. RoundsOK(op[1])
  BY <1>2 DEF LaunchInv, LaunchOK
<1>6. tgtLoc[<<op[1], op[2]>>] \in Workers
  BY <1>2, <1>4, <1>5 DEF RoundsOK
<1>. QED  BY <1>1, <1>2, <1>6 DEF WorkerOf

\* What the transfers of a new round leave typed.
LEMMA NewRoundTypes ==
    ASSUME Types, NEW a \in Actions, NEW i \in Threads, NEW fields,
           fields \in Fields,
           DoInputTransfers(a, i, fields)
    PROVE  /\ action' \in [Actions -> Fields]
           /\ runner' \in [Actions -> [by : Threads \cup {None}, left : SUBSET Data]]
           /\ tgtLoc' \in [Listeners -> Workers \cup {None}]
<1>1. Inputs(a) \in SUBSET Data
  BY DEF Inputs
<1>2. [fields EXCEPT !.round = @ + 1] \in Fields /\ fields.worker \in Workers \cup {None}
  BY RecordFacts, RecordUpdates
<1>. QED  BY <1>1, <1>2 DEF DoInputTransfers, Types

\* The reaction that a listener decides on.
LEMMA VerdictFacts ==
    ASSUME NEW l \in Listeners, NEW n, NEW m, NEW b \in BOOLEAN
    PROVE  Verdict(l, n, m, b) \in {None} \cup (Listeners \X Reactions)
BY DEF Verdict, Reactions

\* Every step keeps the types.
LEMMA NextTypes ==
    ASSUME JobInv, Next
    PROVE  Types' /\ LocationsOK'
<1>0. Types /\ CopyInv /\ LaunchInv /\ LocationsOK
  BY DEF JobInv
<1>a. ASSUME mode' = mode
      PROVE  /\ Actions' = Actions /\ Listeners' = Listeners /\ Ops' = Ops
             /\ CopyFields' = CopyFields
  BY <1>a, SameSets
<1>1. ASSUME NEW a \in Actions, DoAction(a) PROVE Types' /\ LocationsOK'
  <2>1. PICK w \in Workers :
          DoInputTransfers(a, TD, [action[a] EXCEPT !.state = "running", !.worker = w,
                                                    !.launches = @ + 1, !.transferErrors = 0,
                                                    !.executionErrors = 0])
    BY <1>1 DEF DoAction
  <2> DEFINE fields == [action[a] EXCEPT !.state = "running", !.worker = w, !.launches = @ + 1,
                                         !.transferErrors = 0, !.executionErrors = 0]
  <2>2. fields \in Fields
    BY <1>0, FieldFacts, RecordUpdates
  <2>3. DoInputTransfers(a, TD, fields)
    BY <2>1
  <2> HIDE DEF fields
  <2>4. TD \in Threads
    BY DEF Threads
  <2>5. /\ action' \in [Actions -> Fields]
        /\ runner' \in [Actions -> [by : Threads \cup {None}, left : SUBSET Data]]
        /\ tgtLoc' \in [Listeners -> Workers \cup {None}]
    BY <1>0, <2>2, <2>3, <2>4, NewRoundTypes
  <2>6. UNCHANGED <<mode, listener, doing, copyVars, jobVars, tdQueue>>
    BY <1>1 DEF DoAction
  <2>. QED  BY <1>0, <1>a, <2>5, <2>6 DEF Types, copyVars, jobVars, LocationsOK
<1>2. ASSUME NEW a \in Actions, TransferJobData(a) PROVE Types' /\ LocationsOK'
  <2>1. PICK d \in runner[a].left :
          /\ copyQueue' = Append(copyQueue, <<a, action[a].round, d>>)
          /\ runner' = [runner EXCEPT ![a].left = @ \ {d}]
    BY <1>2 DEF TransferJobData
  <2>2. /\ listener' = [listener EXCEPT ![Current(a)].operation = @ + 1]
        /\ UNCHANGED <<mode, action, tgtLoc, doing, copy, opListeners, endState, inProgress,
                       located, present, jobVars, tdQueue>>
    BY <1>2 DEF TransferJobData
  <2>3. RoundsOK(a)
    BY <1>0 DEF LaunchInv, LaunchOK
  <2>4. action[a].round \in Rounds /\ d \in Data
    BY <1>0, <2>1, <2>3, RoundFacts DEF RoundsOK, Types
  <2>5. <<a, action[a].round, d>> \in Ops
    BY <2>4 DEF Ops
  <2>6. copyQueue' \in Seq(Ops)
    BY <1>0, <2>1, <2>5 DEF Types
  <2>7. runner' \in [Actions -> [by : Threads \cup {None}, left : SUBSET Data]]
    BY <1>0, <2>1 DEF Types
  <2>8. listener' \in [Listeners -> ListenerFields]
    <3>1. listener' = [listener EXCEPT ![Current(a)] =
                          [@ EXCEPT !.operation = listener[Current(a)].operation + 1]]
      BY <2>2
    <3>2. Current(a) \in Listeners
      BY <2>4 DEF Current, Listeners
    <3>3. listener[Current(a)].operation + 1 \in Int
      BY <1>0, <3>2, FieldFacts
    <3>. QED  BY <1>0, <3>1, <3>3, RecordUpdates DEF Types
  <2>. QED  BY <1>0, <1>a, <2>2, <2>6, <2>7, <2>8 DEF Types, jobVars, LocationsOK
<1>3. ASSUME NEW a \in Actions, Enable(a) PROVE Types' /\ LocationsOK'
  <2> DEFINE l == Current(a)
             v == Verdict(l, listener[l].operation, listener[l].errors, TRUE)
  <2>1. /\ listener' = [listener EXCEPT ![l].enabled = TRUE]
        /\ doing' = [doing EXCEPT ![runner[a].by] = v]
        /\ runner' = [runner EXCEPT ![a] = NoRunner]
        /\ runner[a].by # None
        /\ UNCHANGED <<mode, action, tgtLoc, copyVars, jobVars, tdQueue>>
    BY <1>3 DEF Enable
  <2>2. l \in Listeners
    BY <1>0, <2>1, RoundFacts
  <2>3. v \in {None} \cup (Listeners \X Reactions)
    BY <2>2, VerdictFacts
  <2> HIDE DEF v
  <2>4. doing' \in [Threads -> {None} \cup (Listeners \X Reactions)]
    BY <1>0, <2>1, <2>3 DEF Types
  <2>5. listener' \in [Listeners -> ListenerFields]
    <3>1. listener' = [listener EXCEPT ![l] = [@ EXCEPT !.enabled = TRUE]]
      BY <2>1
    <3>. QED  BY <1>0, <3>1, RecordUpdates DEF Types
  <2>6. runner' \in [Actions -> [by : Threads \cup {None}, left : SUBSET Data]]
    BY <1>0, <2>1 DEF Types, NoRunner
  <2>. QED  BY <1>0, <1>a, <2>1, <2>4, <2>5, <2>6 DEF Types, copyVars, jobVars, LocationsOK
<1>4. ASSUME NEW a \in Actions, CompletedJob(a) PROVE Types' /\ LocationsOK'
  <2>1. /\ onWorker[a] > 0 /\ onWorker' = [onWorker EXCEPT ![a] = @ - 1]
        /\ tdQueue' = Append(tdQueue, <<a, "completed">>)
        /\ UNCHANGED <<mode, action, transferVars, copyVars, jobQueue>>
    BY <1>4 DEF CompletedJob
  <2>2. <<a, "completed">> \in Actions \X Ends
    BY DEF Ends
  <2>3. tdQueue' \in Seq(Actions \X Ends)
    BY <1>0, <2>1, <2>2 DEF Types
  <2>4. onWorker' \in [Actions -> Nat]
    BY <1>0, <2>1 DEF Types
  <2>. QED  BY <1>0, <1>a, <2>1, <2>3, <2>4 DEF Types, transferVars, copyVars, LocationsOK
<1>5. ASSUME NEW a \in Actions, NEW q \in Seq(Actions), FailedJob(a, q)
      PROVE  /\ jobQueue' \in Seq(Actions) /\ tdQueue' \in Seq(Actions \X Ends)
             /\ action' \in [Actions -> Fields]
  <2>1. <<a, "error">> \in Actions \X Ends
    BY DEF Ends
  <2>2. jobQueue' \in Seq(Actions) /\ tdQueue' \in Seq(Actions \X Ends)
    <3>1. \/ jobQueue' = Append(q, a) /\ tdQueue' = tdQueue
          \/ jobQueue' = q /\ tdQueue' = Append(tdQueue, <<a, "error">>)
      BY <1>5 DEF FailedJob
    <3>2. tdQueue \in Seq(Actions \X Ends)
      BY <1>0 DEF Types
    <3>3. Append(q, a) \in Seq(Actions) /\ Append(tdQueue, <<a, "error">>) \in Seq(Actions \X Ends)
      BY <2>1, <3>2, AppendProperties
    <3>. QED  BY <3>1, <3>2, <3>3
  <2>3. [action[a] EXCEPT !.executionErrors = @ + 1] \in Fields
    BY <1>0, FieldFacts, RecordUpdates
  <2>4. action' = [action EXCEPT ![a] = [action[a] EXCEPT !.executionErrors = @ + 1]]
    BY <1>5 DEF FailedJob
  <2>. QED  BY <1>0, <2>2, <2>3, <2>4 DEF Types
<1>6. ASSUME NEW a \in Actions, JobFails(a) PROVE Types' /\ LocationsOK'
  <2>1. /\ onWorker[a] > 0 /\ onWorker' = [onWorker EXCEPT ![a] = @ - 1]
        /\ FailedJob(a, jobQueue)
        /\ UNCHANGED <<mode, transferVars, copyVars>>
    BY <1>6 DEF JobFails
  <2>2. onWorker' \in [Actions -> Nat]
    BY <1>0, <2>1 DEF Types
  <2>3. jobQueue \in Seq(Actions)
    BY <1>0 DEF Types
  <2>4. /\ jobQueue' \in Seq(Actions) /\ tdQueue' \in Seq(Actions \X Ends)
        /\ action' \in [Actions -> Fields]
    BY <1>5, <2>1, <2>3
  <2>. QED  BY <1>0, <1>a, <2>1, <2>2, <2>4 DEF Types, transferVars, copyVars, LocationsOK
<1>7. ASSUME NEW i \in Threads, DoSubmit(i) PROVE Types' /\ LocationsOK'
  <2>1. /\ doing[i] # None /\ jobQueue' = Append(jobQueue, doing[i][1][1])
        /\ doing' = [doing EXCEPT ![i] = None]
        /\ UNCHANGED <<mode, action, listener, runner, tgtLoc, copyVars, onWorker, tdQueue>>
    BY <1>7 DEF DoSubmit
  <2>2. doing[i][1][1] \in Actions
    BY <1>0, <2>1, ReactionFacts
  <2>3. jobQueue' \in Seq(Actions)
    BY <1>0, <2>1, <2>2 DEF Types
  <2>4. doing' \in [Threads -> {None} \cup (Listeners \X Reactions)]
    BY <1>0, <2>1 DEF Types
  <2>. QED  BY <1>0, <1>a, <2>1, <2>3, <2>4 DEF Types, copyVars, LocationsOK
<1>8. ASSUME NEW i \in Threads, FailedTransfers(i) PROVE Types' /\ LocationsOK'
  <2> DEFINE a == doing[i][1][1]
             counted == [action[a] EXCEPT !.transferErrors = @ + 1]
  <2>1. /\ doing[i] # None /\ doing' = [doing EXCEPT ![i] = None]
        /\ UNCHANGED <<mode, listener, copyVars, jobVars>>
    BY <1>8 DEF FailedTransfers
  <2>2. \/ DoInputTransfers(a, i, counted) /\ UNCHANGED tdQueue
        \/ /\ action' = [action EXCEPT ![a] = counted]
           /\ tdQueue' = Append(tdQueue, <<a, "error">>)
           /\ UNCHANGED <<runner, tgtLoc>>
    BY <1>8 DEF FailedTransfers
  <2>3. a \in Actions
    BY <1>0, <2>1, ReactionFacts
  <2> HIDE DEF a
  <2>4. counted \in Fields
    BY <1>0, <2>3, FieldFacts, RecordUpdates
  <2> HIDE DEF counted
  <2>5. /\ action' \in [Actions -> Fields]
        /\ runner' \in [Actions -> [by : Threads \cup {None}, left : SUBSET Data]]
        /\ tgtLoc' \in [Listeners -> Workers \cup {None}]
        /\ tdQueue' \in Seq(Actions \X Ends)
    <3>1. CASE DoInputTransfers(a, i, counted) /\ UNCHANGED tdQueue
      <4>1. tdQueue' \in Seq(Actions \X Ends)
        BY <1>0, <3>1 DEF Types
      <4>. QED  BY <1>0, <2>3, <2>4, <3>1, <4>1, NewRoundTypes
    <3>2. CASE /\ action' = [action EXCEPT ![a] = counted]
               /\ tdQueue' = Append(tdQueue, <<a, "error">>)
               /\ UNCHANGED <<runner, tgtLoc>>
      <4>1. <<a, "error">> \in Actions \X Ends
        BY <2>3 DEF Ends
      <4>2. tdQueue' \in Seq(Actions \X Ends)
        BY <1>0, <3>2, <4>1, AppendProperties DEF Types
      <4>. QED  BY <1>0, <2>4, <3>2, <4>2 DEF Types
    <3>. QED  BY <2>2, <3>1, <3>2
  <2>6. doing' \in [Threads -> {None} \cup (Listeners \X Reactions)]
    BY <1>0, <2>1 DEF Types
  <2>. QED  BY <1>0, <1>a, <2>1, <2>5, <2>6 DEF Types, copyVars, jobVars, LocationsOK
<1>9. ASSUME NEW i \in Pool, PoolStep(i) PROVE Types' /\ LocationsOK'
  <2> DEFINE op == copy[i].op
  <2>0. copy[i].step # "idle" => /\ op \in Ops /\ op[3] \in Data /\ WorkerOf(op) \in Workers
                                 /\ opListeners[op] \in Seq(Listeners)
    BY <1>0, CopyWorker DEF Types
  <2> HIDE DEF op
  <2>c. ASSUME NEW s \in Steps, copy' = [copy EXCEPT ![i].step = s]
        PROVE  copy' \in [Pool -> CopyFields]
    <3>1. copy' = [copy EXCEPT ![i] = [@ EXCEPT !.step = s]]
      BY <2>c
    <3>. QED  BY <1>0, <3>1, RecordUpdates DEF Types
  <2>e. ASSUME NEW o \in Outcomes, copy[i].step # "idle", EndAs(i, o, opListeners[op])
        PROVE  copy' \in [Pool -> CopyFields]
    <3>1. copy' = [copy EXCEPT ![i] =
                      [@ EXCEPT !.step = "notify", !.outcome = o, !.notify = opListeners[op]]]
      BY <2>e DEF EndAs
    <3>2. "notify" \in Steps
      BY DEF Steps
    <3>. QED  BY <1>0, <2>0, <2>e, <3>1, <3>2, RecordUpdates DEF Types
  <2>n. /\ NoCopy \in CopyFields
        /\ [copy EXCEPT ![i] = NoCopy] \in
               [Pool -> CopyFields]
    <3>1. NoCopy \in CopyFields
      <4>1. << >> \in Seq(Listeners)
        OBVIOUS
      <4>. QED  BY <4>1 DEF NoCopy, Steps, Outcomes, CopyFields
    <3>. QED  BY <1>0, <3>1 DEF Types
  <2>o. \A o \in Outcomes : [endState EXCEPT ![op] = o] \in [Ops -> Outcomes]
    BY <1>0 DEF Types
  <2>1. CASE Dequeue(i)
    <3>1. /\ copyQueue # << >>
          /\ copy' = [copy EXCEPT ![i] = [NoCopy EXCEPT !.op = Head(copyQueue), !.step = "perform"]]
          /\ copyQueue' = Tail(copyQueue)
          /\ UNCHANGED <<mode, action, transferVars, opListeners, endState, inProgress, located,
                         present, jobVars, tdQueue>>
      BY <2>1 DEF Dequeue
    <3>2. Head(copyQueue) \in Ops /\ copyQueue' \in Seq(Ops)
      BY <1>0, <3>1 DEF Types
    <3>3. [NoCopy EXCEPT !.op = Head(copyQueue), !.step = "perform"] \in CopyFields
      <4>1. "perform" \in Steps
        BY DEF Steps
      <4>. QED  BY <2>n, <3>2, <4>1, RecordUpdates
    <3>4. copy' \in [Pool -> CopyFields]
      BY <1>0, <3>1, <3>3 DEF Types
    <3>. QED  BY <1>0, <1>a, <3>1, <3>2, <3>4 DEF Types, transferVars, jobVars, LocationsOK
  <2>2. CASE AlreadyAvailable(i)
    <3>1. /\ copy[i].step # "idle" /\ endState' = [endState EXCEPT ![op] = "ok"]
          /\ EndAs(i, "ok", opListeners[op])
          /\ UNCHANGED <<mode, action, transferVars, copyQueue, opListeners, inProgress,
                         located, present, jobVars, tdQueue>>
      BY <2>2 DEF AlreadyAvailable, op
    <3>2. "ok" \in Outcomes
      BY DEF Outcomes
    <3>. QED  BY <1>0, <1>a, <2>e, <2>o, <3>1, <3>2 DEF Types, transferVars, jobVars, LocationsOK
  <2>3. CASE AlreadyCopying(i)
    <3>1. /\ copy[i].step # "idle" /\ endState' = [endState EXCEPT ![op] = "in_progress"]
          /\ UNCHANGED <<mode, action, transferVars, copyQueue, inProgress, located, present,
                         jobVars, tdQueue>>
      BY <2>3 DEF AlreadyCopying, op
    <3>2. PICK other \in SameCopy(op) :
              \/ /\ opListeners' = [opListeners EXCEPT ![other] = @ \o opListeners[op]]
                 /\ copy' = [copy EXCEPT ![i] = NoCopy]
              \/ /\ EndAs(i, endState[other], opListeners[op])
                 /\ UNCHANGED opListeners
      BY <2>3 DEF AlreadyCopying, op
    <3>3. other \in Ops /\ endState[other] \in Outcomes /\ "in_progress" \in Outcomes
      BY <1>0, <3>2 DEF SameCopy, Types, Outcomes
    <3>4. opListeners' \in [Ops -> Seq(Listeners)]
      <4>1. opListeners \in [Ops -> Seq(Listeners)]
        BY <1>0 DEF Types
      <4>2. opListeners[other] \o opListeners[op] \in Seq(Listeners)
        BY <2>0, <3>1, <3>3, <4>1, ConcatProperties
      <4>. QED  BY <3>2, <4>1, <4>2
    <3>5. copy' \in [Pool -> CopyFields]
      BY <2>e, <2>n, <3>1, <3>2, <3>3
    <3>. QED  BY <1>0, <1>a, <2>o, <3>1, <3>3, <3>4, <3>5
              DEF Types, transferVars, jobVars, LocationsOK
  <2>4. CASE StartCopy(i)
    <3>1. /\ copy[i].step # "idle" /\ inProgress' = inProgress \cup {op}
          /\ copy' = [copy EXCEPT ![i].step = "copy"]
          /\ UNCHANGED <<mode, action, transferVars, copyQueue, opListeners, endState,
                         located, present, jobVars, tdQueue>>
      BY <2>4 DEF StartCopy, op
    <3>2. "copy" \in Steps
      BY DEF Steps
    <3>3. inProgress' \in SUBSET Ops
      BY <1>0, <2>0, <3>1 DEF Types
    <3>. QED  BY <1>0, <1>a, <2>c, <3>1, <3>2, <3>3 DEF Types, transferVars, jobVars, LocationsOK
  <2>5. CASE CopySucceeds(i)
    <3>1. /\ copy[i].step # "idle"
          /\ present' = IF ReadOnly(op) THEN [present EXCEPT ![op[3]] = @ \cup {WorkerOf(op)}]
                                        ELSE present
          /\ copy' = [copy EXCEPT ![i].step = "finally"]
          /\ UNCHANGED <<mode, action, transferVars, copyQueue, opListeners, endState,
                         inProgress, located, jobVars, tdQueue>>
      BY <2>5 DEF CopySucceeds, op
    <3>2. "finally" \in Steps
      BY DEF Steps
    <3>3. present' \in [Data -> SUBSET Workers]
      BY <1>0, <2>0, <3>1 DEF LocationsOK
    <3>. QED  BY <1>0, <1>a, <2>c, <3>1, <3>2, <3>3 DEF Types, transferVars, jobVars, LocationsOK
  <2>6. CASE CopyFails(i)
    <3>1. /\ copy[i].step # "idle" /\ endState' = [endState EXCEPT ![op] = "failed"]
          /\ EndAs(i, "failed", opListeners[op])
          /\ UNCHANGED <<mode, action, transferVars, copyQueue, opListeners, inProgress,
                         located, present, jobVars, tdQueue>>
      BY <2>6 DEF CopyFails, op
    <3>2. "failed" \in Outcomes
      BY DEF Outcomes
    <3>. QED  BY <1>0, <1>a, <2>e, <2>o, <3>1, <3>2 DEF Types, transferVars, jobVars, LocationsOK
  <2>7. CASE Finally(i)
    <3>1. /\ copy[i].step # "idle" /\ inProgress' = inProgress \ {op}
          /\ located' = IF ReadOnly(op) THEN [located EXCEPT ![op[3]] = @ \cup {WorkerOf(op)}]
                                        ELSE located
          /\ \/ copy' = [copy EXCEPT ![i] = NoCopy]
             \/ copy' = [copy EXCEPT ![i].step = "end"]
          /\ UNCHANGED <<mode, action, transferVars, copyQueue, opListeners, endState,
                         present, jobVars, tdQueue>>
      BY <2>7 DEF Finally, op
    <3>2. "end" \in Steps
      BY DEF Steps
    <3>3. copy' \in [Pool -> CopyFields]
      BY <2>c, <2>n, <3>1, <3>2
    <3>4. located' \in [Data -> SUBSET Workers] /\ inProgress' \in SUBSET Ops
      BY <1>0, <2>0, <3>1 DEF LocationsOK, Types
    <3>. QED  BY <1>0, <1>a, <3>1, <3>3, <3>4 DEF Types, transferVars, jobVars, LocationsOK
  <2>8. CASE EndOk(i)
    <3>1. /\ copy[i].step # "idle" /\ endState' = [endState EXCEPT ![op] = "ok"]
          /\ EndAs(i, "ok", opListeners[op])
          /\ UNCHANGED <<mode, action, transferVars, copyQueue, opListeners, inProgress,
                         located, present, jobVars, tdQueue>>
      BY <2>8 DEF EndOk, op
    <3>2. "ok" \in Outcomes
      BY DEF Outcomes
    <3>. QED  BY <1>0, <1>a, <2>e, <2>o, <3>1, <3>2 DEF Types, transferVars, jobVars, LocationsOK
  <2>9. CASE NotifyListener(i)
    <3> DEFINE l == Head(copy[i].notify)
               operation == listener[l].operation - 1
               errors == listener[l].errors + (IF copy[i].outcome = "ok" THEN 0 ELSE 1)
               v == Verdict(l, operation, errors, listener[l].enabled)
    <3>1. /\ copy[i].notify # << >>
          /\ listener' = [listener EXCEPT ![l].operation = operation, ![l].errors = errors]
          /\ doing' = [doing EXCEPT ![i] = v]
          /\ copy' = [copy EXCEPT ![i].notify = Tail(@)]
          /\ UNCHANGED <<mode, action, runner, tgtLoc, copyQueue, opListeners, endState,
                         inProgress, located, present, jobVars, tdQueue>>
      BY <2>9 DEF NotifyListener
    <3>2. l \in Listeners /\ Tail(copy[i].notify) \in Seq(Listeners)
      <4>1. copy[i].notify \in Seq(Listeners)
        BY <1>0, FieldFacts
      <4>. QED  BY <3>1, <4>1
    <3> HIDE DEF l
    <3>3. operation \in Int /\ errors \in Nat /\ listener[l].enabled \in BOOLEAN
      BY <1>0, <3>2, FieldFacts
    <3>4. v \in {None} \cup (Listeners \X Reactions)
      BY <3>2, <3>3, VerdictFacts
    <3> HIDE DEF operation, errors, v
    <3>5. listener' \in [Listeners -> ListenerFields]
      <4>1. listener' = [listener EXCEPT ![l] =
                            [@ EXCEPT !.operation = operation, !.errors = errors]]
        BY <3>1
      <4>. QED  BY <1>0, <3>3, <4>1, RecordUpdates DEF Types
    <3>6. doing' \in [Threads -> {None} \cup (Listeners \X Reactions)]
      BY <1>0, <3>1, <3>4 DEF Types
    <3>7. copy' \in [Pool -> CopyFields]
      <4>1. copy' = [copy EXCEPT ![i] = [@ EXCEPT !.notify = Tail(copy[i].notify)]]
        BY <3>1
      <4>. QED  BY <1>0, <3>2, <4>1, RecordUpdates DEF Types
    <3>. QED  BY <1>0, <1>a, <3>1, <3>5, <3>6, <3>7 DEF Types, jobVars, LocationsOK
  <2>10. CASE Notified(i)
    <3>1. /\ \/ copy' = [copy EXCEPT ![i] = NoCopy]
             \/ copy' = [copy EXCEPT ![i].step = "finally"]
          /\ UNCHANGED <<mode, action, transferVars, copyQueue, opListeners, endState,
                         inProgress, located, present, jobVars, tdQueue>>
      BY <2>10 DEF Notified
    <3>2. "finally" \in Steps
      BY DEF Steps
    <3>3. copy' \in [Pool -> CopyFields]
      BY <2>c, <2>n, <3>1, <3>2
    <3>. QED  BY <1>0, <1>a, <3>1, <3>3 DEF Types, transferVars, jobVars, LocationsOK
  <2>. QED  BY <1>9, <2>1, <2>2, <2>3, <2>4, <2>5, <2>6, <2>7, <2>8, <2>9, <2>10 DEF PoolStep
<1>10. CASE SubmitJob
  <2>1. /\ jobQueue # << >> /\ onWorker' = [onWorker EXCEPT ![Head(jobQueue)] = @ + 1]
        /\ jobQueue' = Tail(jobQueue)
        /\ UNCHANGED <<mode, action, transferVars, copyVars, tdQueue>>
    BY <1>10 DEF SubmitJob
  <2>2. jobQueue' \in Seq(Actions) /\ onWorker' \in [Actions -> Nat]
    BY <1>0, <2>1 DEF Types
  <2>. QED  BY <1>0, <1>a, <2>1, <2>2 DEF Types, transferVars, copyVars, LocationsOK
<1>11. CASE SubmissionFails
  <2>1. /\ jobQueue # << >> /\ FailedJob(Head(jobQueue), Tail(jobQueue))
        /\ UNCHANGED <<mode, transferVars, copyVars, onWorker>>
    BY <1>11 DEF SubmissionFails
  <2>2. Head(jobQueue) \in Actions /\ Tail(jobQueue) \in Seq(Actions)
    BY <1>0, <2>1 DEF Types
  <2>3. /\ jobQueue' \in Seq(Actions) /\ tdQueue' \in Seq(Actions \X Ends)
        /\ action' \in [Actions -> Fields]
    BY <1>5, <2>1, <2>2
  <2>. QED  BY <1>0, <1>a, <2>1, <2>3 DEF Types, transferVars, copyVars, LocationsOK
<1>12. CASE TreatEnd
  <2>1. /\ tdQueue # << >> /\ tdQueue' = Tail(tdQueue)
        /\ UNCHANGED <<mode, transferVars, copyVars, jobVars>>
    BY <1>12 DEF TreatEnd
  <2>2. PICK s \in States : action' = [action EXCEPT ![Head(tdQueue)[1]].state = s]
    BY <1>12 DEF TreatEnd, States
  <2>3. tdQueue' \in Seq(Actions \X Ends)
    BY <1>0, <2>1 DEF Types
  <2>4. action' \in [Actions -> Fields]
    <3>1. action' = [action EXCEPT ![Head(tdQueue)[1]] = [@ EXCEPT !.state = s]]
      BY <2>2
    <3>. QED  BY <1>0, <3>1, RecordUpdates DEF Types
  <2>. QED  BY <1>0, <1>a, <2>1, <2>3, <2>4 DEF Types, transferVars, copyVars, jobVars, LocationsOK
<1>. QED  BY <1>1, <1>2, <1>3, <1>4, <1>6, <1>7, <1>8, <1>9, <1>10, <1>11, <1>12
          DEF Next, ActionStep, ReactStep

-----------------------------------------------------------------------------
(* The copies, action by action *)

\* A new round does not order more than the one before left.
LEMMA NewRoundUnordered ==
    ASSUME Types, mode' = mode, NEW a \in Actions, NEW i, NEW fields, fields \in Fields,
           fields.round = action[a].round, DoInputTransfers(a, i, fields)
    PROVE  \A op \in Ops : Unordered(op)' => Unordered(op)
<1> SUFFICES ASSUME NEW op \in Ops, Unordered(op)' PROVE Unordered(op)
  OBVIOUS
<1>1. op[1] \in Actions /\ op[2] \in Nat /\ action[a].round \in Nat
  BY OpFacts, FieldFacts, ChancesFacts DEF Rounds
<1>2. /\ action' = [action EXCEPT ![a] = [fields EXCEPT !.round = @ + 1]]
      /\ runner' = [runner EXCEPT ![a] = [by |-> i, left |-> Inputs(a)]]
  BY DEF DoInputTransfers
<1>3. action \in [Actions -> Fields] /\ DOMAIN runner = Actions
  BY DEF Types
<1>4. CASE op[1] = a
  <2>1. action'[a].round = action[a].round + 1
    <3>1. action'[a] = [fields EXCEPT !.round = @ + 1]
      BY <1>2, <1>3
    <3>2. [fields EXCEPT !.round = @ + 1].round = fields.round + 1
      BY DEF Fields
    <3>. QED  BY <3>1, <3>2
  <2>2. op[2] >= action[a].round + 1
    BY <1>1, <1>4, <2>1 DEF Unordered
  <2>. QED  BY <1>1, <1>4, <2>2 DEF Unordered
<1>5. CASE op[1] # a
  <2>1. action'[op[1]] = action[op[1]] /\ runner'[op[1]] = runner[op[1]]
    BY <1>1, <1>2, <1>3, <1>5
  <2>. QED  BY <2>1 DEF Unordered
<1>. QED  BY <1>4, <1>5

\* A copy is ordered: it goes from the data that are left to the queue.
LEMMA TransferJobDataCopies ==
    ASSUME JobInv, Types', NEW a \in Actions, TransferJobData(a)
    PROVE  CopyInv'
<1>0. Types /\ CopyInv /\ LaunchInv
  BY DEF JobInv
<1>1. PICK d \in runner[a].left :
        /\ copyQueue' = Append(copyQueue, <<a, action[a].round, d>>)
        /\ runner' = [runner EXCEPT ![a].left = @ \ {d}]
  BY DEF TransferJobData
<1>2. /\ listener' = [listener EXCEPT ![Current(a)].operation = @ + 1]
      /\ UNCHANGED <<mode, action, copy, opListeners, endState, inProgress>>
  BY DEF TransferJobData
<1> DEFINE r == action[a].round
<1>b. r \in Rounds /\ d \in Data /\ <<a, r, d>> \in Ops
  <2>1. RoundsOK(a)
    BY <1>0 DEF LaunchInv, LaunchOK
  <2>2. r # 0 /\ d \in Data
    BY <1>0, <1>1, <2>1, FieldFacts DEF RoundsOK
  <2>. QED  BY <1>0, <2>2, RoundFacts DEF Ops
<1>3. PICK op \in Ops : op = <<a, r, d>>
  BY <1>b
<1>4. op[1] = a /\ op[2] = r /\ op[3] = d /\ Own(op) = Current(a) /\ Current(a) \in Listeners
  BY <1>b, <1>3 DEF Own, Current, Listeners
<1>5. Actions' = Actions /\ Listeners' = Listeners /\ Ops' = Ops
  BY <1>2, SameSets
<1>6. Unordered(op)
  BY <1>1, <1>4 DEF Unordered
<1>7. OpOK(op) /\ Untouched(op) /\ ~ In(copyQueue, op)
  BY <1>0, <1>3, <1>6 DEF CopyInv, OpOK, Waits
<1>8. \A i \in Pool : ~ Holds(i, op)
  BY <1>0, <1>6 DEF CopyInv, CopyOK, Holds
<1>9. copyQueue \in Seq(Ops) /\ copyQueue' = Append(copyQueue, op)
  BY <1>0, <1>1, <1>3 DEF Types
<1>10. \A x : In(copyQueue', x) <=> In(copyQueue, x) \/ x = op
  BY <1>9, InFacts
<1>11. \A x \in Ops : Unordered(x)' => Unordered(x) /\ x # op
  <2> SUFFICES ASSUME NEW x \in Ops, Unordered(x)' PROVE Unordered(x) /\ x # op
    OBVIOUS
  <2>1. runner \in [Actions -> [by : Threads \cup {None}, left : SUBSET Data]]
    BY <1>0 DEF Types
  <2>2. runner'[a].left = runner[a].left \ {d} /\ \A b \in Actions \ {a} : runner'[b] = runner[b]
    BY <1>1, <2>1
  <2>3. x[1] \in Actions /\ x[2] \in Nat /\ r \in Nat
    BY <1>0, <1>b, OpFacts, ChancesFacts DEF Rounds
  <2>4. x # op
    <3>1. ~ Unordered(op)'
      BY <1>2, <1>4, <2>2, <2>3 DEF Unordered
    <3>. QED  BY <3>1
  <2>. QED  BY <1>2, <2>2, <2>3, <2>4 DEF Unordered
<1>12. \A i, x : Holds(i, x)' <=> Holds(i, x)
  BY <1>2 DEF Holds
<1>13. \A x : Untouched(x) => Untouched(x)'
  BY <1>2, <1>5 DEF Untouched, Own
<1>14. PlacesDistinct'
  <2>1. Distinct(copyQueue')
    BY <1>0, <1>3, <1>7, <1>9, InFacts DEF CopyInv, PlacesDistinct
  <2>2. \A i \in Pool : copy[i].step # "idle" => ~ In(copyQueue', copy[i].op)
    BY <1>0, <1>8, <1>10 DEF CopyInv, PlacesDistinct, Holds
  <2>. QED  BY <1>0, <1>2, <1>12, <2>1, <2>2 DEF CopyInv, PlacesDistinct
<1>15. ASSUME NEW i \in Pool PROVE CopyOK(i)'
  <2>1. CopyOK(i)
    BY <1>0 DEF CopyInv
  <2>. QED  BY <1>2, <1>5, <1>11, <2>1 DEF CopyOK
<1>16. ASSUME NEW x \in Ops PROVE OpOK(x)'
  <2>1. OpOK(x)
    BY <1>0 DEF CopyInv
  <2>2. Waits(x)' => Untouched(x)
    <3>1. Waits(x)' => Waits(x) \/ x = op
      BY <1>2, <1>10, <1>11, <1>12 DEF Waits
    <3>. QED  BY <1>7, <2>1, <3>1 DEF OpOK
  <2>3. Unordered(x)' => ~ In(copyQueue', x)
    BY <1>10, <1>11, <2>1 DEF OpOK
  <2>. QED  BY <1>2, <1>12, <1>13, <2>1, <2>2, <2>3 DEF OpOK
<1>17. ASSUME NEW l \in Listeners PROVE Counted(l)'
  <2>1. Counted(l)
    BY <1>0 DEF CopyInv
  <2>2. \A i : Tells(i, l)' <=> Tells(i, l)
    BY <1>2 DEF Tells, Own
  <2>3. Tellers(l)' = Tellers(l)
    BY <2>2 DEF Tellers
  <2>4. OpsOf(l)' = OpsOf(l) /\ (op \in OpsOf(l) <=> Current(a) = l)
    BY <1>0, <1>2, <1>3, <1>4, SameSets, OpFacts
  <2>5. Cardinality(Positions(copyQueue', OpsOf(l)))
          = Cardinality(Positions(copyQueue, OpsOf(l))) + One(op \in OpsOf(l))
    BY <1>3, <1>9, PositionsAppend
  <2>6. Cardinality(Positions(copyQueue, OpsOf(l))) \in Nat
    BY <1>9, PositionsFinite
  <2>7. Cardinality(Tellers(l)) \in Nat
    BY FiniteAssumption, FS_Subset, FS_CardinalityType DEF Tellers
  <2>8. listener'[l].operation = listener[l].operation + One(op \in OpsOf(l))
    <3>1. listener \in [Listeners -> ListenerFields] /\ listener[l].operation \in Int
      BY <1>0, FieldFacts DEF Types
    <3>2. CASE l = Current(a)
      <4>1. listener'[l] = [listener[l] EXCEPT !.operation = listener[l].operation + 1]
        BY <1>2, <1>4, <3>1, <3>2
      <4>2. listener[l] \in ListenerFields
        BY <3>1
      <4>3. listener'[l].operation = listener[l].operation + 1
        BY <4>1, <4>2 DEF ListenerFields
      <4>. QED  BY <2>4, <3>2, <4>3 DEF One
    <3>3. CASE l # Current(a)
      BY <1>2, <2>4, <3>1, <3>3 DEF One
    <3>. QED  BY <3>2, <3>3
  <2>9. One(op \in OpsOf(l)) \in Nat
    BY DEF One
  <2>. QED  BY <2>1, <2>3, <2>4, <2>5, <2>6, <2>7, <2>8, <2>9 DEF Counted
<1>. QED  BY <1>5, <1>14, <1>15, <1>16, <1>17 DEF CopyInv

\* A thread takes the first copy of the queue.
LEMMA DequeueCopies ==
    ASSUME JobInv, Types', NEW i \in Pool, Dequeue(i)
    PROVE  CopyInv'
<1>0. Types /\ CopyInv
  BY DEF JobInv
<1> DEFINE op == Head(copyQueue)
<1>1. /\ copy[i] = NoCopy /\ copyQueue # << >> /\ copyQueue' = Tail(copyQueue)
      /\ copy' = [copy EXCEPT ![i] = [NoCopy EXCEPT !.op = op, !.step = "perform"]]
      /\ UNCHANGED <<mode, action, listener, runner, opListeners, endState, inProgress>>
  BY DEF Dequeue, transferVars
<1>2. copyQueue \in Seq(Ops) /\ copy \in [Pool -> CopyFields]
  BY <1>0 DEF Types
<1>3. op \in Ops
  BY <1>1, <1>2
<1> HIDE DEF op
<1>4. copy[i].step = "idle" /\ copy'[i].step = "perform" /\ copy'[i].op = op
  BY <1>1, <1>2 DEF NoCopy
<1>5. \A j \in Pool \ {i} : copy'[j] = copy[j]
  BY <1>1, <1>2
<1>6. Actions' = Actions /\ Listeners' = Listeners /\ Ops' = Ops
  BY <1>1, SameSets
<1>7. /\ In(copyQueue, op) /\ ~ In(copyQueue', op) /\ Distinct(copyQueue')
      /\ \A x : In(copyQueue', x) => In(copyQueue, x) /\ x # op
  BY <1>0, <1>1, <1>2, InFacts DEF CopyInv, PlacesDistinct, op
<1>8. OpOK(op) /\ Untouched(op) /\ ~ Unordered(op)
  BY <1>0, <1>3, <1>7 DEF CopyInv, OpOK, Waits
<1>9. \A j \in Pool : ~ Holds(j, op)
  BY <1>0, <1>7 DEF CopyInv, PlacesDistinct, Holds
<1>10. \A x : (Unordered(x)' <=> Unordered(x)) /\ (Untouched(x)' <=> Untouched(x))
  BY <1>1, <1>6 DEF Unordered, Untouched, Own
<1>11. \A x : \A j \in Pool \ {i} : Holds(j, x)' <=> Holds(j, x)
  BY <1>5 DEF Holds
<1>12. \A x : Holds(i, x)' <=> x = op
  BY <1>4 DEF Holds
<1>13. \A x : ~ Holds(i, x)
  BY <1>4 DEF Holds
<1>14. PlacesDistinct'
  <2>1. ASSUME NEW j \in Pool, NEW k \in Pool, copy'[j].step # "idle", Holds(k, copy[j].op)'
        PROVE  j = k
    <3>1. CASE j = i /\ k # i
      BY <1>4, <1>9, <1>11, <2>1, <3>1
    <3>2. CASE j # i /\ k = i
      BY <1>4, <1>5, <1>9, <1>12, <2>1, <3>2 DEF Holds
    <3>3. CASE j # i /\ k # i
      BY <1>0, <1>5, <1>11, <2>1, <3>3 DEF CopyInv, PlacesDistinct
    <3>. QED  BY <3>1, <3>2, <3>3
  <2>2. \A j \in Pool : copy'[j].step # "idle" => ~ In(copyQueue', copy'[j].op)
    BY <1>0, <1>4, <1>5, <1>7 DEF CopyInv, PlacesDistinct
  <2>. QED  BY <1>7, <2>1, <2>2 DEF PlacesDistinct
<1>15. ASSUME NEW j \in Pool PROVE CopyOK(j)'
  <2>1. CASE j = i
    <3>1. op \notin inProgress /\ endState[op] = "null"
      BY <1>8 DEF Untouched
    <3>. QED  BY <1>1, <1>3, <1>4, <1>6, <1>8, <1>10, <2>1, <3>1 DEF CopyOK
  <2>2. CASE j # i
    <3>1. CopyOK(j)
      BY <1>0 DEF CopyInv
    <3>. QED  BY <1>1, <1>5, <1>6, <1>10, <2>2, <3>1 DEF CopyOK
  <2>. QED  BY <2>1, <2>2
<1>16. ASSUME NEW x \in Ops PROVE OpOK(x)'
  <2>1. OpOK(x)
    BY <1>0 DEF CopyInv
  <2>2. Waits(x)' => Waits(x) \/ x = op
    BY <1>5, <1>7, <1>10, <1>11, <1>12 DEF Waits
  <2>3. Waits(x)' => Untouched(x)'
    BY <1>8, <1>10, <2>1, <2>2 DEF OpOK
  <2>4. x \in inProgress =>
          \E j \in Pool : (Holds(j, x) /\ copy[j].step \in {"copy", "finally", "notify"})'
    <3> HAVE x \in inProgress
    <3>1. PICK j \in Pool : Holds(j, x) /\ copy[j].step \in {"copy", "finally", "notify"}
      BY <2>1 DEF OpOK
    <3>2. j # i
      BY <1>13, <3>1
    <3>. QED  BY <1>5, <1>11, <3>1, <3>2
  <2>5. Unordered(x)' => ~ In(copyQueue', x)
    BY <1>7, <1>10, <2>1 DEF OpOK
  <2>. QED  BY <1>1, <2>1, <2>3, <2>4, <2>5 DEF OpOK
<1>17. ASSUME NEW l \in Listeners PROVE Counted(l)'
  <2>1. Counted(l)
    BY <1>0 DEF CopyInv
  <2>2. \A j \in Pool \ {i} : Tells(j, l)' <=> Tells(j, l)
    BY <1>1, <1>5 DEF Tells, Own
  <2>3. ~ Tells(i, l) /\ (Tells(i, l)' <=> Own(op) = l)
    BY <1>4 DEF Tells, Own
  <2>4. /\ Cardinality(Tellers(l)) \in Nat /\ Cardinality(Tellers(l)') \in Nat
        /\ Cardinality(Tellers(l)') = Cardinality(Tellers(l)) - One(i \in Tellers(l))
                                        + One(i \in Tellers(l)')
    <3>1. Tellers(l) \in SUBSET Pool /\ Tellers(l)' \in SUBSET Pool
      BY DEF Tellers
    <3>2. \A j \in Pool \ {i} : j \in Tellers(l) <=> j \in Tellers(l)'
      BY <2>2 DEF Tellers
    <3>. QED  BY <3>1, <3>2, CountStep, FiniteAssumption
  <2>5. OpsOf(l)' = OpsOf(l) /\ (op \in OpsOf(l) <=> Own(op) = l)
    BY <1>0, <1>1, <1>3, SameSets, OpFacts
  <2>6. One(i \in Tellers(l)) = 0 /\ One(i \in Tellers(l)') = One(op \in OpsOf(l))
    BY <2>3, <2>5 DEF Tellers, One
  <2>7. Cardinality(Positions(copyQueue', OpsOf(l)))
          = Cardinality(Positions(copyQueue, OpsOf(l))) - One(op \in OpsOf(l))
    BY <1>1, <1>2, PositionsTail DEF op
  <2>8. Cardinality(Positions(copyQueue, OpsOf(l))) \in Nat /\ One(op \in OpsOf(l)) \in Nat
    BY <1>2, PositionsFinite DEF One
  <2>. QED  BY <1>1, <2>1, <2>4, <2>5, <2>6, <2>7, <2>8 DEF Counted
<1>. QED  BY <1>6, <1>14, <1>15, <1>16, <1>17 DEF CopyInv

\* An operation joins a copy of the same datum that is in progress.
LEMMA JoinCopies ==
    ASSUME JobInv, Types', NEW i \in Pool, copy[i].step = "perform",
           NEW other \in inProgress, other[3] = copy[i].op[3], endState[other] = "null",
           endState' = [endState EXCEPT ![copy[i].op] = "in_progress"],
           opListeners' = [opListeners EXCEPT ![other] = @ \o opListeners[copy[i].op]],
           copy' = [copy EXCEPT ![i] = NoCopy],
           UNCHANGED <<mode, action, listener, runner, copyQueue, inProgress>>
    PROVE  CopyInv'
<1>0. Types /\ CopyInv
  BY DEF JobInv
<1>1. CopyOK(i)
  BY <1>0 DEF CopyInv
<1>2. PICK op \in Ops : op = copy[i].op
  BY <1>1 DEF CopyOK
<1>3. op \notin inProgress /\ ~ Unordered(op) /\ endState[op] = "null" /\ Holds(i, op)
  BY <1>1, <1>2 DEF CopyOK, Holds
<1>4. OpOK(op) /\ Untouched(op)
  BY <1>0, <1>2, <1>3 DEF CopyInv, OpOK, Waits
<1>5. other \in Ops /\ other # op /\ other[3] = op[3] /\ OpOK(other)
  BY <1>0, <1>2, <1>3 DEF Types, CopyInv
<1>6. /\ opListeners \in [Ops -> Seq(Listeners)] /\ endState \in [Ops -> Outcomes]
      /\ copy \in [Pool -> CopyFields] /\ Own(op) \in Listeners
  BY <1>0, OpFacts DEF Types
<1>7. /\ ~ In(opListeners[other], Own(op))
      /\ opListeners'[other] = Append(opListeners[other], Own(op))
      /\ \A x \in Ops \ {other} : opListeners'[x] = opListeners[x]
  <2>1. opListeners[op] = << Own(op) >> /\ ~ In(opListeners[other], Own(op))
    BY <1>4, <1>5 DEF Untouched
  <2>2. opListeners'[other] = opListeners[other] \o << Own(op) >>
    BY <1>2, <1>5, <1>6, <2>1
  <2>3. opListeners[other] \o << Own(op) >> = Append(opListeners[other], Own(op))
    BY <1>5, <1>6, <2>1
  <2>. QED  BY <1>6, <2>1, <2>2, <2>3
<1>8. /\ Distinct(opListeners'[other])
      /\ \A l : In(opListeners'[other], l) <=> In(opListeners[other], l) \/ l = Own(op)
  <2>1. opListeners[other] \in Seq(Listeners) /\ Distinct(opListeners[other])
    BY <1>5, <1>6 DEF OpOK
  <2>2. \A l : In(Append(opListeners[other], Own(op)), l)
                <=> In(opListeners[other], l) \/ l = Own(op)
    BY <1>6, <2>1, InFacts
  <2>3. Distinct(Append(opListeners[other], Own(op)))
    BY <1>6, <1>7, <2>1, InFacts
  <2>. QED  BY <1>7, <2>2, <2>3
<1>9. /\ copy'[i].step = "idle" /\ \A j \in Pool \ {i} : copy'[j] = copy[j]
      /\ \A x \in Ops \ {op} : endState'[x] = endState[x]
  BY <1>2, <1>6 DEF NoCopy
<1>10. Actions' = Actions /\ Listeners' = Listeners /\ Ops' = Ops
  BY SameSets
<1>11. PICK k \in Pool : Holds(k, other) /\ copy[k].step \in {"copy", "finally"}
  <2>1. PICK k \in Pool : Holds(k, other) /\ copy[k].step \in {"copy", "finally", "notify"}
    BY <1>5 DEF OpOK
  <2>2. CopyOK(k)
    BY <1>0 DEF CopyInv
  <2>. QED  BY <2>1, <2>2 DEF CopyOK, Holds
<1>12. k # i /\ \A j \in Pool : copy[j].step # "idle" /\ copy[j].op = other => j = k
  BY <1>0, <1>2, <1>5, <1>11 DEF CopyInv, PlacesDistinct, Holds
<1>13. \A j \in Pool \ {i} : copy[j].step # "idle" => copy[j].op # op /\ copy[j].op \in Ops
  BY <1>0, <1>3 DEF CopyInv, PlacesDistinct, Holds, CopyOK
<1>14. /\ \A x : \A j \in Pool \ {i} : Holds(j, x)' <=> Holds(j, x)
       /\ \A x : ~ Holds(i, x)'
  BY <1>9 DEF Holds
<1>15. \A x : Unordered(x)' <=> Unordered(x)
  BY DEF Unordered
<1>16. ~ In(copyQueue, op)
  BY <1>0, <1>2 DEF CopyInv, PlacesDistinct
<1>17. \A x \in Ops : Waits(x)' => Waits(x) /\ x # op
  <2> SUFFICES ASSUME NEW x \in Ops, Waits(x)' PROVE Waits(x) /\ x # op
    OBVIOUS
  <2>1. CASE Unordered(x)'
    BY <1>3, <1>15, <2>1 DEF Waits
  <2>2. CASE In(copyQueue, x)'
    BY <1>16, <2>2 DEF Waits, In
  <2>3. CASE \E j \in Pool : (Holds(j, x) /\ copy[j].step = "perform")'
    BY <1>9, <1>13, <1>14, <2>3 DEF Waits, Holds
  <2>. QED  BY <2>1, <2>2, <2>3 DEF Waits
<1>18. PlacesDistinct'
  <2>1. Distinct(copyQueue)'
    BY <1>0 DEF CopyInv, PlacesDistinct, Distinct
  <2>2. \A j \in Pool : copy'[j].step # "idle" => j # i /\ copy'[j] = copy[j]
    BY <1>9
  <2>3. \A j \in Pool : copy'[j].step # "idle" => ~ In(copyQueue', copy'[j].op)
    BY <1>0, <2>2 DEF CopyInv, PlacesDistinct
  <2>4. \A j, m \in Pool : copy'[j].step # "idle" /\ copy'[m].step # "idle" /\ copy'[m].op = copy'[j].op
            => j = m
    BY <1>0, <2>2 DEF CopyInv, PlacesDistinct, Holds
  <2>. QED  BY <2>1, <2>3, <2>4 DEF PlacesDistinct, Holds
<1>19. ASSUME NEW j \in Pool PROVE CopyOK(j)'
  <2>1. CASE j = i
    BY <1>9, <2>1 DEF CopyOK
  <2>2. CASE j # i
    <3>1. CopyOK(j) /\ copy'[j] = copy[j]
      BY <1>0, <1>9, <2>2 DEF CopyInv
    <3>2. copy[j].step # "idle" => endState'[copy[j].op] = endState[copy[j].op]
      BY <1>9, <1>13, <2>2
    <3>. QED  BY <1>10, <1>15, <3>1, <3>2 DEF CopyOK
  <2>. QED  BY <2>1, <2>2
<1>20. ASSUME NEW x \in Ops PROVE OpOK(x)'
  <2>1. OpOK(x)
    BY <1>0 DEF CopyInv
  <2>2. Distinct(opListeners'[x])
    <3>1. CASE x = other
      BY <1>8, <3>1
    <3>2. CASE x # other
      BY <1>7, <2>1, <3>2 DEF OpOK
    <3>. QED  BY <3>1, <3>2
  <2>3. Waits(x)' => Untouched(x)'
    <3> SUFFICES ASSUME Waits(x)' PROVE Untouched(x)'
      OBVIOUS
    <3>1. Untouched(x) /\ x # op
      BY <1>17, <2>1 DEF OpOK
    <3>2. x # other
      BY <3>1 DEF Untouched
    <3>3. x \notin inProgress' /\ endState'[x] = "null" /\ opListeners'[x] = << Own(x) >>
      BY <1>7, <1>9, <3>1, <3>2 DEF Untouched
    <3>4. ASSUME NEW y \in Ops, y # x, y[3] = x[3] PROVE ~ In(opListeners'[y], Own(x))
      <4>1. ~ In(opListeners[y], Own(x))
        BY <3>1, <3>4 DEF Untouched
      <4>2. CASE y = other
        <5>1. Own(x) # Own(op)
          BY <1>0, <1>5, <3>1, <3>4, <4>2, OpFacts
        <5>. QED  BY <1>8, <4>1, <4>2, <5>1
      <4>3. CASE y # other
        BY <1>7, <4>1, <4>3
      <4>. QED  BY <4>2, <4>3
    <3>. QED  BY <1>10, <3>3, <3>4 DEF Untouched, Own
  <2>4. x \in inProgress' =>
          \E j \in Pool : (Holds(j, x) /\ copy[j].step \in {"copy", "finally", "notify"})'
    <3> HAVE x \in inProgress'
    <3>1. x \in inProgress /\ x # op
      BY <1>3
    <3>2. PICK j \in Pool : Holds(j, x) /\ copy[j].step \in {"copy", "finally", "notify"}
      BY <2>1, <3>1 DEF OpOK
    <3>3. j # i
      BY <1>2, <3>1, <3>2 DEF Holds
    <3>. QED  BY <1>9, <1>14, <3>2, <3>3
  <2>5. Unordered(x)' => ~ In(copyQueue', x)
    BY <1>15, <2>1 DEF OpOK
  <2>. QED  BY <2>2, <2>3, <2>4, <2>5 DEF OpOK
<1>21. ASSUME NEW l \in Listeners PROVE Counted(l)'
  <2>1. Counted(l)
    BY <1>0 DEF CopyInv
  <2>2. \A j \in Pool \ {i, k} : Tells(j, l)' <=> Tells(j, l)
    <3> TAKE j \in Pool \ {i, k}
    <3>1. copy'[j] = copy[j]
      BY <1>9
    <3>2. copy[j].step # "idle" =>
             /\ endState'[copy[j].op] = endState[copy[j].op]
             /\ opListeners'[copy[j].op] = opListeners[copy[j].op]
      BY <1>7, <1>9, <1>12, <1>13
    <3>. QED  BY <3>1, <3>2 DEF Tells, Own
  <2>3. copy'[k] = copy[k] /\ copy[k].op = other /\ endState'[other] = "null"
    BY <1>5, <1>9, <1>11, <1>12 DEF Holds
  <2>4. /\ Tells(k, l) <=> In(opListeners[other], l)
        /\ Tells(k, l)' <=> In(opListeners[other], l) \/ l = Own(op)
    BY <1>8, <1>11, <2>3 DEF Tells
  <2>5. (Tells(i, l) <=> l = Own(op)) /\ ~ Tells(i, l)'
    BY <1>2, <1>9 DEF Tells
  <2>6. Cardinality(Tellers(l)') = Cardinality(Tellers(l)) /\ Cardinality(Tellers(l)) \in Nat
    <3>0. IsFiniteSet(Tellers(l)) /\ Cardinality(Tellers(l)) \in Nat
      BY FiniteAssumption, FS_Subset, FS_CardinalityType DEF Tellers
    <3>1. CASE l # Own(op)
      <4>1. \A j \in Pool : Tells(j, l)' <=> Tells(j, l)
        BY <2>2, <2>4, <2>5, <3>1
      <4>2. Tellers(l)' = Tellers(l)
        BY <4>1 DEF Tellers
      <4>. QED  BY <3>0, <4>2
    <3>2. CASE l = Own(op)
      <4>1. Tellers(l)' = (Tellers(l) \ {i}) \cup {k} /\ i \in Tellers(l) /\ k \notin Tellers(l)
        BY <1>7, <1>12, <2>2, <2>4, <2>5, <3>2 DEF Tellers
      <4>2. IsFiniteSet(Tellers(l) \ {i})
            /\ Cardinality(Tellers(l) \ {i}) = Cardinality(Tellers(l)) - 1
        BY <3>0, <4>1, FS_RemoveElement
      <4>3. Cardinality((Tellers(l) \ {i}) \cup {k}) = Cardinality(Tellers(l) \ {i}) + 1
        BY <4>1, <4>2, FS_AddElement
      <4>. QED  BY <3>0, <4>1, <4>2, <4>3
    <3>. QED  BY <3>1, <3>2
  <2>7. Positions(copyQueue, OpsOf(l))' = Positions(copyQueue, OpsOf(l))
    BY SameSets DEF Positions
  <2>. QED  BY <2>1, <2>6, <2>7 DEF Counted
<1>. QED  BY <1>10, <1>18, <1>19, <1>20, <1>21 DEF CopyInv

\* A copy that ends notifies those that it has counted so far.
LEMMA EndCopies ==
    ASSUME JobInv, Types', NEW i \in Pool, copy[i].step \in {"perform", "copy", "end"},
           NEW o, NEW e \in Outcomes \ {"null"}, EndAs(i, o, opListeners[copy[i].op]),
           endState' = [endState EXCEPT ![copy[i].op] = e],
           copy[i].op \in inProgress => e = "failed",
           UNCHANGED <<mode, action, listener, runner, copyQueue, opListeners, inProgress>>
    PROVE  CopyInv'
<1>0. Types /\ CopyInv
  BY DEF JobInv
<1>1. CopyOK(i)
  BY <1>0 DEF CopyInv
<1>2. PICK op \in Ops : op = copy[i].op
  BY <1>1 DEF CopyOK
<1>3. /\ copy \in [Pool -> CopyFields] /\ opListeners \in [Ops -> Seq(Listeners)]
      /\ endState \in [Ops -> Outcomes]
  BY <1>0 DEF Types
<1>4. /\ copy'[i].step = "notify" /\ copy'[i].op = op /\ copy'[i].notify = opListeners[op]
      /\ \A j \in Pool \ {i} : copy'[j] = copy[j]
  BY <1>2, <1>3 DEF EndAs, CopyFields
<1>5. endState'[op] = e /\ \A x \in Ops \ {op} : endState'[x] = endState[x]
  BY <1>2, <1>3
<1>6. OpOK(op) /\ (copy[i].step = "perform" => opListeners[op] = << Own(op) >>)
  <2>1. OpOK(op)
    BY <1>0 DEF CopyInv
  <2>2. copy[i].step = "perform" => Waits(op)
    BY <1>2 DEF Waits, Holds
  <2>. QED  BY <2>1, <2>2 DEF OpOK, Untouched
<1>7. CopyOK(i)'
  <2>1. Ops' = Ops /\ (Unordered(op)' <=> Unordered(op))
    BY SameSets DEF Unordered
  <2>2. Distinct(opListeners[op])
    BY <1>6 DEF OpOK
  <2>. QED  BY <1>1, <1>2, <1>4, <1>5, <2>1, <2>2 DEF CopyOK
<1>8. ASSUME NEW l \in Listeners PROVE Tells(i, l)' <=> Tells(i, l)
  <2>1. Tells(i, l)' <=> In(opListeners[op], l)
    BY <1>4 DEF Tells
  <2>2. CASE copy[i].step = "perform"
    <3>1. In(<< Own(op) >>, l) <=> Own(op) = l
      BY DEF In
    <3>. QED  BY <1>2, <1>6, <2>1, <2>2, <3>1 DEF Tells
  <2>3. CASE copy[i].step \in {"copy", "end"}
    BY <1>2, <2>1, <2>3 DEF Tells
  <2>. QED  BY <2>2, <2>3
<1>9. ASSUME NEW l \in Listeners
      PROVE  listener'[l].operation
               = listener[l].operation - One(Tells(i, l)) + One(Tells(i, l)')
  <2>1. listener[l].operation \in Int
    BY <1>0, FieldFacts
  <2>2. One(Tells(i, l)') = One(Tells(i, l)) /\ One(Tells(i, l)) \in Int
    BY <1>8 DEF One
  <2>. QED  BY <2>1, <2>2
<1>10. copy[i].step # "idle"
  OBVIOUS
<1>. QED  BY <1>0, <1>2, <1>4, <1>5, <1>7, <1>9, <1>10, CopyGoesOn

\* A thread of the pool goes on to another step of its copy, and notifies nobody.
LEMMA StepCopies ==
    ASSUME JobInv, Types', NEW i \in Pool, copy[i].step # "idle", copy'[i].step # "perform",
           UNCHANGED <<mode, action, listener, runner, copyQueue, opListeners, endState>>,
           \A j \in Pool \ {i} : copy'[j] = copy[j],
           copy'[i].step # "idle" => copy'[i].op = copy[i].op,
           \A x \in Ops \ {copy[i].op} : x \in inProgress' <=> x \in inProgress,
           CopyOK(i)',
           copy[i].op \in inProgress' => copy'[i].step \in {"copy", "finally", "notify"},
           \A l \in Listeners : Tells(i, l)' <=> Tells(i, l)
    PROVE  CopyInv'
<1>0. Types /\ CopyInv
  BY DEF JobInv
<1>1. ASSUME NEW l \in Listeners
      PROVE  listener'[l].operation
               = listener[l].operation - One(Tells(i, l)) + One(Tells(i, l)')
  <2>1. listener[l].operation \in Int
    BY <1>0, FieldFacts
  <2>2. One(Tells(i, l)') = One(Tells(i, l)) /\ One(Tells(i, l)) \in Int
    BY DEF One
  <2>. QED  BY <2>1, <2>2
<1>2. \A x \in Ops \ {copy[i].op} :
         endState'[x] = endState[x] /\ (x \in inProgress' <=> x \in inProgress)
  OBVIOUS
<1>. QED  BY <1>0, <1>1, <1>2, CopyGoesOn

\* Every step of the pool keeps the copies.
LEMMA PoolCopies ==
    ASSUME JobInv, Types', NEW i \in Pool, PoolStep(i)
    PROVE  CopyInv'
<1>0. Types /\ CopyInv
  BY DEF JobInv
<1> DEFINE op == copy[i].op
<1>1. CopyOK(i) /\ copy[i] \in CopyFields /\ copy \in [Pool -> CopyFields]
  BY <1>0, FieldFacts DEF CopyInv, Types
<1>2. copy[i].step # "idle" => op \in Ops /\ OpOK(op) /\ ~ Unordered(op)
  BY <1>0, <1>1 DEF CopyInv, CopyOK
<1>3. ASSUME NEW s, copy' = [copy EXCEPT ![i].step = s]
      PROVE  /\ copy'[i].step = s /\ copy'[i].op = op /\ copy'[i].notify = copy[i].notify
             /\ \A j \in Pool \ {i} : copy'[j] = copy[j]
  BY <1>1, <1>3 DEF CopyFields
<1>4. ASSUME copy' = [copy EXCEPT ![i] = NoCopy]
      PROVE  copy'[i].step = "idle" /\ \A j \in Pool \ {i} : copy'[j] = copy[j]
  BY <1>1, <1>4 DEF NoCopy
<1>5. ASSUME UNCHANGED <<mode, action, runner>>
      PROVE  Ops' = Ops /\ \A x : Unordered(x)' <=> Unordered(x)
  BY <1>5, SameSets DEF Unordered
<1>6. CASE Dequeue(i)
  BY <1>6, DequeueCopies
<1>7. CASE AlreadyAvailable(i)
  <2>1. /\ copy[i].step = "perform" /\ endState' = [endState EXCEPT ![op] = "ok"]
        /\ EndAs(i, "ok", opListeners[op])
        /\ UNCHANGED <<mode, action, listener, runner, copyQueue, opListeners, inProgress>>
    BY <1>7 DEF AlreadyAvailable, transferVars
  <2>2. "ok" \in Outcomes \ {"null"} /\ op \notin inProgress
    BY <1>1, <2>1 DEF Outcomes, CopyOK
  <2>. QED  BY <2>1, <2>2, EndCopies
<1>8. CASE AlreadyCopying(i)
  <2>1. /\ copy[i].step = "perform" /\ endState' = [endState EXCEPT ![op] = "in_progress"]
        /\ UNCHANGED <<mode, action, listener, runner, copyQueue, inProgress>>
    BY <1>8 DEF AlreadyCopying, transferVars
  <2>2. PICK other \in SameCopy(op) :
           IF endState[other] = "null"
           THEN /\ opListeners' = [opListeners EXCEPT ![other] = @ \o opListeners[op]]
                /\ copy' = [copy EXCEPT ![i] = NoCopy]
           ELSE /\ EndAs(i, endState[other], opListeners[op])
                /\ UNCHANGED opListeners
    BY <1>8 DEF AlreadyCopying
  <2>3. other \in inProgress /\ other[3] = op[3]
    BY <2>2 DEF SameCopy
  <2>4. CASE endState[other] = "null"
    BY <2>1, <2>2, <2>3, <2>4, JoinCopies
  <2>5. CASE endState[other] # "null"
    <3>1. "in_progress" \in Outcomes \ {"null"} /\ op \notin inProgress
      BY <1>1, <2>1 DEF Outcomes, CopyOK
    <3>2. EndAs(i, endState[other], opListeners[op]) /\ opListeners' = opListeners
      BY <2>2, <2>5
    <3>. QED  BY <2>1, <3>1, <3>2, EndCopies
  <2>. QED  BY <2>4, <2>5
<1>9. CASE StartCopy(i)
  <2>1. /\ copy[i].step = "perform" /\ inProgress' = inProgress \cup {op}
        /\ copy' = [copy EXCEPT ![i].step = "copy"]
        /\ UNCHANGED <<mode, action, listener, runner, copyQueue, opListeners, endState>>
    BY <1>9 DEF StartCopy, transferVars
  <2>2. /\ copy'[i].step = "copy" /\ copy'[i].op = op /\ \A j \in Pool \ {i} : copy'[j] = copy[j]
    BY <1>3, <2>1
  <2>3. CopyOK(i)'
    BY <1>1, <1>2, <1>5, <2>1, <2>2 DEF CopyOK
  <2>4. ASSUME NEW l \in Listeners PROVE Tells(i, l)' <=> Tells(i, l)
    <3>1. opListeners[op] = << Own(op) >>
      BY <1>2, <2>1 DEF OpOK, Waits, Holds, Untouched
    <3>2. In(<< Own(op) >>, l) <=> Own(op) = l
      BY DEF In
    <3>. QED  BY <2>1, <2>2, <3>1, <3>2 DEF Tells
  <2>5. op \in inProgress' => copy'[i].step \in {"copy", "finally", "notify"}
    BY <2>2
  <2>6. \A x \in Ops \ {op} : x \in inProgress' <=> x \in inProgress
    BY <2>1
  <2>7. copy[i].step # "idle" /\ copy'[i].step # "perform"
    BY <2>1, <2>2
  <2>. QED  BY <2>1, <2>2, <2>3, <2>4, <2>5, <2>6, <2>7, StepCopies
<1>10. CASE CopySucceeds(i)
  <2>1. /\ copy[i].step = "copy" /\ copy' = [copy EXCEPT ![i].step = "finally"]
        /\ UNCHANGED <<mode, action, listener, runner, copyQueue, opListeners, endState, inProgress>>
    BY <1>10 DEF CopySucceeds, transferVars
  <2>2. /\ copy'[i].step = "finally" /\ copy'[i].op = op
        /\ \A j \in Pool \ {i} : copy'[j] = copy[j]
    BY <1>3, <2>1
  <2>3. CopyOK(i)'
    BY <1>1, <1>2, <1>5, <2>1, <2>2 DEF CopyOK
  <2>4. ASSUME NEW l \in Listeners PROVE Tells(i, l)' <=> Tells(i, l)
    <3>1. endState[op] = "null"
      BY <1>1, <2>1 DEF CopyOK
    <3>. QED  BY <2>1, <2>2, <3>1 DEF Tells
  <2>5. op \in inProgress' => copy'[i].step \in {"copy", "finally", "notify"}
    BY <2>2
  <2>6. copy[i].step # "idle" /\ copy'[i].step # "perform"
    BY <2>1, <2>2
  <2>. QED  BY <2>1, <2>2, <2>3, <2>4, <2>5, <2>6, StepCopies
<1>11. CASE CopyFails(i)
  <2>1. /\ copy[i].step = "copy" /\ endState' = [endState EXCEPT ![op] = "failed"]
        /\ EndAs(i, "failed", opListeners[op])
        /\ UNCHANGED <<mode, action, listener, runner, copyQueue, opListeners, inProgress>>
    BY <1>11 DEF CopyFails, transferVars
  <2>2. "failed" \in Outcomes \ {"null"}
    BY DEF Outcomes
  <2>. QED  BY <2>1, <2>2, EndCopies
<1>12. CASE Finally(i)
  <2>1. /\ copy[i].step = "finally" /\ inProgress' = inProgress \ {op}
        /\ copy' = IF endState[op] = "failed" THEN [copy EXCEPT ![i] = NoCopy]
                                              ELSE [copy EXCEPT ![i].step = "end"]
        /\ UNCHANGED <<mode, action, listener, runner, copyQueue, opListeners, endState>>
    BY <1>12 DEF Finally, transferVars
  <2>2. endState[op] \in {"null", "failed"}
    BY <1>1, <2>1 DEF CopyOK
  <2>3. /\ \A j \in Pool \ {i} : copy'[j] = copy[j]
        /\ endState[op] = "failed" => copy'[i].step = "idle"
        /\ endState[op] = "null" => copy'[i].step = "end" /\ copy'[i].op = op
    BY <1>3, <1>4, <2>1
  <2>4. CopyOK(i)'
    BY <1>1, <1>2, <1>5, <2>1, <2>2, <2>3 DEF CopyOK
  <2>5. ASSUME NEW l \in Listeners PROVE Tells(i, l)' <=> Tells(i, l)
    BY <2>1, <2>2, <2>3 DEF Tells
  <2>6. op \notin inProgress' /\ \A x \in Ops \ {op} : x \in inProgress' <=> x \in inProgress
    BY <2>1
  <2>7. copy[i].step # "idle" /\ copy'[i].step # "perform"
        /\ (copy'[i].step # "idle" => copy'[i].op = op)
    BY <2>1, <2>2, <2>3
  <2>. QED  BY <2>1, <2>3, <2>4, <2>5, <2>6, <2>7, StepCopies
<1>13. CASE EndOk(i)
  <2>1. /\ copy[i].step = "end" /\ endState' = [endState EXCEPT ![op] = "ok"]
        /\ EndAs(i, "ok", opListeners[op])
        /\ UNCHANGED <<mode, action, listener, runner, copyQueue, opListeners, inProgress>>
    BY <1>13 DEF EndOk, transferVars
  <2>2. "ok" \in Outcomes \ {"null"} /\ op \notin inProgress
    BY <1>1, <2>1 DEF Outcomes, CopyOK
  <2>. QED  BY <2>1, <2>2, EndCopies
<1>14. CASE NotifyListener(i)
  <2>0. PICK l0 \in Listeners : copy[i].notify # << >> /\ l0 = Head(copy[i].notify)
    BY <1>0, <1>14, FieldFacts DEF NotifyListener
  <2>1. /\ copy[i].step = "notify"
        /\ copy' = [copy EXCEPT ![i].notify = Tail(@)]
        /\ UNCHANGED <<mode, action, runner, copyQueue, opListeners, endState, inProgress>>
    BY <1>14 DEF NotifyListener
  <2>2. \E m : listener' = [listener EXCEPT ![l0].operation = listener[l0].operation - 1,
                                            ![l0].errors = m]
    BY <1>14, <2>0 DEF NotifyListener
  <2>3. /\ copy'[i].step = "notify" /\ copy'[i].op = op /\ copy'[i].notify = Tail(copy[i].notify)
        /\ \A j \in Pool \ {i} : copy'[j] = copy[j]
    BY <1>1, <2>1 DEF CopyFields
  <2>4. copy[i].notify \in Seq(Listeners) /\ Distinct(copy[i].notify)
    BY <1>0, <1>1, <2>1, FieldFacts DEF CopyOK
  <2>5. /\ Distinct(Tail(copy[i].notify)) /\ ~ In(Tail(copy[i].notify), l0)
        /\ \A l : In(copy[i].notify, l) <=> In(Tail(copy[i].notify), l) \/ l = l0
    BY <2>0, <2>4, InFacts
  <2>6. CopyOK(i)'
    BY <1>1, <1>2, <1>5, <2>1, <2>3, <2>5 DEF CopyOK
  <2>7. ASSUME NEW l \in Listeners
        PROVE  listener'[l].operation
                 = listener[l].operation - One(Tells(i, l)) + One(Tells(i, l)')
    <3>1. /\ Tells(i, l) <=> In(copy[i].notify, l)
          /\ Tells(i, l)' <=> In(Tail(copy[i].notify), l)
      BY <2>1, <2>3 DEF Tells
    <3>2. listener \in [Listeners -> ListenerFields] /\ listener[l].operation \in Int
      BY <1>0, FieldFacts DEF Types
    <3>3. CASE l = l0
      <4>1. listener'[l].operation = listener[l].operation - 1
        <5>1. PICK m : listener' = [listener EXCEPT ![l0].operation = listener[l0].operation - 1,
                                                    ![l0].errors = m]
          BY <2>2
        <5>2. listener[l] \in ListenerFields
          BY <3>2
        <5>3. listener'[l] = [listener[l] EXCEPT !.operation = listener[l].operation - 1,
                                                 !.errors = m]
          BY <3>2, <3>3, <5>1
        <5>. QED  BY <5>2, <5>3 DEF ListenerFields
      <4>2. One(Tells(i, l)) = 1 /\ One(Tells(i, l)') = 0
        BY <2>5, <3>1, <3>3 DEF One
      <4>. QED  BY <3>2, <4>1, <4>2
    <3>4. CASE l # l0
      <4>1. listener'[l] = listener[l]
        BY <2>2, <3>2, <3>4
      <4>2. One(Tells(i, l)) = One(Tells(i, l)') /\ One(Tells(i, l)) \in Int
        BY <2>5, <3>1, <3>4 DEF One
      <4>. QED  BY <3>2, <4>1, <4>2
    <3>. QED  BY <3>3, <3>4
  <2>8. op \in inProgress' => copy'[i].step \in {"copy", "finally", "notify"}
    BY <2>3
  <2>9. \A x \in Ops \ {op} :
           endState'[x] = endState[x] /\ (x \in inProgress' <=> x \in inProgress)
    BY <2>1
  <2>10. copy[i].step # "idle" /\ copy'[i].step # "perform"
    BY <2>1, <2>3
  <2>. QED  BY <1>0, <2>1, <2>3, <2>6, <2>7, <2>8, <2>9, <2>10, CopyGoesOn
<1>15. CASE Notified(i)
  <2>1. /\ copy[i].step = "notify" /\ copy[i].notify = << >>
        /\ copy' = IF op \in inProgress THEN [copy EXCEPT ![i].step = "finally"]
                                        ELSE [copy EXCEPT ![i] = NoCopy]
        /\ UNCHANGED <<mode, action, listener, runner, copyQueue, opListeners, endState, inProgress>>
    BY <1>15 DEF Notified, transferVars
  <2>2. /\ \A j \in Pool \ {i} : copy'[j] = copy[j]
        /\ op \notin inProgress => copy'[i].step = "idle"
        /\ op \in inProgress => /\ copy'[i].step = "finally" /\ copy'[i].op = op
                                /\ endState[op] = "failed"
    BY <1>1, <1>3, <1>4, <2>1 DEF CopyOK
  <2>3. CopyOK(i)'
    BY <1>1, <1>2, <1>5, <2>1, <2>2 DEF CopyOK
  <2>4. ASSUME NEW l \in Listeners PROVE Tells(i, l)' <=> Tells(i, l)
    <3>1. ~ In(copy[i].notify, l)
      BY <2>1 DEF In
    <3>. QED  BY <2>1, <2>2, <3>1 DEF Tells
  <2>5. op \in inProgress' => copy'[i].step \in {"copy", "finally", "notify"}
    BY <2>1, <2>2
  <2>6. copy[i].step # "idle" /\ copy'[i].step # "perform"
        /\ (copy'[i].step # "idle" => copy'[i].op = op)
    BY <2>1, <2>2
  <2>. QED  BY <2>1, <2>2, <2>3, <2>4, <2>5, <2>6, StepCopies
<1>. QED  BY <1>6, <1>7, <1>8, <1>9, <1>10, <1>11, <1>12, <1>13, <1>14, <1>15 DEF PoolStep

\* A step that starts no round orders nothing anew.
LEMMA SameRounds ==
    ASSUME Types, \A b \in Actions : action'[b].round = action[b].round
                                     /\ runner'[b].left \subseteq runner[b].left
    PROVE  \A op \in Ops : Unordered(op)' => Unordered(op)
BY OpFacts DEF Unordered

\* The failure of a job only counts it.
LEMMA FailedJobFields ==
    ASSUME Types, NEW a \in Actions, NEW q, FailedJob(a, q)
    PROVE  /\ \A b \in Actions \ {a} : action'[b] = action[b]
           /\ action'[a].executionErrors = action[a].executionErrors + 1
           /\ action'[a].transferErrors = action[a].transferErrors
           /\ action'[a].round = action[a].round /\ action'[a].launches = action[a].launches
           /\ action'[a].state = action[a].state /\ action'[a].worker = action[a].worker
           /\ IF action[a].transferErrors + action[a].executionErrors + 1 < SUBMISSION_CHANCES
              THEN jobQueue' = Append(q, a) /\ tdQueue' = tdQueue
              ELSE jobQueue' = q /\ tdQueue' = Append(tdQueue, <<a, "error">>)
<1> DEFINE counted == [action[a] EXCEPT !.executionErrors = @ + 1]
<1>1. action[a] \in Fields /\ action \in [Actions -> Fields]
      /\ action[a].transferErrors \in Nat /\ action[a].executionErrors \in Nat
  BY FieldFacts DEF Types
<1>2. /\ counted.executionErrors = action[a].executionErrors + 1
      /\ counted.transferErrors = action[a].transferErrors
      /\ counted.round = action[a].round /\ counted.launches = action[a].launches
      /\ counted.state = action[a].state /\ counted.worker = action[a].worker
  BY <1>1 DEF Fields
<1>3. /\ action' = [action EXCEPT ![a] = counted]
      /\ IF counted.transferErrors + counted.executionErrors < SUBMISSION_CHANCES
         THEN jobQueue' = Append(q, a) /\ tdQueue' = tdQueue
         ELSE jobQueue' = q /\ tdQueue' = Append(tdQueue, <<a, "error">>)
  BY DEF FailedJob
<1> HIDE DEF counted
<1>4. action'[a] = counted /\ \A b \in Actions \ {a} : action'[b] = action[b]
  BY <1>1, <1>3
<1>5. counted.transferErrors + counted.executionErrors
        = action[a].transferErrors + action[a].executionErrors + 1
  BY <1>1, <1>2
<1>. QED  BY <1>2, <1>3, <1>4, <1>5

\* A new round of transfers.
LEMMA NewRoundFields ==
    ASSUME Types, LaunchInv, NEW a \in Actions, NEW i, NEW fields, fields \in Fields,
           fields.round = action[a].round,
           action[a].round + 1 <= TRANSFER_CHANCES * SCHEDULING_CHANCES,
           DoInputTransfers(a, i, fields)
    PROVE  /\ action'[a].round = action[a].round + 1
           /\ action'[a].state = fields.state /\ action'[a].worker = fields.worker
           /\ action'[a].launches = fields.launches
           /\ action'[a].transferErrors = fields.transferErrors
           /\ action'[a].executionErrors = fields.executionErrors
           /\ runner'[a].by = i /\ runner'[a].left = Inputs(a)
           /\ \A b \in Actions \ {a} : action'[b] = action[b] /\ runner'[b] = runner[b]
           /\ <<a, action[a].round + 1>> \in Listeners
           /\ tgtLoc'[<<a, action[a].round + 1>>] = fields.worker
           /\ \A l \in Listeners \ {<<a, action[a].round + 1>>} : tgtLoc'[l] = tgtLoc[l]
<1> DEFINE next == [fields EXCEPT !.round = @ + 1]
<1>1. /\ next.round = action[a].round + 1 /\ next.state = fields.state
      /\ next.worker = fields.worker /\ next.launches = fields.launches
      /\ next.transferErrors = fields.transferErrors
      /\ next.executionErrors = fields.executionErrors
  BY DEF Fields
<1>2. /\ action' = [action EXCEPT ![a] = next]
      /\ runner' = [runner EXCEPT ![a] = [by |-> i, left |-> Inputs(a)]]
      /\ tgtLoc' = [tgtLoc EXCEPT ![<<a, action[a].round + 1>>] = fields.worker]
  BY DEF DoInputTransfers
<1>3. /\ DOMAIN action = Actions /\ DOMAIN runner = Actions /\ DOMAIN tgtLoc = Listeners
      /\ action \in [Actions -> Fields] /\ tgtLoc \in [Listeners -> Workers \cup {None}]
      /\ runner \in [Actions -> [by : Threads \cup {None}, left : SUBSET Data]]
  BY DEF Types
<1> HIDE DEF next
<1>4. action'[a] = next /\ runner'[a] = [by |-> i, left |-> Inputs(a)]
      /\ \A b \in Actions \ {a} : action'[b] = action[b] /\ runner'[b] = runner[b]
  BY <1>2, <1>3
<1>5. <<a, action[a].round + 1>> \in Listeners
  <2>1. action[a].round + 1 \in Rounds
    BY RoundFacts, ChancesFacts DEF Rounds
  <2>. QED  BY <2>1 DEF Listeners
<1>6. /\ tgtLoc'[<<a, action[a].round + 1>>] = fields.worker
      /\ \A l \in Listeners \ {<<a, action[a].round + 1>>} : tgtLoc'[l] = tgtLoc[l]
  BY <1>2, <1>3, <1>5
<1>. QED  BY <1>1, <1>4, <1>5, <1>6

\* What a step of an end treated by the TD changes.
LEMMA TreatEndFields ==
    ASSUME Types, TreatEnd
    PROVE  \E a \in Actions, e \in Ends :
              /\ tdQueue # << >> /\ Head(tdQueue) = <<a, e>> /\ tdQueue' = Tail(tdQueue)
              /\ action'[a].state = (IF e = "completed" THEN "completed"
                                     ELSE IF action[a].launches >= SCHEDULING_CHANCES THEN "failed"
                                     ELSE "ready")
              /\ action'[a].executionErrors = action[a].executionErrors
              /\ action'[a].transferErrors = action[a].transferErrors
              /\ action'[a].round = action[a].round /\ action'[a].launches = action[a].launches
              /\ action'[a].worker = action[a].worker
              /\ \A b \in Actions \ {a} : action'[b] = action[b]
<1>1. tdQueue \in Seq(Actions \X Ends) /\ tdQueue # << >>
  BY DEF Types, TreatEnd
<1>2. Head(tdQueue) \in Actions \X Ends
  BY <1>1
<1>3. PICK a \in Actions, e \in Ends : Head(tdQueue) = <<a, e>>
  BY <1>2
<1> DEFINE s == IF e = "completed" THEN "completed"
                ELSE IF action[a].launches >= SCHEDULING_CHANCES THEN "failed" ELSE "ready"
           f == [action[a] EXCEPT !.state = s]
<1>4. tdQueue' = Tail(tdQueue) /\ action' = [action EXCEPT ![a] = f]
  <2>1. Head(tdQueue)[1] = a /\ Head(tdQueue)[2] = e
    BY <1>3
  <2>. QED  BY <2>1 DEF TreatEnd
<1>5. action[a] \in Fields /\ action \in [Actions -> Fields]
  BY FieldFacts DEF Types
<1>6. /\ f.state = s /\ f.executionErrors = action[a].executionErrors
      /\ f.transferErrors = action[a].transferErrors /\ f.round = action[a].round
      /\ f.launches = action[a].launches /\ f.worker = action[a].worker
  BY <1>5 DEF Fields
<1> HIDE DEF f
<1>7. action'[a] = f /\ \A b \in Actions \ {a} : action'[b] = action[b]
  BY <1>4, <1>5
<1>8. /\ tdQueue # << >> /\ Head(tdQueue) = <<a, e>> /\ tdQueue' = Tail(tdQueue)
      /\ action'[a].state = (IF e = "completed" THEN "completed"
                             ELSE IF action[a].launches >= SCHEDULING_CHANCES THEN "failed"
                             ELSE "ready")
      /\ action'[a].executionErrors = action[a].executionErrors
      /\ action'[a].transferErrors = action[a].transferErrors
      /\ action'[a].round = action[a].round /\ action'[a].launches = action[a].launches
      /\ action'[a].worker = action[a].worker
      /\ \A b \in Actions \ {a} : action'[b] = action[b]
  BY <1>1, <1>3, <1>4, <1>6, <1>7
<1>. QED  BY <1>8

-----------------------------------------------------------------------------
(* The launches *)

\* The summands of Carriers.
LEMMA CarriersFacts ==
    ASSUME Types, NEW a \in Actions
    PROVE  /\ Carriers(a) = One(runner[a].by # None) + Cardinality(Doers(a)) + One(Awaits(a))
                            + Times(jobQueue, a) + onWorker[a]
                            + Times(tdQueue, <<a, "completed">>) + Times(tdQueue, <<a, "error">>)
           /\ Cardinality(Doers(a)) \in Nat /\ (Cardinality(Doers(a)) = 0 <=> Doers(a) = {})
           /\ Times(jobQueue, a) \in Nat /\ onWorker[a] \in Nat
           /\ \A e \in Ends : Times(tdQueue, <<a, e>>) \in Nat
           /\ "completed" \in Ends /\ "error" \in Ends
<1>1. IsFiniteSet(Threads)
  BY FiniteAssumption, FS_AddElement DEF Threads
<1>2. IsFiniteSet(Doers(a))
  BY <1>1, FS_Subset DEF Doers
<1>3. Cardinality(Doers(a)) \in Nat /\ (Cardinality(Doers(a)) = 0 <=> Doers(a) = {})
  BY <1>2, FS_EmptySet, FS_CardinalityType
<1>4. jobQueue \in Seq(Actions) /\ tdQueue \in Seq(Actions \X Ends) /\ onWorker[a] \in Nat
  BY FieldFacts DEF Types
<1>5. Times(jobQueue, a) \in Nat
  BY <1>4, TimesFacts
<1>6. \A e \in Ends : Times(tdQueue, <<a, e>>) \in Nat
  BY <1>4, TimesFacts
<1>7. Carriers(a) = One(runner[a].by # None) + Cardinality(Doers(a)) + One(Awaits(a))
                            + Times(jobQueue, a) + onWorker[a]
                            + Times(tdQueue, <<a, "completed">>) + Times(tdQueue, <<a, "error">>)
  BY DEF Carriers, Doers, Awaits
<1>. QED  BY <1>3, <1>4, <1>5, <1>6, <1>7 DEF Ends

\* A step that only concerns a.
Concerns(a) ==
    /\ mode' = mode
    /\ \A b \in Actions \ {a} :
          /\ action'[b] = action[b] /\ runner'[b] = runner[b] /\ onWorker'[b] = onWorker[b]
          /\ \A q \in Rounds : listener'[<<b, q>>] = listener[<<b, q>>]
                               /\ tgtLoc'[<<b, q>>] = tgtLoc[<<b, q>>]
          /\ Times(jobQueue', b) = Times(jobQueue, b)
          /\ \A e \in Ends : Times(tdQueue', <<b, e>>) = Times(tdQueue, <<b, e>>)
    /\ \A i \in Threads :
          \/ doing'[i] = doing[i]
          \/ /\ doing[i] # None => doing[i][1][1] = a
             /\ doing'[i] # None => doing'[i][1][1] = a

\* It keeps what holds of the others.
LEMMA OthersKept ==
    ASSUME Types, Types', LaunchInv, NEW a \in Actions, Concerns(a),
           NEW b \in Actions \ {a}
    PROVE  /\ LaunchOK(b)'
           /\ \A i \in Threads : doing'[i] # None /\ doing'[i][1][1] = b => DoingOK(i)'
<1>1. LaunchOK(b)
  BY DEF LaunchInv
<1>2. /\ action'[b] = action[b] /\ runner'[b] = runner[b] /\ onWorker'[b] = onWorker[b]
      /\ \A q \in Rounds : listener'[<<b, q>>] = listener[<<b, q>>]
                           /\ tgtLoc'[<<b, q>>] = tgtLoc[<<b, q>>]
      /\ Times(jobQueue', b) = Times(jobQueue, b)
      /\ \A e \in Ends : Times(tdQueue', <<b, e>>) = Times(tdQueue, <<b, e>>)
  BY DEF Concerns
<1>3. Doers(b)' = Doers(b)
  BY DEF Concerns, Doers
<1>4. Current(b)' = Current(b)
  BY <1>2 DEF Current
<1>5. /\ action[b].round # 0 => listener'[Current(b)] = listener[Current(b)]
      /\ Actions' = Actions
  <2>1. action[b].round # 0 => action[b].round \in Rounds
    BY RoundFacts
  <2>. QED  BY <1>2, <2>1, SameSets DEF Current, Concerns
<1>6. Awaits(b)' <=> Awaits(b)
  BY <1>2, <1>4, <1>5 DEF Awaits
<1>7. RoundsOK(b)'
  <2>1. RoundsOK(b)
    BY <1>1 DEF LaunchOK
  <2>2. action[b].round # 0 => action[b].round \in Rounds
    BY RoundFacts
  <2>. QED  BY <1>2, <2>1, <2>2 DEF RoundsOK
<1>8. BoundsOK(b)'
  <2>1. BoundsOK(b)
    BY <1>1 DEF LaunchOK
  <2>2. Transferring(b)' <=> Transferring(b)
    BY <1>2, <1>3, <1>6 DEF Transferring
  <2>. QED  BY <1>2, <2>1, <2>2 DEF BoundsOK
<1>9. Carried(b)'
  <2>1. Carried(b)
    BY <1>1 DEF LaunchOK
  <2>2. Carriers(b) = One(runner[b].by # None) + Cardinality(Doers(b)) + One(Awaits(b))
                            + Times(jobQueue, b) + onWorker[b]
                            + Times(tdQueue, <<b, "completed">>) + Times(tdQueue, <<b, "error">>)
    BY CarriersFacts
  <2>3. Carriers(b)' = One(runner[b].by # None)' + Cardinality(Doers(b)') + One(Awaits(b))'
                            + Times(jobQueue', b) + onWorker'[b]
                            + Times(tdQueue', <<b, "completed">>) + Times(tdQueue', <<b, "error">>)
    BY Zenon DEF Carriers, Doers, Awaits, Times
  <2>4. One(runner[b].by # None)' = One(runner[b].by # None) /\ One(Awaits(b))' = One(Awaits(b))
    BY <1>2, <1>6 DEF One
  <2>5. "completed" \in Ends /\ "error" \in Ends
    BY DEF Ends
  <2>6. Carriers(b)' = Carriers(b)
    BY <1>2, <1>3, <2>2, <2>3, <2>4, <2>5
  <2>7. One(action[b].state = "running")' = One(action[b].state = "running")
    BY <1>2 DEF One
  <2>. QED  BY <2>1, <2>6, <2>7 DEF Carried
<1>10. Submitted(b)'
  <2>1. Submitted(b) /\ Carried(b) /\ RoundsOK(b) /\ BoundsOK(b)
    BY <1>1 DEF LaunchOK
  <2>2. Times(jobQueue, b) + onWorker[b] > 0 => action[b].round # 0
    BY <2>1 DEF Submitted
  <2>. QED  BY <1>2, <1>4, <1>5, <2>1, <2>2 DEF Submitted
<1>11. ASSUME NEW i \in Threads, doing'[i] # None, doing'[i][1][1] = b PROVE DoingOK(i)'
  <2>1. doing'[i] = doing[i]
    BY <1>11 DEF Concerns
  <2>2. DoingOK(i) /\ doing[i][1] \in Listeners
    BY <1>11, <2>1, ReactionFacts DEF LaunchInv
  <2>3. action[b].round # 0
    <3>1. doing[i][1] = Current(b) /\ doing[i][1][2] \in Rounds
      BY <1>11, <2>1, <2>2, ReactionFacts DEF DoingOK
    <3>2. 0 \notin Rounds
      BY ChancesFacts DEF Rounds
    <3>. QED  BY <3>1, <3>2 DEF Current
  <2>. QED  BY <1>4, <1>5, <1>11, <2>1, <2>2, <2>3 DEF DoingOK
<1>. QED  BY <1>7, <1>8, <1>9, <1>10, <1>11 DEF LaunchOK

\* What is left to show of a step that concerns a.
LEMMA LaunchStep ==
    ASSUME Types, Types', LaunchInv, NEW a \in Actions, Concerns(a), LaunchOK(a)',
           \A i \in Threads : doing'[i] # None /\ doing'[i][1][1] = a => DoingOK(i)',
           \A b \in Actions : Occupied(b)'
    PROVE  LaunchInv'
<1>1. Actions' = Actions
  BY SameSets DEF Concerns
<1>2. \A b \in Actions : LaunchOK(b)'
  BY OthersKept
<1>3. ASSUME NEW i \in Threads PROVE DoingOK(i)'
  <2>1. CASE doing'[i] = None
    BY <2>1 DEF DoingOK
  <2>2. CASE doing'[i] # None
    <3>1. doing'[i] \in (Listeners \X Reactions)'
      BY <2>2 DEF Types
    <3>2. doing'[i][1][1] \in Actions
      BY <1>1, <3>1 DEF Listeners
    <3>. QED  BY <2>2, <3>2, OthersKept
  <2>. QED  BY <2>1, <2>2
<1>. QED  BY <1>1, <1>2, <1>3 DEF LaunchInv

Jobs(a) == Times(jobQueue, a) + onWorker[a]
EndsOf(a) == Times(tdQueue, <<a, "completed">>) + Times(tdQueue, <<a, "error">>)

\* Carriers, in these terms, before and after a step.
LEMMA CarriersSum ==
    ASSUME Types, NEW a \in Actions
    PROVE  /\ Carriers(a) = One(runner[a].by # None) + Cardinality(Doers(a)) + One(Awaits(a))
                            + Jobs(a) + EndsOf(a)
           /\ Cardinality(Doers(a)) \in Nat /\ Jobs(a) \in Nat /\ EndsOf(a) \in Nat
           /\ Cardinality(Doers(a)) = 0 <=> Doers(a) = {}
           /\ One(runner[a].by # None) \in Nat /\ One(Awaits(a)) \in Nat
<1>1. /\ Carriers(a) = One(runner[a].by # None) + Cardinality(Doers(a)) + One(Awaits(a))
                            + Times(jobQueue, a) + onWorker[a]
                            + Times(tdQueue, <<a, "completed">>) + Times(tdQueue, <<a, "error">>)
      /\ Cardinality(Doers(a)) \in Nat /\ (Cardinality(Doers(a)) = 0 <=> Doers(a) = {})
      /\ Times(jobQueue, a) \in Nat /\ onWorker[a] \in Nat
      /\ Times(tdQueue, <<a, "completed">>) \in Nat /\ Times(tdQueue, <<a, "error">>) \in Nat
  BY CarriersFacts
<1>2. One(runner[a].by # None) \in Nat /\ One(Awaits(a)) \in Nat
  BY DEF One
<1>. QED  BY <1>1, <1>2 DEF Jobs, EndsOf

\* The same after a step.
LEMMA CarriersSumNext ==
    ASSUME Types', mode' = mode, NEW a \in Actions
    PROVE  /\ Carriers(a)' = One(runner[a].by # None)' + Cardinality(Doers(a)') + One(Awaits(a))'
                             + Jobs(a)' + EndsOf(a)'
           /\ Cardinality(Doers(a)') \in Nat /\ Jobs(a)' \in Nat /\ EndsOf(a)' \in Nat
           /\ Cardinality(Doers(a)') = 0 <=> Doers(a)' = {}
<1>1. Actions' = Actions
  BY SameSets
<1>2. IsFiniteSet(Threads)
  BY FiniteAssumption, FS_AddElement DEF Threads
<1>3. IsFiniteSet(Doers(a)')
  BY <1>2, FS_Subset DEF Doers
<1>4. Cardinality(Doers(a)') \in Nat /\ (Cardinality(Doers(a)') = 0 <=> Doers(a)' = {})
  BY <1>3, FS_EmptySet, FS_CardinalityType
<1>5. jobQueue' \in Seq(Actions) /\ tdQueue' \in Seq(Actions \X Ends) /\ onWorker'[a] \in Nat
  BY <1>1 DEF Types
<1>6. Times(jobQueue', a) \in Nat
  BY <1>5, TimesFacts
<1>7. \A e \in Ends : Times(tdQueue', <<a, e>>) \in Nat
  BY <1>5, TimesFacts
<1>8. Carriers(a)' = One(runner[a].by # None)' + Cardinality(Doers(a)') + One(Awaits(a))'
                            + Times(jobQueue', a) + onWorker'[a]
                            + Times(tdQueue', <<a, "completed">>) + Times(tdQueue', <<a, "error">>)
  BY Zenon DEF Carriers, Doers, Awaits, Times
<1>9. One(runner[a].by # None)' \in Nat /\ One(Awaits(a))' \in Nat
  BY DEF One
<1>10. Jobs(a)' = Times(jobQueue', a) + onWorker'[a]
  BY DEF Jobs, Times
<1>11. EndsOf(a)' = Times(tdQueue', <<a, "completed">>) + Times(tdQueue', <<a, "error">>)
  BY DEF EndsOf, Times
<1>12. "completed" \in Ends /\ "error" \in Ends
  BY DEF Ends
<1>13. PICK r \in Nat : r = One(runner[a].by # None)'
  BY <1>9
<1>14. PICK w \in Nat : w = One(Awaits(a))'
  BY <1>9
<1>15. PICK c \in Nat : c = Times(tdQueue', <<a, "completed">>)
  BY <1>7, <1>12
<1>16. PICK e \in Nat : e = Times(tdQueue', <<a, "error">>)
  BY <1>7, <1>12
<1>17. Carriers(a)' = r + Cardinality(Doers(a)') + w + Times(jobQueue', a) + onWorker'[a] + c + e
  BY <1>8, <1>13, <1>14, <1>15, <1>16, Zenon
<1>18. Jobs(a)' \in Nat /\ EndsOf(a)' \in Nat /\ EndsOf(a)' = c + e
  BY <1>5, <1>6, <1>10, <1>11, <1>15, <1>16
<1>19. Carriers(a)' = r + Cardinality(Doers(a)') + w + Jobs(a)' + EndsOf(a)'
  BY <1>4, <1>5, <1>6, <1>10, <1>17, <1>18
<1>. QED  BY <1>4, <1>13, <1>14, <1>18, <1>19, Zenon

\* Only one thing carries an execution, and only a running one.
LEMMA OneCarries ==
    ASSUME Types, LaunchInv, NEW a \in Actions
    PROVE  /\ action[a].state # "running" =>
                 /\ runner[a].by = None /\ Doers(a) = {} /\ ~ Awaits(a)
                 /\ Jobs(a) = 0 /\ EndsOf(a) = 0
           /\ runner[a].by # None =>
                 /\ Doers(a) = {} /\ ~ Awaits(a) /\ Jobs(a) = 0 /\ EndsOf(a) = 0
           /\ Doers(a) # {} =>
                 /\ runner[a].by = None /\ Cardinality(Doers(a)) = 1 /\ ~ Awaits(a)
                 /\ Jobs(a) = 0 /\ EndsOf(a) = 0
           /\ Awaits(a) =>
                 /\ runner[a].by = None /\ Doers(a) = {} /\ Jobs(a) = 0 /\ EndsOf(a) = 0
           /\ Jobs(a) + EndsOf(a) > 0 =>
                 /\ runner[a].by = None /\ Doers(a) = {} /\ ~ Awaits(a)
                 /\ Jobs(a) + EndsOf(a) = 1
<1>1. One(runner[a].by # None) + Cardinality(Doers(a)) + One(Awaits(a)) + Jobs(a) + EndsOf(a)
        = One(action[a].state = "running")
  BY CarriersSum DEF LaunchInv, LaunchOK, Carried
<1>2. /\ Cardinality(Doers(a)) \in Nat /\ Jobs(a) \in Nat /\ EndsOf(a) \in Nat
      /\ Cardinality(Doers(a)) = 0 <=> Doers(a) = {}
  BY CarriersSum
<1>3. PICK r \in {0, 1} : r = One(runner[a].by # None) /\ (r = 0 <=> runner[a].by = None)
  BY DEF One
<1>4. PICK w \in {0, 1} : w = One(Awaits(a)) /\ (w = 0 <=> ~ Awaits(a))
  BY DEF One
<1>5. PICK s \in {0, 1} : s = One(action[a].state = "running")
                           /\ (s = 1 <=> action[a].state = "running")
  BY DEF One
<1>6. r + Cardinality(Doers(a)) + w + Jobs(a) + EndsOf(a) = s
  BY <1>1, <1>3, <1>4, <1>5, Zenon
<1>7. /\ r = 0 <=> runner[a].by = None
      /\ w = 0 <=> ~ Awaits(a)
      /\ s = 1 <=> action[a].state = "running"
  BY <1>3, <1>4, <1>5, Zenon
<1>8. PICK n \in Nat : n = Cardinality(Doers(a)) /\ (n = 0 <=> Doers(a) = {})
  BY <1>2
<1>9. PICK j \in Nat : j = Jobs(a)
  BY <1>2
<1>10. PICK e \in Nat : e = EndsOf(a)
  BY <1>2
<1>11. r + n + w + j + e = s
  BY <1>6, <1>8, <1>9, <1>10
<1>12. /\ s # 1 => r = 0 /\ n = 0 /\ w = 0 /\ j = 0 /\ e = 0
       /\ r # 0 => n = 0 /\ w = 0 /\ j = 0 /\ e = 0
       /\ n # 0 => r = 0 /\ n = 1 /\ w = 0 /\ j = 0 /\ e = 0
       /\ w # 0 => r = 0 /\ n = 0 /\ j = 0 /\ e = 0
       /\ j + e > 0 => r = 0 /\ n = 0 /\ w = 0 /\ j + e = 1
  BY <1>11
<1>. QED  BY <1>7, <1>8, <1>9, <1>10, <1>12

\* A listener that counts an operation is the one of the last round; none counts less.
LEMMA CountingListener ==
    ASSUME Types, CopyInv, LaunchInv, NEW l \in Listeners
    PROVE  /\ listener[l].operation \in Nat
           /\ listener[l].operation > 0 => action[l[1]].round # 0 /\ l = Current(l[1])
           /\ \A i \in Pool : Tells(i, l) => listener[l].operation > 0
<1>1. Counted(l)
  BY DEF CopyInv
<1>2. Cardinality(Positions(copyQueue, OpsOf(l))) \in Nat
  BY PositionsFinite DEF Types
<1>3. IsFiniteSet(Tellers(l)) /\ Cardinality(Tellers(l)) \in Nat
  BY FiniteAssumption, FS_Subset, FS_CardinalityType DEF Tellers
<1>4. Cardinality(Tellers(l)) = 0 <=> Tellers(l) = {}
  BY <1>3, FS_EmptySet
<1>5. listener[l].operation \in Nat
  BY <1>1, <1>2, <1>3 DEF Counted
<1>6. \A i \in Pool : Tells(i, l) => listener[l].operation > 0
  BY <1>1, <1>2, <1>3, <1>4 DEF Counted, Tellers
<1>7. PICK a \in Actions, q \in Rounds : l = <<a, q>>
  BY DEF Listeners
<1>8. RoundsOK(a) /\ action[a].round \in Nat /\ q \in Nat /\ q # 0
  BY ChancesFacts, FieldFacts DEF LaunchInv, LaunchOK, Rounds
<1>9. ASSUME listener[l].operation > 0 PROVE action[a].round # 0 /\ l = Current(a)
  <2>1. ~ (q > action[a].round) /\ ~ (q < action[a].round)
    BY <1>7, <1>8, <1>9 DEF RoundsOK
  <2>. QED  BY <1>7, <1>8, <2>1 DEF Current
<1>. QED  BY <1>5, <1>6, <1>7, <1>9

\* Jobs and ends: the transfers are over and stay so.
LEMMA JobStep ==
    ASSUME Types, Types', LaunchInv, NEW a \in Actions,
           UNCHANGED <<mode, transferVars>>,
           action'[a].round = action[a].round, action'[a].launches = action[a].launches,
           action'[a].transferErrors = action[a].transferErrors,
           action'[a].worker = action[a].worker,
           \A b \in Actions \ {a} :
               /\ action'[b] = action[b] /\ onWorker'[b] = onWorker[b]
               /\ Times(jobQueue', b) = Times(jobQueue, b)
               /\ \A e \in Ends : Times(tdQueue', <<b, e>>) = Times(tdQueue, <<b, e>>),
           Jobs(a) + EndsOf(a) > 0,
           action'[a].state = "running" => Jobs(a)' + EndsOf(a)' = 1,
           action'[a].state # "running" => Jobs(a)' + EndsOf(a)' = 0,
           Jobs(a)' > 0 => Jobs(a) > 0 /\ action'[a].executionErrors < SUBMISSION_CHANCES,
           action'[a].executionErrors <= SUBMISSION_CHANCES,
           action'[a].state = "ready" => action[a].launches < SCHEDULING_CHANCES
    PROVE  LaunchInv'
<1>1. /\ runner[a].by = None /\ Doers(a) = {} /\ ~ Awaits(a)
      /\ LaunchOK(a)
  BY OneCarries DEF LaunchInv
<1>2. Doers(a)' = {} /\ ~ Awaits(a)' /\ Current(a)' = Current(a)
  BY <1>1 DEF Doers, Awaits, Current, transferVars
<1>3. Concerns(a)
  BY DEF Concerns, transferVars
<1>4. RoundsOK(a)'
  BY <1>1 DEF LaunchOK, RoundsOK, transferVars
<1>5. BoundsOK(a)'
  <2>1. ~ Transferring(a)'
    BY <1>1, <1>2 DEF Transferring, transferVars
  <2>2. BoundsOK(a)
    BY <1>1 DEF LaunchOK
  <2>3. Jobs(a)' = Times(jobQueue', a) + onWorker'[a]
    BY DEF Jobs, Times
  <2>4. (Times(jobQueue, a) + onWorker[a] > 0)' <=> Jobs(a)' > 0
    BY <2>3 DEF Times
  <2>. QED  BY <2>1, <2>2, <2>4 DEF BoundsOK
<1>6. Carried(a)'
  <2>1. Cardinality({}) = 0
    BY FS_EmptySet
  <2>2. One(runner[a].by # None)' = 0 /\ One(Awaits(a))' = 0
    BY <1>1, <1>2 DEF One, transferVars
  <2>3. Jobs(a)' \in Nat /\ EndsOf(a)' \in Nat
    BY CarriersSumNext
  <2>4. Carriers(a)' = Jobs(a)' + EndsOf(a)'
    BY <1>2, <2>1, <2>2, <2>3, CarriersSumNext
  <2>5. One(action[a].state = "running")' = Jobs(a)' + EndsOf(a)'
    BY DEF One
  <2>. QED  BY <2>4, <2>5 DEF Carried
<1>7. Submitted(a)'
  <2>1. Submitted(a)
    BY <1>1 DEF LaunchOK
  <2>2. (Times(jobQueue, a) + onWorker[a] > 0)' => Times(jobQueue, a) + onWorker[a] > 0
    BY DEF Jobs, Times
  <2>. QED  BY <1>2, <2>1, <2>2 DEF Submitted, transferVars
<1>8. \A i \in Threads : ~ (doing'[i] # None /\ doing'[i][1][1] = a)
  BY <1>2 DEF Doers
<1>9. \A b \in Actions : Occupied(b)'
  BY SameSets DEF LaunchInv, Occupied, transferVars
<1>. QED  BY <1>3, <1>4, <1>5, <1>6, <1>7, <1>8, <1>9, LaunchStep DEF LaunchOK

\* An end more, and one less, for the TD.
LEMMA EndsCounts ==
    ASSUME Types, NEW a \in Actions, NEW e \in Ends
    PROVE  /\ tdQueue' = Append(tdQueue, <<a, e>>) =>
                 /\ EndsOf(a)' = EndsOf(a) + 1
                 /\ \A b \in Actions \ {a} : \A x \in Ends :
                       Times(tdQueue', <<b, x>>) = Times(tdQueue, <<b, x>>)
           /\ tdQueue # << >> /\ Head(tdQueue) = <<a, e>> /\ tdQueue' = Tail(tdQueue) =>
                 /\ EndsOf(a) > 0 /\ EndsOf(a)' = EndsOf(a) - 1
                 /\ \A b \in Actions \ {a} : \A x \in Ends :
                       Times(tdQueue', <<b, x>>) = Times(tdQueue, <<b, x>>)
           /\ tdQueue' = tdQueue => EndsOf(a)' = EndsOf(a)
<1>1. tdQueue \in Seq(Actions \X Ends) /\ <<a, e>> \in Actions \X Ends
  BY DEF Types
<1>2. \A x : Times(tdQueue, x) \in Nat
  BY <1>1, TimesFacts
<1>3. EndsOf(a)' = Times(tdQueue', <<a, "completed">>) + Times(tdQueue', <<a, "error">>)
  BY DEF EndsOf, Times
<1>4. e = "completed" \/ e = "error"
  BY DEF Ends
<1>5. ASSUME tdQueue' = Append(tdQueue, <<a, e>>)
      PROVE  /\ EndsOf(a)' = EndsOf(a) + 1
             /\ \A b \in Actions \ {a} : \A x \in Ends :
                   Times(tdQueue', <<b, x>>) = Times(tdQueue, <<b, x>>)
  <2>1. \A x : Times(tdQueue', x) = Times(tdQueue, x) + One(<<a, e>> = x)
    BY <1>1, <1>5, TimesFacts
  <2>2. \A x : <<a, e>> = x => Times(tdQueue', x) = Times(tdQueue, x) + 1
    BY <2>1 DEF One
  <2>3. \A x : <<a, e>> # x => Times(tdQueue', x) = Times(tdQueue, x)
    BY <1>2, <2>1 DEF One
  <2>4. EndsOf(a)' = EndsOf(a) + 1
    <3>1. CASE e = "completed"
      BY <1>2, <1>3, <2>2, <2>3, <3>1 DEF EndsOf
    <3>2. CASE e = "error"
      BY <1>2, <1>3, <2>2, <2>3, <3>2 DEF EndsOf
    <3>. QED  BY <1>4, <3>1, <3>2
  <2>. QED  BY <2>3, <2>4
<1>6. ASSUME tdQueue # << >>, Head(tdQueue) = <<a, e>>, tdQueue' = Tail(tdQueue)
      PROVE  /\ EndsOf(a) > 0 /\ EndsOf(a)' = EndsOf(a) - 1
             /\ \A b \in Actions \ {a} : \A x \in Ends :
                   Times(tdQueue', <<b, x>>) = Times(tdQueue, <<b, x>>)
  <2>1. \A x : Times(tdQueue', x) = Times(tdQueue, x) - One(<<a, e>> = x)
    BY <1>1, <1>6, TimesFacts
  <2>2. \A x : <<a, e>> = x => Times(tdQueue', x) = Times(tdQueue, x) - 1
    BY <2>1 DEF One
  <2>3. \A x : <<a, e>> # x => Times(tdQueue', x) = Times(tdQueue, x)
    BY <1>2, <2>1 DEF One
  <2>4. In(tdQueue, <<a, e>>)
    BY <1>1, <1>6, InFacts
  <2>5. Times(tdQueue, <<a, e>>) > 0
    BY <1>1, <2>4, TimesFacts
  <2>6. EndsOf(a) > 0 /\ EndsOf(a)' = EndsOf(a) - 1
    <3>1. CASE e = "completed"
      BY <1>2, <1>3, <2>2, <2>3, <2>5, <3>1 DEF EndsOf
    <3>2. CASE e = "error"
      BY <1>2, <1>3, <2>2, <2>3, <2>5, <3>2 DEF EndsOf
    <3>. QED  BY <1>4, <3>1, <3>2
  <2>. QED  BY <2>3, <2>6
<1>7. tdQueue' = tdQueue => EndsOf(a)' = EndsOf(a)
  BY <1>3 DEF EndsOf
<1>. QED  BY <1>5, <1>6, <1>7

\* A job more at the end of a queue, or the first one taken.
LEMMA JobsCounts ==
    ASSUME NEW S, NEW q \in Seq(S), NEW a \in S
    PROVE  /\ Times(q, a) \in Nat
           /\ Times(Append(q, a), a) = Times(q, a) + 1
           /\ \A b \in S \ {a} : Times(Append(q, a), b) = Times(q, b)
           /\ q # << >> /\ Head(q) = a =>
                 /\ Times(q, a) > 0 /\ Times(Tail(q), a) = Times(q, a) - 1
                 /\ \A b \in S \ {a} : Times(Tail(q), b) = Times(q, b)
<1>1. \A x : Times(q, x) \in Nat
  BY TimesFacts
<1>2. \A x : Times(Append(q, a), x) = Times(q, x) + One(a = x)
  BY TimesFacts
<1>3. ASSUME q # << >>, Head(q) = a
      PROVE  /\ Times(q, a) > 0 /\ Times(Tail(q), a) = Times(q, a) - 1
             /\ \A b \in S \ {a} : Times(Tail(q), b) = Times(q, b)
  <2>1. \A x : Times(Tail(q), x) = Times(q, x) - One(a = x)
    BY <1>3, TimesFacts
  <2>2. In(q, a)
    BY <1>3, InFacts
  <2>3. Times(q, a) > 0
    BY <2>2, TimesFacts
  <2>. QED  BY <1>1, <2>1, <2>3 DEF One
<1>. QED  BY <1>1, <1>2, <1>3 DEF One

\* A job that is submitted, ends or fails, and an end that the TD treats.
LEMMA JobsLaunch ==
    ASSUME JobInv, Types',
           (\E a \in Actions : CompletedJob(a) \/ JobFails(a))
               \/ SubmitJob \/ SubmissionFails \/ TreatEnd
    PROVE  LaunchInv'
<1>0. Types /\ LaunchInv
  BY DEF JobInv
<1>1. jobQueue \in Seq(Actions) /\ onWorker \in [Actions -> Nat]
  BY <1>0 DEF Types
<1>2. \A b \in Actions : Jobs(b)' = Times(jobQueue', b) + onWorker'[b]
  BY DEF Jobs, Times
<1>3. ASSUME NEW a \in Actions, Jobs(a) + EndsOf(a) > 0
      PROVE  /\ Jobs(a) \in Nat /\ EndsOf(a) \in Nat /\ Jobs(a) + EndsOf(a) = 1
             /\ action[a].state = "running"
             /\ Jobs(a) > 0 => action[a].executionErrors < SUBMISSION_CHANCES
             /\ action[a].executionErrors <= SUBMISSION_CHANCES
             /\ Times(jobQueue, a) \in Nat /\ onWorker[a] \in Nat
             /\ action[a].executionErrors \in Nat /\ action[a].transferErrors \in Nat
             /\ SUBMISSION_CHANCES \in Nat
  <2>1. Jobs(a) \in Nat /\ EndsOf(a) \in Nat /\ Jobs(a) + EndsOf(a) = 1
        /\ action[a].state = "running"
    BY <1>0, <1>3, CarriersSum, OneCarries
  <2>2. BoundsOK(a)
    BY <1>0 DEF LaunchInv, LaunchOK
  <2>3. Times(jobQueue, a) \in Nat /\ onWorker[a] \in Nat
    BY <1>0, CarriersFacts
  <2>4. action[a].executionErrors \in Nat /\ action[a].transferErrors \in Nat
    BY <1>0, FieldFacts
  <2>. QED  BY <2>1, <2>2, <2>3, <2>4, ChancesFacts DEF BoundsOK, Jobs
<1>4. ASSUME NEW a \in Actions, CompletedJob(a) PROVE LaunchInv'
  <2>1. /\ onWorker[a] > 0 /\ onWorker' = [onWorker EXCEPT ![a] = @ - 1]
        /\ tdQueue' = Append(tdQueue, <<a, "completed">>)
        /\ UNCHANGED <<mode, action, transferVars, jobQueue>>
    BY <1>4 DEF CompletedJob
  <2>2. onWorker'[a] = onWorker[a] - 1 /\ \A b \in Actions \ {a} : onWorker'[b] = onWorker[b]
    BY <1>1, <2>1
  <2>3. Jobs(a) > 0 /\ Jobs(a) \in Nat /\ EndsOf(a) \in Nat
    <3>1. Times(jobQueue, a) \in Nat /\ onWorker[a] \in Nat
      BY <1>0, CarriersFacts
    <3>2. EndsOf(a) \in Nat
      BY <1>0, CarriersSum
    <3>. QED  BY <2>1, <3>1, <3>2 DEF Jobs
  <2>4. Jobs(a) = 1 /\ EndsOf(a) = 0 /\ action[a].state = "running"
        /\ action[a].executionErrors <= SUBMISSION_CHANCES
        /\ Times(jobQueue, a) \in Nat /\ onWorker[a] \in Nat
    <3>1. Jobs(a) + EndsOf(a) > 0
      BY <2>3
    <3>. QED  BY <1>3, <2>3, <3>1
  <2>5. Jobs(a)' = 0
    BY <1>2, <2>1, <2>2, <2>4 DEF Jobs
  <2>6. EndsOf(a)' = 1 /\ \A b \in Actions \ {a} : \A e \in Ends :
                              Times(tdQueue', <<b, e>>) = Times(tdQueue, <<b, e>>)
    <3>1. "completed" \in Ends
      BY DEF Ends
    <3>. QED  BY <1>0, <2>1, <2>4, <3>1, EndsCounts
  <2>7. Jobs(a)' + EndsOf(a)' = 1 /\ action'[a].state = "running"
    BY <2>1, <2>4, <2>5, <2>6
  <2>8. Jobs(a) + EndsOf(a) > 0 /\ ~ (Jobs(a)' > 0) /\ action'[a].state # "ready"
    BY <2>1, <2>4, <2>5
  <2>. QED  BY <1>0, <2>1, <2>2, <2>4, <2>6, <2>7, <2>8, JobStep
<1>5. ASSUME NEW a \in Actions, NEW q \in Seq(Actions), FailedJob(a, q),
             UNCHANGED <<mode, transferVars>>, Jobs(a) > 0,
             Times(q, a) + onWorker'[a] = Jobs(a) - 1, onWorker'[a] \in Nat,
             \A b \in Actions \ {a} : onWorker'[b] = onWorker[b] /\ Times(q, b) = Times(jobQueue, b)
      PROVE  LaunchInv'
  <2>1. /\ \A b \in Actions \ {a} : action'[b] = action[b]
        /\ action'[a].executionErrors = action[a].executionErrors + 1
        /\ action'[a].transferErrors = action[a].transferErrors
        /\ action'[a].round = action[a].round /\ action'[a].launches = action[a].launches
        /\ action'[a].state = action[a].state /\ action'[a].worker = action[a].worker
        /\ IF action[a].transferErrors + action[a].executionErrors + 1 < SUBMISSION_CHANCES
           THEN jobQueue' = Append(q, a) /\ tdQueue' = tdQueue
           ELSE jobQueue' = q /\ tdQueue' = Append(tdQueue, <<a, "error">>)
    BY <1>0, <1>5, FailedJobFields
  <2>2. EndsOf(a) \in Nat /\ Jobs(a) \in Nat /\ Jobs(a) + EndsOf(a) > 0
    <3>1. EndsOf(a) \in Nat /\ Jobs(a) \in Nat
      BY <1>0, CarriersSum
    <3>. QED  BY <1>5, <3>1
  <2>3. /\ Jobs(a) = 1 /\ EndsOf(a) = 0 /\ action[a].state = "running"
        /\ action[a].executionErrors < SUBMISSION_CHANCES
        /\ action[a].executionErrors \in Nat /\ action[a].transferErrors \in Nat
        /\ SUBMISSION_CHANCES \in Nat
    BY <1>3, <1>5, <2>2
  <2>4. Times(q, a) \in Nat /\ Times(q, a) + onWorker'[a] = 0
    BY <1>5, <2>3, JobsCounts
  <2>5. /\ Jobs(a)' + EndsOf(a)' = 1
        /\ Jobs(a)' > 0 => action'[a].executionErrors < SUBMISSION_CHANCES
        /\ \A b \in Actions \ {a} : /\ Times(jobQueue', b) = Times(jobQueue, b)
                                    /\ \A e \in Ends : Times(tdQueue', <<b, e>>) = Times(tdQueue, <<b, e>>)
    <3>1. CASE action[a].transferErrors + action[a].executionErrors + 1 < SUBMISSION_CHANCES
      <4>1. jobQueue' = Append(q, a) /\ tdQueue' = tdQueue
        BY <2>1, <3>1
      <4>2. Times(jobQueue', a) = Times(q, a) + 1
            /\ \A b \in Actions \ {a} : Times(jobQueue', b) = Times(q, b)
        BY <4>1, JobsCounts
      <4>3. Jobs(a)' = 1 /\ EndsOf(a)' = 0
        <5>1. "completed" \in Ends
          BY DEF Ends
        <5>2. EndsOf(a)' = 0
          BY <1>0, <2>3, <4>1, <5>1, EndsCounts
        <5>. QED  BY <1>2, <1>5, <2>4, <4>2, <5>2
      <4>. QED  BY <1>5, <2>1, <2>3, <3>1, <4>1, <4>2, <4>3
    <3>2. CASE ~ (action[a].transferErrors + action[a].executionErrors + 1 < SUBMISSION_CHANCES)
      <4>1. jobQueue' = q /\ tdQueue' = Append(tdQueue, <<a, "error">>)
        BY <2>1, <3>2
      <4>2. "error" \in Ends
        BY DEF Ends
      <4>3. EndsOf(a)' = 1 /\ \A b \in Actions \ {a} : \A e \in Ends :
                                 Times(tdQueue', <<b, e>>) = Times(tdQueue, <<b, e>>)
        <5>1. EndsOf(a)' = EndsOf(a) + 1 /\ \A b \in Actions \ {a} : \A e \in Ends :
                                 Times(tdQueue', <<b, e>>) = Times(tdQueue, <<b, e>>)
          BY <1>0, <4>1, <4>2, EndsCounts
        <5>. QED  BY <2>3, <5>1
      <4>4. Jobs(a)' = 0
        BY <1>2, <2>4, <4>1
      <4>5. \A b \in Actions \ {a} : Times(jobQueue', b) = Times(jobQueue, b)
        BY <1>5, <4>1
      <4>6. Jobs(a)' + EndsOf(a)' = 1 /\ ~ (Jobs(a)' > 0)
        BY <4>3, <4>4
      <4>. QED  BY <4>3, <4>5, <4>6
    <3>. QED  BY <3>1, <3>2
  <2>6. Jobs(a)' + EndsOf(a)' = 1 /\ action'[a].state = "running"
    BY <2>1, <2>3, <2>5
  <2>7. /\ Jobs(a) + EndsOf(a) > 0 /\ action'[a].executionErrors <= SUBMISSION_CHANCES
        /\ action'[a].state # "ready"
    BY <2>1, <2>3
  <2>. QED  BY <1>0, <1>5, <2>1, <2>5, <2>6, <2>7, JobStep
<1>6. ASSUME NEW a \in Actions, JobFails(a) PROVE LaunchInv'
  <2>1. /\ onWorker[a] > 0 /\ onWorker' = [onWorker EXCEPT ![a] = @ - 1]
        /\ FailedJob(a, jobQueue)
        /\ UNCHANGED <<mode, transferVars>>
    BY <1>6 DEF JobFails
  <2>2. onWorker'[a] = onWorker[a] - 1 /\ \A b \in Actions \ {a} : onWorker'[b] = onWorker[b]
    BY <1>1, <2>1
  <2>3. Times(jobQueue, a) \in Nat /\ onWorker[a] \in Nat
    BY <1>0, CarriersFacts
  <2>4. Jobs(a) > 0 /\ Times(jobQueue, a) + onWorker'[a] = Jobs(a) - 1 /\ onWorker'[a] \in Nat
    BY <2>1, <2>2, <2>3 DEF Jobs
  <2>. QED  BY <1>1, <1>5, <2>1, <2>2, <2>4
<1>7. CASE SubmissionFails
  <2>1. /\ jobQueue # << >> /\ FailedJob(Head(jobQueue), Tail(jobQueue))
        /\ UNCHANGED <<mode, transferVars, onWorker>>
    BY <1>7 DEF SubmissionFails
  <2>2. PICK a \in Actions : a = Head(jobQueue)
    BY <1>1, <2>1
  <2>3. Tail(jobQueue) \in Seq(Actions)
    BY <1>1, <2>1
  <2>4. /\ Times(jobQueue, a) > 0 /\ Times(Tail(jobQueue), a) = Times(jobQueue, a) - 1
        /\ \A b \in Actions \ {a} : Times(Tail(jobQueue), b) = Times(jobQueue, b)
    BY <1>1, <2>1, <2>2, JobsCounts
  <2>5. Times(jobQueue, a) \in Nat /\ onWorker[a] \in Nat
    BY <1>0, CarriersFacts
  <2>6. Jobs(a) > 0 /\ Times(Tail(jobQueue), a) + onWorker'[a] = Jobs(a) - 1
        /\ onWorker'[a] \in Nat
    BY <2>1, <2>4, <2>5 DEF Jobs
  <2>. QED  BY <1>5, <2>1, <2>2, <2>3, <2>4, <2>6
<1>8. CASE SubmitJob
  <2>1. /\ jobQueue # << >> /\ onWorker' = [onWorker EXCEPT ![Head(jobQueue)] = @ + 1]
        /\ jobQueue' = Tail(jobQueue)
        /\ UNCHANGED <<mode, action, transferVars, tdQueue>>
    BY <1>8 DEF SubmitJob
  <2>2. PICK a \in Actions : a = Head(jobQueue)
    BY <1>1, <2>1
  <2>3. onWorker'[a] = onWorker[a] + 1 /\ \A b \in Actions \ {a} : onWorker'[b] = onWorker[b]
    BY <1>1, <2>1, <2>2
  <2>4. /\ Times(jobQueue, a) > 0 /\ Times(jobQueue', a) = Times(jobQueue, a) - 1
        /\ \A b \in Actions \ {a} : Times(jobQueue', b) = Times(jobQueue, b)
    BY <1>1, <2>1, <2>2, JobsCounts
  <2>5. Times(jobQueue, a) \in Nat /\ onWorker[a] \in Nat /\ EndsOf(a) \in Nat
    <3>1. Times(jobQueue, a) \in Nat /\ onWorker[a] \in Nat
      BY <1>0, CarriersFacts
    <3>. QED  BY <1>0, <3>1, CarriersSum
  <2>6. Jobs(a) > 0 /\ Jobs(a)' = Jobs(a) /\ Jobs(a) + EndsOf(a) > 0
    BY <1>2, <2>3, <2>4, <2>5 DEF Jobs
  <2>7. EndsOf(a)' = EndsOf(a)
    <3>1. "completed" \in Ends
      BY DEF Ends
    <3>. QED  BY <1>0, <2>1, <3>1, EndsCounts
  <2>8. /\ Jobs(a) + EndsOf(a) > 0 /\ Jobs(a) + EndsOf(a) = 1 /\ action[a].state = "running"
        /\ action[a].executionErrors < SUBMISSION_CHANCES
        /\ action[a].executionErrors <= SUBMISSION_CHANCES
    BY <1>3, <2>5, <2>6
  <2>9. Jobs(a)' + EndsOf(a)' = 1 /\ action'[a].state = "running"
    BY <2>1, <2>6, <2>7, <2>8
  <2>10. action'[a].state # "ready"
    BY <2>1, <2>8
  <2>. QED  BY <1>0, <2>1, <2>3, <2>4, <2>6, <2>8, <2>9, <2>10, JobStep
<1>9. CASE TreatEnd
  <2>1. PICK a \in Actions, e \in Ends :
              /\ tdQueue # << >> /\ Head(tdQueue) = <<a, e>> /\ tdQueue' = Tail(tdQueue)
              /\ action'[a].state = (IF e = "completed" THEN "completed"
                                     ELSE IF action[a].launches >= SCHEDULING_CHANCES THEN "failed"
                                     ELSE "ready")
              /\ action'[a].executionErrors = action[a].executionErrors
              /\ action'[a].transferErrors = action[a].transferErrors
              /\ action'[a].round = action[a].round /\ action'[a].launches = action[a].launches
              /\ action'[a].worker = action[a].worker
              /\ \A b \in Actions \ {a} : action'[b] = action[b]
    BY <1>0, <1>9, TreatEndFields
  <2>2. UNCHANGED <<mode, transferVars, jobQueue, onWorker>>
    BY <1>9 DEF TreatEnd, jobVars
  <2>3. /\ EndsOf(a) > 0 /\ EndsOf(a)' = EndsOf(a) - 1
        /\ \A b \in Actions \ {a} : \A x \in Ends :
              Times(tdQueue', <<b, x>>) = Times(tdQueue, <<b, x>>)
    BY <1>0, <2>1, EndsCounts
  <2>4. Jobs(a) \in Nat /\ EndsOf(a) \in Nat /\ Jobs(a)' = Jobs(a)
    BY <1>0, <1>2, <2>2, CarriersSum DEF Jobs
  <2>5. Jobs(a) + EndsOf(a) > 0
    BY <2>3, <2>4
  <2>6. /\ Jobs(a) + EndsOf(a) = 1 /\ action[a].executionErrors <= SUBMISSION_CHANCES
    BY <1>3, <2>5
  <2>7. Jobs(a)' = 0 /\ EndsOf(a)' = 0
    BY <2>3, <2>4, <2>6
  <2>8. action'[a].state # "running"
    BY <2>1
  <2>9. Jobs(a)' + EndsOf(a)' = 0 /\ action'[a].state # "running"
    BY <2>7, <2>8
  <2>10. action'[a].state = "ready" => action[a].launches < SCHEDULING_CHANCES
    BY <1>0, <2>1, FieldFacts, ChancesFacts
  <2>11. ~ (Jobs(a)' > 0)
    BY <2>7
  <2>. QED  BY <1>0, <2>1, <2>2, <2>3, <2>5, <2>6, <2>9, <2>10, <2>11, JobStep
<1>. QED  BY <1>4, <1>6, <1>7, <1>8, <1>9

\* One thing carries a running execution after a step.
LEMMA CarriedNext ==
    ASSUME Types', mode' = mode, NEW a \in Actions, action'[a].state = "running",
           \/ /\ runner'[a].by # None /\ Doers(a)' = {} /\ ~ Awaits(a)'
              /\ Jobs(a)' = 0 /\ EndsOf(a)' = 0
           \/ /\ runner'[a].by = None /\ Cardinality(Doers(a)') = 1 /\ ~ Awaits(a)'
              /\ Jobs(a)' = 0 /\ EndsOf(a)' = 0
           \/ /\ runner'[a].by = None /\ Doers(a)' = {} /\ Awaits(a)'
              /\ Jobs(a)' = 0 /\ EndsOf(a)' = 0
           \/ /\ runner'[a].by = None /\ Doers(a)' = {} /\ ~ Awaits(a)'
              /\ Jobs(a)' + EndsOf(a)' = 1
    PROVE  Carried(a)'
<1>1. PICK r \in {0, 1} : r = One(runner[a].by # None)' /\ (r = 0 <=> runner'[a].by = None)
  BY DEF One
<1>2. PICK w \in {0, 1} : w = One(Awaits(a))' /\ (w = 0 <=> ~ Awaits(a)')
  BY DEF One
<1>3. One(action[a].state = "running")' = 1
  BY DEF One
<1>4. PICK j \in Nat : j = Jobs(a)'
  BY CarriersSumNext
<1>5. PICK e \in Nat : e = EndsOf(a)'
  BY CarriersSumNext
<1>6. PICK n \in Nat : n = Cardinality(Doers(a)') /\ (n = 0 <=> Doers(a)' = {})
  BY CarriersSumNext
<1>7. Carriers(a)' = One(runner[a].by # None)' + Cardinality(Doers(a)') + One(Awaits(a))'
                     + Jobs(a)' + EndsOf(a)'
  BY CarriersSumNext, Zenon
<1>8. Carriers(a)' = r + n + w + j + e
  BY <1>1, <1>2, <1>4, <1>5, <1>6, <1>7, Zenon
<1>9. r = 0 <=> runner'[a].by = None
  BY <1>1
<1>10. w = 0 <=> ~ Awaits(a)'
  BY <1>2
<1>11. \/ r # 0 /\ n = 0 /\ w = 0 /\ j = 0 /\ e = 0
       \/ r = 0 /\ n = 1 /\ w = 0 /\ j = 0 /\ e = 0
       \/ r = 0 /\ n = 0 /\ w # 0 /\ j = 0 /\ e = 0
       \/ r = 0 /\ n = 0 /\ w = 0 /\ j + e = 1
  BY <1>4, <1>5, <1>6, <1>9, <1>10
<1>12. Carriers(a)' = 1
  BY <1>8, <1>11
<1>. QED  BY <1>3, <1>12 DEF Carried

\* A step that leaves the jobs and the ends alone.
LEMMA SameCounts ==
    ASSUME UNCHANGED <<jobQueue, onWorker, tdQueue>>, NEW a
    PROVE  /\ Jobs(a)' = Jobs(a) /\ EndsOf(a)' = EndsOf(a)
           /\ Times(jobQueue', a) = Times(jobQueue, a)
           /\ \A e : Times(tdQueue', <<a, e>>) = Times(tdQueue, <<a, e>>)
BY DEF Jobs, EndsOf, Times

\* Whoever reacts for an execution does it alone, for the listener of the last round.
LEMMA OneDoer ==
    ASSUME Types, LaunchInv, NEW i \in Threads, doing[i] # None, NEW a, a = doing[i][1][1]
    PROVE  /\ a \in Actions /\ Doers(a) = {i} /\ runner[a].by = None /\ ~ Awaits(a)
           /\ Jobs(a) = 0 /\ EndsOf(a) = 0 /\ action[a].state = "running"
           /\ action[a].round # 0 /\ Current(a) \in Listeners /\ doing[i][1] = Current(a)
           /\ listener[Current(a)].enabled /\ listener[Current(a)].operation = 0
           /\ doing[i][2] = (IF listener[Current(a)].errors > 0 THEN "doFailures" ELSE "doReady")
<1>1. a \in Actions /\ doing[i][1] \in Listeners /\ doing[i][1][2] \in Rounds
  BY ReactionFacts
<1>2. i \in Doers(a)
  BY DEF Doers
<1>3. /\ runner[a].by = None /\ Cardinality(Doers(a)) = 1 /\ ~ Awaits(a)
      /\ Jobs(a) = 0 /\ EndsOf(a) = 0
  BY <1>1, <1>2, OneCarries
<1>4. action[a].state = "running"
  BY <1>1, <1>2, OneCarries
<1>5. IsFiniteSet(Threads)
  BY FiniteAssumption, FS_AddElement DEF Threads
<1>6. IsFiniteSet(Doers(a))
  BY <1>5, FS_Subset DEF Doers
<1>7. Doers(a) = {i}
  <2>1. PICK x : Doers(a) = {x}
    BY <1>3, <1>6, FS_Singleton
  <2>. QED  BY <1>2, <2>1
<1>8. DoingOK(i)
  BY DEF LaunchInv
<1>9. /\ doing[i][1] = Current(a) /\ listener[Current(a)].enabled
      /\ listener[Current(a)].operation = 0
      /\ doing[i][2] = (IF listener[Current(a)].errors > 0 THEN "doFailures" ELSE "doReady")
  BY <1>8 DEF DoingOK
<1>10. action[a].round # 0
  <2>1. action[a].round \in Rounds
    BY <1>1, <1>9 DEF Current
  <2>. QED  BY <2>1, ChancesFacts DEF Rounds
<1>. QED  BY <1>1, <1>3, <1>4, <1>7, <1>9, <1>10

\* A new round has all its inputs to order, and the rounds before have nothing left.
LEMMA NewRoundRounds ==
    ASSUME Types, CopyInv, LaunchInv, NEW a \in Actions, NEW i \in Threads, NEW fields,
           fields \in Fields, fields.round = action[a].round, fields.worker \in Workers,
           action[a].round + 1 <= TRANSFER_CHANCES * SCHEDULING_CHANCES,
           DoInputTransfers(a, i, fields), UNCHANGED <<mode, listener>>,
           runner[a].by = None, ~ Awaits(a)
    PROVE  RoundsOK(a)' /\ ~ Awaits(a)'
<1> DEFINE r == action[a].round
<1>1. /\ action'[a].round = r + 1 /\ action'[a].worker = fields.worker
      /\ runner'[a].by = i /\ runner'[a].left = Inputs(a)
      /\ tgtLoc'[<<a, r + 1>>] = fields.worker
      /\ \A l \in Listeners \ {<<a, r + 1>>} : tgtLoc'[l] = tgtLoc[l]
  BY NewRoundFields
<1>2. RoundsOK(a) /\ r \in Nat
  BY FieldFacts DEF LaunchInv, LaunchOK
<1>3. i # None
  BY ThreadsAssumption DEF Threads
<1>4. r + 1 \in Rounds /\ \A q \in Rounds : q \in Nat /\ q # 0
  BY <1>2, ChancesFacts DEF Rounds
<1>5. \A q \in Rounds : /\ <<a, q>> \in Listeners
                        /\ listener[<<a, q>>].operation \in Nat /\ listener[<<a, q>>].errors \in Nat
  <2>1. \A q \in Rounds : <<a, q>> \in Listeners
    BY DEF Listeners
  <2>. QED  BY <2>1, CountingListener, FieldFacts
<1>6. /\ Cardinality(Data) \in Nat
      /\ \A S \in SUBSET Data : Cardinality(S) \in Nat /\ Cardinality(S) <= Cardinality(Data)
  BY FiniteAssumption, FS_Subset, FS_CardinalityType
<1>7. runner[a].left \in SUBSET Data /\ Inputs(a) \in SUBSET Data
  BY FieldFacts DEF Inputs
<1>8. /\ \A q \in Rounds : q > r => listener[<<a, q>>].operation = 0
                                    /\ listener[<<a, q>>].errors = 0
                                    /\ listener[<<a, q>>].enabled = FALSE
      /\ \A q \in Rounds : q > r =>
            listener[<<a, q>>] = [operation |-> 0, errors |-> 0, enabled |-> FALSE]
      /\ \A q \in Rounds : q < r => listener[<<a, q>>].operation = 0
      /\ \A q \in Rounds : q <= r => tgtLoc[<<a, q>>] \in Workers
      /\ r # 0 => listener[<<a, r>>].enabled
  BY <1>2 DEF RoundsOK
<1>9. \A q \in Rounds : q = r => listener[<<a, q>>].operation = 0
  <2>1. r # 0 => ~ (listener[<<a, r>>].operation > 0)
    BY <1>8 DEF Awaits, Current
  <2>. QED  BY <1>4, <1>5, <2>1
<1>10. \A q \in Rounds :
          listener[<<a, q>>].operation + listener[<<a, q>>].errors <= Cardinality(Data)
  <2>1. ASSUME NEW q \in Rounds
        PROVE  listener[<<a, q>>].operation + listener[<<a, q>>].errors <= Cardinality(Data)
    <3>1. listener[<<a, q>>].operation + listener[<<a, q>>].errors
            + (IF q = r THEN Cardinality(runner[a].left) ELSE 0) <= Cardinality(Data)
      BY <1>2 DEF RoundsOK
    <3>. QED  BY <1>5, <1>6, <1>7, <3>1
  <2>. QED  BY <2>1
<1>11. ~ Awaits(a)'
  <2>1. Current(a)' = <<a, r + 1>>
    BY <1>1 DEF Current
  <2>. QED  BY <1>2, <1>4, <1>8, <2>1 DEF Awaits
<1>12. RoundsOK(a)'
  <2>1. ASSUME NEW q \in Rounds
        PROVE  /\ q > r + 1 =>
                    listener[<<a, q>>] = [operation |-> 0, errors |-> 0, enabled |-> FALSE]
               /\ q < r + 1 => listener[<<a, q>>].operation = 0
               /\ q <= r + 1 => tgtLoc'[<<a, q>>] \in Workers
               /\ listener[<<a, q>>].operation + listener[<<a, q>>].errors
                    + (IF q = r + 1 THEN Cardinality(Inputs(a)) ELSE 0) <= Cardinality(Data)
    <3>1. CASE q = r + 1
      BY <1>1, <1>2, <1>6, <1>7, <1>8, <3>1
    <3>2. CASE q # r + 1
      <4>1. q \in Nat /\ (q > r + 1 => q > r) /\ (q < r + 1 => q < r \/ q = r)
            /\ (q <= r + 1 => q <= r)
        BY <1>2, <1>4, <3>2
      <4>2. tgtLoc'[<<a, q>>] = tgtLoc[<<a, q>>]
        BY <1>1, <1>5, <3>2
      <4>. QED  BY <1>5, <1>8, <1>9, <1>10, <3>2, <4>1, <4>2
    <3>. QED  BY <3>1, <3>2
  <2>2. r + 1 # 0 /\ ~ listener[<<a, r + 1>>].enabled
    BY <1>2, <1>4, <1>8
  <2>. QED  BY <1>1, <1>3, <2>1, <2>2 DEF RoundsOK
<1>. QED  BY <1>11, <1>12

\* The launch or the retry that starts a round.
LEMMA NewRoundLaunch ==
    ASSUME Types, Types', CopyInv, LaunchInv, NEW a \in Actions, NEW i \in Threads, NEW fields,
           fields \in Fields, fields.round = action[a].round, fields.worker \in Workers,
           fields.state = "running", fields.launches <= SCHEDULING_CHANCES,
           fields.transferErrors < TRANSFER_CHANCES, fields.executionErrors = 0,
           fields.round + 1 <= (fields.launches - 1) * TRANSFER_CHANCES
                               + fields.transferErrors + 1,
           DoInputTransfers(a, i, fields), UNCHANGED <<mode, listener, jobQueue, onWorker, tdQueue>>,
           runner[a].by = None, ~ Awaits(a), Jobs(a) = 0, EndsOf(a) = 0,
           Doers(a)' = {}, doing'[i] = None, \A j \in Threads \ {i} : doing'[j] = doing[j],
           doing[i] # None => doing[i][1][1] = a, \A b \in Actions : runner[b].by # i
    PROVE  LaunchInv'
<1>1. /\ fields.launches \in Nat /\ fields.transferErrors \in Nat /\ fields.round \in Nat
  BY RecordFacts
<1>2. PICK n \in Nat : n = fields.launches
  BY <1>1
<1>3. PICK m \in Int : m = (n - 1) * TRANSFER_CHANCES
  BY ChancesFacts
<1>4. /\ n * TRANSFER_CHANCES = m + TRANSFER_CHANCES
      /\ n * TRANSFER_CHANCES <= TRANSFER_CHANCES * SCHEDULING_CHANCES
  BY <1>2, <1>3, ChancesFacts
<1>5. PICK p \in Nat : p = n * TRANSFER_CHANCES
  BY <1>2, ChancesFacts
<1>6. PICK s \in Nat : s = TRANSFER_CHANCES * SCHEDULING_CHANCES
  BY ChancesFacts
<1>7. PICK T \in Nat : T = TRANSFER_CHANCES
  BY ChancesFacts
<1>8. fields.round + 1 <= m + fields.transferErrors + 1 /\ p = m + T /\ p <= s
      /\ fields.transferErrors < T
  BY <1>2, <1>3, <1>4, <1>5, <1>6, <1>7
<1>9. fields.round + 1 <= p /\ fields.round + 1 <= s
  BY <1>1, <1>8
<1>10. action[a].round + 1 <= TRANSFER_CHANCES * SCHEDULING_CHANCES
  BY <1>6, <1>9
<1>11. /\ action'[a].round = action[a].round + 1 /\ action'[a].state = "running"
       /\ action'[a].launches = n /\ action'[a].transferErrors = fields.transferErrors
       /\ action'[a].executionErrors = 0
       /\ runner'[a].by = i
       /\ \A b \in Actions \ {a} : action'[b] = action[b] /\ runner'[b] = runner[b]
       /\ \A l \in Listeners \ {<<a, action[a].round + 1>>} : tgtLoc'[l] = tgtLoc[l]
  <2>1. /\ action'[a].round = action[a].round + 1
        /\ action'[a].state = fields.state /\ action'[a].worker = fields.worker
        /\ action'[a].launches = fields.launches
        /\ action'[a].transferErrors = fields.transferErrors
        /\ action'[a].executionErrors = fields.executionErrors
        /\ runner'[a].by = i /\ runner'[a].left = Inputs(a)
        /\ \A b \in Actions \ {a} : action'[b] = action[b] /\ runner'[b] = runner[b]
        /\ <<a, action[a].round + 1>> \in Listeners
        /\ tgtLoc'[<<a, action[a].round + 1>>] = fields.worker
        /\ \A l \in Listeners \ {<<a, action[a].round + 1>>} : tgtLoc'[l] = tgtLoc[l]
    BY <1>10, NewRoundFields
  <2>. QED  BY <1>2, <2>1
<1>12. RoundsOK(a)' /\ ~ Awaits(a)'
  BY <1>10, NewRoundRounds
<1>13. Jobs(a)' = 0 /\ EndsOf(a)' = 0
  BY SameCounts
<1>14. BoundsOK(a)'
  <2>1. action'[a].round <= action'[a].launches * TRANSFER_CHANCES
    BY <1>5, <1>9, <1>11
  <2>2. action'[a].round <= (action'[a].launches - 1) * TRANSFER_CHANCES
                            + action'[a].transferErrors + 1
    BY <1>2, <1>11
  <2>3. ~ ((Times(jobQueue, a) + onWorker[a] > 0)')
    BY <1>13 DEF Jobs
  <2>4. TRANSFER_CHANCES \in Nat /\ SUBMISSION_CHANCES \in Nat
    BY ChancesFacts
  <2>. QED  BY <1>1, <1>2, <1>11, <2>1, <2>2, <2>3, <2>4 DEF BoundsOK
<1>15. Carried(a)'
  <2>1. runner'[a].by # None
    BY <1>11, ThreadsAssumption DEF Threads
  <2>. QED  BY <1>11, <1>12, <1>13, <2>1, CarriedNext
<1>16. Submitted(a)'
  BY <1>13 DEF Submitted, Jobs
<1>17. Concerns(a)
  <2>1. \A b \in Actions \ {a} : \A q \in Rounds : tgtLoc'[<<b, q>>] = tgtLoc[<<b, q>>]
    BY <1>11 DEF Listeners
  <2>2. \A j \in Threads : \/ doing'[j] = doing[j]
                           \/ /\ doing[j] # None => doing[j][1][1] = a
                              /\ doing'[j] # None => doing'[j][1][1] = a
    OBVIOUS
  <2>3. \A b \in Actions \ {a} :
           /\ Times(jobQueue', b) = Times(jobQueue, b)
           /\ \A e \in Ends : Times(tdQueue', <<b, e>>) = Times(tdQueue, <<b, e>>)
    BY SameCounts
  <2>. QED  BY <1>11, <2>1, <2>2, <2>3 DEF Concerns
<1>18. \A j \in Threads : ~ (doing'[j] # None /\ doing'[j][1][1] = a)
  BY DEF Doers
<1>19. ASSUME NEW b \in Actions PROVE Occupied(b)'
  <2>1. Actions' = Actions
    BY SameSets
  <2>2. CASE b = a
    BY <1>11, <2>1, <2>2 DEF Occupied
  <2>3. CASE b # a
    <3>1. Occupied(b) /\ runner[b].by # i /\ runner[b].by \in Threads \cup {None}
      BY FieldFacts DEF LaunchInv
    <3>2. runner'[b] = runner[b]
      BY <1>11, <2>3
    <3>. QED  BY <1>11, <2>1, <3>1, <3>2 DEF Occupied
  <2>. QED  BY <2>2, <2>3
<1>. QED  BY <1>12, <1>14, <1>15, <1>16, <1>17, <1>18, <1>19, LaunchStep DEF LaunchOK

\* The TD launches an execution.
LEMMA DoActionLaunch ==
    ASSUME JobInv, Types', NEW a \in Actions, DoAction(a)
    PROVE  LaunchInv'
<1>0. Types /\ CopyInv /\ LaunchInv
  BY DEF JobInv
<1>1. /\ Free(TD) /\ action[a].state = "ready"
      /\ UNCHANGED <<mode, listener, doing, jobQueue, onWorker, tdQueue>>
  BY DEF DoAction, jobVars
<1>2. PICK w \in Workers :
        DoInputTransfers(a, TD, [action[a] EXCEPT !.state = "running", !.worker = w,
                                                  !.launches = @ + 1, !.transferErrors = 0,
                                                  !.executionErrors = 0])
  BY DEF DoAction
<1> DEFINE f == [action[a] EXCEPT !.state = "running", !.worker = w, !.launches = @ + 1,
                                  !.transferErrors = 0, !.executionErrors = 0]
<1>3. action[a] \in Fields /\ action[a].launches \in Nat /\ action[a].round \in Nat
  BY <1>0, FieldFacts
<1>4. f \in Fields
  BY <1>3, RecordUpdates
<1>5. /\ f.state = "running" /\ f.worker = w /\ f.launches = action[a].launches + 1
      /\ f.transferErrors = 0 /\ f.executionErrors = 0 /\ f.round = action[a].round
  BY <1>3 DEF Fields
<1>6. DoInputTransfers(a, TD, f)
  BY <1>2
<1> HIDE DEF f
<1>7. BoundsOK(a)
  BY <1>0 DEF LaunchInv, LaunchOK
<1>8. /\ action[a].launches < SCHEDULING_CHANCES
      /\ action[a].round <= action[a].launches * TRANSFER_CHANCES
  BY <1>1, <1>7 DEF BoundsOK
<1>9. f.launches <= SCHEDULING_CHANCES /\ f.transferErrors < TRANSFER_CHANCES
  BY <1>3, <1>5, <1>8, ChancesFacts
<1>10. f.round + 1 <= (f.launches - 1) * TRANSFER_CHANCES + f.transferErrors + 1
  <2>1. PICK p \in Nat : p = action[a].launches * TRANSFER_CHANCES
    BY <1>3, ChancesFacts
  <2>2. p = (f.launches - 1) * TRANSFER_CHANCES
    <3>1. f.launches - 1 = action[a].launches
      BY <1>3, <1>5
    <3>. QED  BY <2>1, <3>1, Zenon
  <2>. QED  BY <1>3, <1>5, <1>8, <2>1, <2>2
<1>11. runner[a].by = None /\ ~ Awaits(a) /\ Jobs(a) = 0 /\ EndsOf(a) = 0 /\ Doers(a) = {}
  BY <1>0, <1>1, OneCarries
<1>12. TD \in Threads /\ doing[TD] = None /\ \A b \in Actions : runner[b].by # TD
  BY <1>1 DEF Free, Threads
<1>13. /\ Doers(a)' = {} /\ doing'[TD] = None
       /\ \A j \in Threads \ {TD} : doing'[j] = doing[j]
  BY <1>1, <1>11, <1>12 DEF Doers
<1>. QED  BY <1>0, <1>1, <1>4, <1>5, <1>6, <1>9, <1>10, <1>11, <1>12, <1>13, NewRoundLaunch

\* A step that leaves the rounds of an execution alone.
LEMMA RoundsKept ==
    ASSUME NEW a, RoundsOK(a), UNCHANGED <<listener, runner, tgtLoc>>,
           action'[a].round = action[a].round, action'[a].worker = action[a].worker
    PROVE  RoundsOK(a)'
BY DEF RoundsOK

\* A reaction that ends the transfers of an execution: it leaves a job or an end.
LEMMA Settled ==
    ASSUME Types, Types', LaunchInv, NEW i \in Threads, doing[i] # None,
           NEW a \in Actions, a = doing[i][1][1], doing' = [doing EXCEPT ![i] = None],
           UNCHANGED <<mode, listener, runner, tgtLoc, onWorker>>,
           \A b \in Actions \ {a} : action'[b] = action[b],
           action'[a].round = action[a].round, action'[a].launches = action[a].launches,
           action'[a].worker = action[a].worker, action'[a].state = action[a].state,
           action'[a].transferErrors <= TRANSFER_CHANCES, action'[a].executionErrors = 0,
           \A b \in Actions \ {a} :
               /\ Times(jobQueue', b) = Times(jobQueue, b)
               /\ \A e \in Ends : Times(tdQueue', <<b, e>>) = Times(tdQueue, <<b, e>>),
           Jobs(a)' + EndsOf(a)' = 1,
           Jobs(a)' > 0 => listener[Current(a)].errors = 0
    PROVE  LaunchInv'
<1>1. /\ Doers(a) = {i} /\ runner[a].by = None /\ ~ Awaits(a)
      /\ action[a].state = "running" /\ action[a].round # 0
      /\ listener[Current(a)].enabled /\ listener[Current(a)].operation = 0
  BY OneDoer
<1>2. RoundsOK(a) /\ BoundsOK(a)
  BY DEF LaunchInv, LaunchOK
<1>3. /\ doing'[i] = None /\ \A j \in Threads \ {i} : doing'[j] = doing[j]
  BY DEF Types
<1>4. Doers(a)' = {} /\ Current(a)' = Current(a) /\ ~ Awaits(a)'
  <2>1. Doers(a)' = {}
    BY <1>1, <1>3 DEF Doers
  <2>2. Current(a)' = Current(a)
    BY DEF Current
  <2>. QED  BY <1>1, <2>1, <2>2 DEF Awaits
<1>5. RoundsOK(a)'
  BY <1>2, RoundsKept
<1>6. Jobs(a)' = Times(jobQueue', a) + onWorker'[a]
  BY DEF Jobs, Times
<1>7. BoundsOK(a)'
  <2>1. ~ Transferring(a)'
    BY <1>1, <1>4 DEF Transferring
  <2>2. SUBMISSION_CHANCES \in Nat \ {0}
    BY ChancesFacts
  <2>. QED  BY <1>1, <1>2, <2>1, <2>2 DEF BoundsOK
<1>8. Carried(a)'
  BY <1>1, <1>4, CarriedNext
<1>9. Submitted(a)'
  <2>1. (Times(jobQueue, a) + onWorker[a] > 0)' <=> Jobs(a)' > 0
    BY <1>6 DEF Times
  <2>. QED  BY <1>1, <1>4, <2>1 DEF Submitted
<1>10. Concerns(a)
  BY <1>3 DEF Concerns
<1>11. \A j \in Threads : ~ (doing'[j] # None /\ doing'[j][1][1] = a)
  BY <1>4 DEF Doers
<1>12. ASSUME NEW b \in Actions PROVE Occupied(b)'
  <2>1. Actions' = Actions /\ Occupied(b) /\ runner[b].by \in Threads \cup {None}
    BY SameSets, FieldFacts DEF LaunchInv
  <2>. QED  BY <1>3, <2>1 DEF Occupied
<1>. QED  BY <1>5, <1>7, <1>8, <1>9, <1>10, <1>11, <1>12, LaunchStep DEF LaunchOK

\* The transfers ended well: the job is queued.
LEMMA DoSubmitLaunch ==
    ASSUME JobInv, Types', NEW i \in Threads, DoSubmit(i)
    PROVE  LaunchInv'
<1>0. Types /\ LaunchInv
  BY DEF JobInv
<1>1. /\ doing[i] # None /\ doing[i][2] = "doReady"
      /\ jobQueue' = Append(jobQueue, doing[i][1][1])
      /\ doing' = [doing EXCEPT ![i] = None]
      /\ UNCHANGED <<mode, action, listener, runner, tgtLoc, onWorker, tdQueue>>
  BY DEF DoSubmit
<1>2. PICK a \in Actions : a = doing[i][1][1]
  BY <1>0, <1>1, ReactionFacts
<1>3. /\ Jobs(a) = 0 /\ EndsOf(a) = 0 /\ Doers(a) = {i}
      /\ doing[i][2] = (IF listener[Current(a)].errors > 0 THEN "doFailures" ELSE "doReady")
      /\ Current(a) \in Listeners
  BY <1>0, <1>1, <1>2, OneDoer
<1>4. listener[Current(a)].errors = 0
  <2>1. listener[Current(a)].errors \in Nat
    BY <1>0, <1>3, FieldFacts
  <2>. QED  BY <1>1, <1>3, <2>1
<1>5. BoundsOK(a) /\ Transferring(a)
  BY <1>0, <1>3 DEF LaunchInv, LaunchOK, Transferring
<1>6. action[a].transferErrors <= TRANSFER_CHANCES /\ action[a].executionErrors = 0
  BY <1>5 DEF BoundsOK
<1>7. jobQueue \in Seq(Actions) /\ onWorker[a] \in Nat
  BY <1>0, FieldFacts DEF Types
<1>8. /\ Times(jobQueue', a) = Times(jobQueue, a) + 1 /\ Times(jobQueue, a) \in Nat
      /\ \A b \in Actions \ {a} : Times(jobQueue', b) = Times(jobQueue, b)
  BY <1>1, <1>2, <1>7, JobsCounts
<1>9. Jobs(a)' = 1
  <2>1. Jobs(a)' = Times(jobQueue', a) + onWorker'[a]
    BY DEF Jobs, Times
  <2>. QED  BY <1>1, <1>3, <1>7, <1>8, <2>1 DEF Jobs
<1>10. EndsOf(a)' = 0
  <2>1. "error" \in Ends
    BY DEF Ends
  <2>. QED  BY <1>0, <1>1, <1>3, <2>1, EndsCounts
<1>11. Jobs(a)' + EndsOf(a)' = 1
  BY <1>9, <1>10
<1>. QED  BY <1>0, <1>1, <1>2, <1>4, <1>6, <1>8, <1>11, Settled

\* A transfer failed: all of them are ordered again, or the launch has failed.
LEMMA FailedTransfersLaunch ==
    ASSUME JobInv, Types', NEW i \in Threads, FailedTransfers(i)
    PROVE  LaunchInv'
<1>0. Types /\ CopyInv /\ LaunchInv
  BY DEF JobInv
<1>1. /\ doing[i] # None /\ doing' = [doing EXCEPT ![i] = None]
      /\ UNCHANGED <<mode, listener, jobQueue, onWorker>>
  BY DEF FailedTransfers, jobVars
<1>2. PICK a \in Actions : a = doing[i][1][1]
  BY <1>0, <1>1, ReactionFacts
<1> DEFINE f == [action[a] EXCEPT !.transferErrors = @ + 1]
<1>3. \/ /\ f.transferErrors < TRANSFER_CHANCES /\ DoInputTransfers(a, i, f)
         /\ UNCHANGED tdQueue
      \/ /\ action' = [action EXCEPT ![a] = f] /\ tdQueue' = Append(tdQueue, <<a, "error">>)
         /\ UNCHANGED <<runner, tgtLoc>>
  BY <1>2 DEF FailedTransfers
<1>4. action[a] \in Fields /\ action \in [Actions -> Fields]
  BY <1>0, FieldFacts DEF Types
<1>5. f \in Fields
  BY <1>4, RecordUpdates
<1>6. /\ f.state = action[a].state /\ f.worker = action[a].worker
      /\ f.launches = action[a].launches /\ f.transferErrors = action[a].transferErrors + 1
      /\ f.executionErrors = action[a].executionErrors /\ f.round = action[a].round
  BY <1>4 DEF Fields
<1> HIDE DEF f
<1>7. /\ Doers(a) = {i} /\ runner[a].by = None /\ ~ Awaits(a) /\ Jobs(a) = 0 /\ EndsOf(a) = 0
      /\ action[a].state = "running" /\ action[a].round # 0
  BY <1>0, <1>1, <1>2, OneDoer
<1>8. BoundsOK(a) /\ RoundsOK(a) /\ Transferring(a)
  BY <1>0, <1>7 DEF LaunchInv, LaunchOK, Transferring
<1>9. /\ action[a].launches <= SCHEDULING_CHANCES /\ action[a].transferErrors < TRANSFER_CHANCES
      /\ action[a].executionErrors = 0
      /\ action[a].round <= (action[a].launches - 1) * TRANSFER_CHANCES
                            + action[a].transferErrors + 1
  BY <1>8 DEF BoundsOK
<1>10. action[a].transferErrors \in Nat /\ action[a].round \in Nat /\ action[a].launches \in Nat
       /\ TRANSFER_CHANCES \in Nat
  BY <1>0, FieldFacts, ChancesFacts
<1>11. doing'[i] = None /\ \A j \in Threads \ {i} : doing'[j] = doing[j]
  BY <1>0, <1>1 DEF Types
<1>12. CASE /\ f.transferErrors < TRANSFER_CHANCES /\ DoInputTransfers(a, i, f)
            /\ UNCHANGED tdQueue
  <2>1. f.worker \in Workers
    BY <1>6, <1>7, <1>8 DEF RoundsOK
  <2>2. f.round + 1 <= (f.launches - 1) * TRANSFER_CHANCES + f.transferErrors + 1
    <3>1. PICK m \in Int : m = (action[a].launches - 1) * TRANSFER_CHANCES
      BY <1>10
    <3>2. m = (f.launches - 1) * TRANSFER_CHANCES
      BY <1>6, <3>1, Zenon
    <3>3. action[a].round <= m + action[a].transferErrors + 1
      BY <1>9, <3>1
    <3>4. f.round + 1 <= m + f.transferErrors + 1
      BY <1>6, <1>10, <3>3
    <3>. QED  BY <3>2, <3>4
  <2>3. Doers(a)' = {}
    BY <1>7, <1>11 DEF Doers
  <2>4. \A b \in Actions : runner[b].by # i
    <3>1. ASSUME NEW b \in Actions, runner[b].by = i PROVE FALSE
      <4>1. i # None /\ Occupied(b)
        BY <1>0, ThreadsAssumption DEF Threads, LaunchInv
      <4>. QED  BY <1>1, <3>1, <4>1 DEF Occupied
    <3>. QED  BY <3>1
  <2>5. f.state = "running" /\ f.launches <= SCHEDULING_CHANCES /\ f.executionErrors = 0
    BY <1>6, <1>7, <1>9
  <2>6. doing[i][1][1] = a
    BY <1>2
  <2>7. f.round = action[a].round
    BY <1>6
  <2>. QED  BY <1>0, <1>1, <1>5, <1>7, <1>11, <1>12, <2>1, <2>2, <2>3, <2>4, <2>5, <2>6, <2>7,
               NewRoundLaunch
<1>13. CASE /\ action' = [action EXCEPT ![a] = f] /\ tdQueue' = Append(tdQueue, <<a, "error">>)
            /\ UNCHANGED <<runner, tgtLoc>>
  <2>1. action'[a] = f /\ \A b \in Actions \ {a} : action'[b] = action[b]
    BY <1>4, <1>13
  <2>2. "error" \in Ends
    BY DEF Ends
  <2>3. /\ EndsOf(a)' = EndsOf(a) + 1
        /\ \A b \in Actions \ {a} : \A e \in Ends :
              Times(tdQueue', <<b, e>>) = Times(tdQueue, <<b, e>>)
    BY <1>0, <1>13, <2>2, EndsCounts
  <2>4. Jobs(a)' = Jobs(a) /\ \A b \in Actions \ {a} : Times(jobQueue', b) = Times(jobQueue, b)
    BY <1>1 DEF Jobs, Times
  <2>5. Jobs(a)' + EndsOf(a)' = 1 /\ ~ (Jobs(a)' > 0)
    BY <1>7, <2>3, <2>4
  <2>6. action'[a].transferErrors <= TRANSFER_CHANCES /\ action'[a].executionErrors = 0
    BY <1>6, <1>9, <1>10, <2>1
  <2>7. /\ action'[a].round = action[a].round /\ action'[a].launches = action[a].launches
        /\ action'[a].worker = action[a].worker /\ action'[a].state = action[a].state
    BY <1>6, <2>1
  <2>. QED  BY <1>0, <1>1, <1>2, <1>13, <2>1, <2>3, <2>4, <2>5, <2>6, <2>7, Settled
<1>. QED  BY <1>3, <1>12, <1>13

\* The transfers of the last round go on, and end when nobody orders them any more and the
\* listener counts none.
LEMMA TransfersGoOn ==
    ASSUME Types, Types', LaunchInv, NEW a \in Actions, NEW i \in Threads,
           UNCHANGED <<mode, action, tgtLoc, jobQueue, onWorker, tdQueue>>,
           runner[a].by # None \/ Awaits(a),
           \A b \in Actions \ {a} : runner'[b] = runner[b] /\ runner[b].by # i,
           runner'[a].by # None => runner'[a].by = runner[a].by,
           runner'[a].by = None => runner'[a].left = {},
           \A l \in Listeners \ {Current(a)} : listener'[l] = listener[l],
           listener'[Current(a)].operation \in Nat,
           listener'[Current(a)].enabled <=> runner'[a].by = None,
           listener'[Current(a)].operation + listener'[Current(a)].errors
               + Cardinality(runner'[a].left) <= Cardinality(Data),
           doing[i] = None, \A j \in Threads \ {i} : doing'[j] = doing[j],
           doing'[i] = IF runner'[a].by # None THEN None
                       ELSE Verdict(Current(a), listener'[Current(a)].operation,
                                    listener'[Current(a)].errors, TRUE)
    PROVE  LaunchInv'
<1>1. /\ Doers(a) = {} /\ Jobs(a) = 0 /\ EndsOf(a) = 0
  BY OneCarries
<1>2. action[a].state = "running"
  BY OneCarries
<1>3. action[a].round # 0 /\ action[a].round \in Rounds /\ Current(a) \in Listeners
  BY RoundFacts DEF Awaits
<1>4. RoundsOK(a) /\ BoundsOK(a)
  BY DEF LaunchInv, LaunchOK
<1>5. Actions' = Actions /\ Current(a)' = Current(a) /\ Current(a) = <<a, action[a].round>>
  BY SameSets DEF Current
<1>6. Jobs(a)' = 0 /\ EndsOf(a)' = 0
  BY <1>1, SameCounts
<1>7. RoundsOK(a)'
  <2>1. ASSUME NEW q \in Rounds
        PROVE  /\ q > action[a].round =>
                    listener'[<<a, q>>] = [operation |-> 0, errors |-> 0, enabled |-> FALSE]
               /\ q < action[a].round => listener'[<<a, q>>].operation = 0
               /\ q <= action[a].round => tgtLoc[<<a, q>>] \in Workers
               /\ listener'[<<a, q>>].operation + listener'[<<a, q>>].errors
                    + (IF q = action[a].round THEN Cardinality(runner'[a].left) ELSE 0)
                    <= Cardinality(Data)
    <3>1. CASE q = action[a].round
      <4>1. q \in Nat /\ ~ (q > action[a].round) /\ ~ (q < action[a].round)
        BY <3>1, FieldFacts
      <4>2. q <= action[a].round => tgtLoc[<<a, q>>] \in Workers
        BY <1>4 DEF RoundsOK
      <4>3. <<a, q>> = Current(a)
        BY <1>5, <3>1
      <4>. QED  BY <3>1, <4>1, <4>2, <4>3
    <3>2. CASE q # action[a].round
      <4>1. listener'[<<a, q>>] = listener[<<a, q>>]
        BY <1>5, <3>2 DEF Listeners
      <4>2. /\ q > action[a].round =>
                 listener[<<a, q>>] = [operation |-> 0, errors |-> 0, enabled |-> FALSE]
            /\ q < action[a].round => listener[<<a, q>>].operation = 0
            /\ q <= action[a].round => tgtLoc[<<a, q>>] \in Workers
            /\ listener[<<a, q>>].operation + listener[<<a, q>>].errors + 0 <= Cardinality(Data)
        BY <1>4, <3>2 DEF RoundsOK
      <4>. QED  BY <3>2, <4>1, <4>2
    <3>. QED  BY <3>1, <3>2
  <2>2. action[a].worker \in Workers
    BY <1>3, <1>4 DEF RoundsOK
  <2>3. listener'[<<a, action[a].round>>].enabled <=> runner'[a].by = None
    BY <1>5
  <2>. QED  BY <1>3, <2>1, <2>2, <2>3 DEF RoundsOK
<1>8. BoundsOK(a)'
  <2>1. Transferring(a)
    BY DEF Transferring
  <2>2. ~ ((Times(jobQueue, a) + onWorker[a] > 0)')
    BY <1>6 DEF Jobs
  <2>. QED  BY <1>4, <2>1, <2>2 DEF BoundsOK
<1>9. Submitted(a)'
  BY <1>6 DEF Submitted, Jobs
<1>10. /\ Awaits(a)' <=> runner'[a].by = None /\ listener'[Current(a)].operation # 0
  <2>1. Awaits(a)' <=> listener'[Current(a)].enabled /\ listener'[Current(a)].operation > 0
    BY <1>3, <1>5 DEF Awaits
  <2>. QED  BY <2>1
<1>11. /\ doing'[i] # None => runner'[a].by = None /\ listener'[Current(a)].operation = 0
                              /\ doing'[i] = <<Current(a), IF listener'[Current(a)].errors > 0
                                                           THEN "doFailures" ELSE "doReady">>
       /\ runner'[a].by = None /\ listener'[Current(a)].operation = 0 => doing'[i] # None
  <2>1. Current(a) \in Listeners /\ None \notin Listeners \X Reactions
    BY <1>3, ReactionFacts
  <2>2. <<Current(a), IF listener'[Current(a)].errors > 0 THEN "doFailures" ELSE "doReady">>
          \in Listeners \X Reactions
    BY <2>1 DEF Reactions
  <2>. QED  BY <2>1, <2>2 DEF Verdict
<1>a. doing'[i] # None =>
         /\ doing'[i][1] = Current(a) /\ doing'[i][1][1] = a
         /\ doing'[i][2] = (IF listener'[Current(a)].errors > 0 THEN "doFailures" ELSE "doReady")
  <2>1. PICK v : v = IF listener'[Current(a)].errors > 0 THEN "doFailures" ELSE "doReady"
    OBVIOUS
  <2>2. doing'[i] # None => doing'[i] = <<Current(a), v>>
    BY <1>11, <2>1, Zenon
  <2>3. PICK l : l = Current(a)
    OBVIOUS
  <2>4. l[1] = a
    BY <1>5, <2>3
  <2>5. doing'[i] # None => doing'[i][1] = l /\ doing'[i][1][1] = a /\ doing'[i][2] = v
    <3>1. <<l, v>>[1] = l /\ <<l, v>>[2] = v
      OBVIOUS
    <3>2. doing'[i] # None => doing'[i] = <<l, v>>
      BY <2>2, <2>3, Zenon
    <3>. QED  BY <2>4, <3>1, <3>2, Zenon
  <2>. QED  BY <2>1, <2>3, <2>5, Zenon
<1>12. \A j \in Threads \ {i} : ~ (doing'[j] # None /\ doing'[j][1][1] = a)
  BY <1>1 DEF Doers
<1>13. IF doing'[i] # None THEN Doers(a)' = {i} ELSE Doers(a)' = {}
  <2>1. doing'[i] # None => doing'[i][1][1] = a
    BY <1>a, Zenon
  <2>2. \A j : j \in Doers(a)' <=> j \in Threads /\ doing'[j] # None /\ doing'[j][1][1] = a
    BY DEF Doers
  <2>3. \A j : j \in Doers(a)' <=> j = i /\ doing'[i] # None
    <3>1. i \in Doers(a)' <=> doing'[i] # None
      BY <2>1, <2>2, Zenon
    <3>2. \A j : j # i => j \notin Doers(a)'
      BY <1>12, <2>2, Zenon
    <3>. QED  BY <3>1, <3>2
  <2>. QED  BY <2>3
<1>14. Carried(a)'
  <2>1. Cardinality({i}) = 1
    BY FS_Singleton
  <2>2. CASE runner'[a].by # None
    <3>1. Doers(a)' = {} /\ ~ Awaits(a)'
      BY <1>10, <1>11, <1>13, <2>2
    <3>. QED  BY <1>2, <1>6, <2>2, <3>1, CarriedNext
  <2>3. CASE runner'[a].by = None /\ listener'[Current(a)].operation = 0
    <3>1. Cardinality(Doers(a)') = 1 /\ ~ Awaits(a)'
      BY <1>10, <1>11, <1>13, <2>1, <2>3
    <3>. QED  BY <1>2, <1>6, <2>3, <3>1, CarriedNext
  <2>4. CASE runner'[a].by = None /\ listener'[Current(a)].operation # 0
    <3>1. Doers(a)' = {} /\ Awaits(a)'
      BY <1>10, <1>11, <1>13, <2>4
    <3>. QED  BY <1>2, <1>6, <2>4, <3>1, CarriedNext
  <2>. QED  BY <2>2, <2>3, <2>4
<1>15. Concerns(a)
  <2>1. ASSUME NEW b \in Actions \ {a}, NEW q \in Rounds
        PROVE  listener'[<<b, q>>] = listener[<<b, q>>]
    BY <1>5 DEF Listeners
  <2>2. \A j \in Threads : \/ doing'[j] = doing[j]
                           \/ /\ doing[j] # None => doing[j][1][1] = a
                              /\ doing'[j] # None => doing'[j][1][1] = a
    BY <1>a, Zenon
  <2>3. \A b \in Actions \ {a} :
           /\ Times(jobQueue', b) = Times(jobQueue, b)
           /\ \A e \in Ends : Times(tdQueue', <<b, e>>) = Times(tdQueue, <<b, e>>)
    BY SameCounts
  <2>. QED  BY <2>1, <2>2, <2>3 DEF Concerns
<1>16. ASSUME NEW j \in Threads, doing'[j] # None, doing'[j][1][1] = a PROVE DoingOK(j)'
  <2>1. j = i /\ doing'[i] # None
    BY <1>12, <1>16
  <2>2. /\ doing'[i] = <<Current(a), IF listener'[Current(a)].errors > 0
                                     THEN "doFailures" ELSE "doReady">>
        /\ listener'[Current(a)].operation = 0 /\ listener'[Current(a)].enabled
    BY <1>11, <2>1
  <2>3. /\ doing'[i][1] = Current(a) /\ doing'[i][1][1] = a
        /\ doing'[i][2] = (IF listener'[Current(a)].errors > 0 THEN "doFailures" ELSE "doReady")
    BY <1>a, <2>1, Zenon
  <2>. QED  BY <1>5, <2>1, <2>2, <2>3 DEF DoingOK
<1>17. ASSUME NEW b \in Actions PROVE Occupied(b)'
  <2>1. Occupied(b) /\ Occupied(a) /\ runner[b].by \in Threads \cup {None}
        /\ runner[a].by \in Threads \cup {None}
    BY FieldFacts DEF LaunchInv
  <2>2. CASE b = a
    BY <1>5, <1>11, <2>1, <2>2 DEF Occupied
  <2>3. CASE b # a
    BY <1>5, <1>11, <2>1, <2>3 DEF Occupied
  <2>. QED  BY <2>2, <2>3
<1>. QED  BY <1>7, <1>8, <1>9, <1>14, <1>15, <1>16, <1>17, LaunchStep DEF LaunchOK

\* How many operations and errors the listener of the last round has room for.
LEMMA RoomLeft ==
    ASSUME Types, CopyInv, LaunchInv, NEW a \in Actions, action[a].round # 0
    PROVE  /\ Current(a) \in Listeners
           /\ listener[Current(a)] \in ListenerFields
           /\ listener[Current(a)].operation \in Nat /\ listener[Current(a)].errors \in Nat
           /\ (listener[Current(a)].enabled <=> runner[a].by = None)
           /\ Cardinality(Data) \in Nat /\ Cardinality(runner[a].left) \in Nat
           /\ listener[Current(a)].operation + listener[Current(a)].errors
                + Cardinality(runner[a].left) <= Cardinality(Data)
<1>1. action[a].round \in Rounds /\ Current(a) \in Listeners
      /\ Current(a) = <<a, action[a].round>>
  BY RoundFacts DEF Current
<1>2. RoundsOK(a)
  BY DEF LaunchInv, LaunchOK
<1>3. /\ listener[Current(a)] \in ListenerFields
      /\ listener[Current(a)].operation \in Nat /\ listener[Current(a)].errors \in Nat
  BY <1>1, CountingListener, FieldFacts
<1>4. Cardinality(Data) \in Nat /\ Cardinality(runner[a].left) \in Nat
  <2>1. runner[a].left \in SUBSET Data
    BY FieldFacts
  <2>. QED  BY <2>1, FiniteAssumption, FS_Subset, FS_CardinalityType
<1>5. listener[Current(a)].operation + listener[Current(a)].errors
        + Cardinality(runner[a].left) <= Cardinality(Data)
  BY <1>1, <1>2 DEF RoundsOK
<1>6. listener[Current(a)].enabled <=> runner[a].by = None
  BY <1>1, <1>2 DEF RoundsOK
<1>. QED  BY <1>1, <1>3, <1>4, <1>5, <1>6

\* A transfer is ordered.
LEMMA TransferJobDataLaunch ==
    ASSUME JobInv, Types', NEW a \in Actions, TransferJobData(a)
    PROVE  LaunchInv'
<1>0. Types /\ CopyInv /\ LaunchInv
  BY DEF JobInv
<1>1. PICK d \in runner[a].left : runner' = [runner EXCEPT ![a].left = @ \ {d}]
  BY DEF TransferJobData
<1>2. /\ listener' = [listener EXCEPT ![Current(a)].operation = @ + 1]
      /\ UNCHANGED <<mode, action, tgtLoc, doing, jobQueue, onWorker, tdQueue>>
  BY DEF TransferJobData, jobVars
<1>3. RoundsOK(a) /\ Occupied(a)
  BY <1>0 DEF LaunchInv, LaunchOK
<1>4. runner[a].by # None /\ action[a].round # 0 /\ runner[a].left \in SUBSET Data
      /\ runner[a].by \in Threads
  BY <1>0, <1>1, <1>3, FieldFacts DEF RoundsOK
<1>5. PICK i \in Threads : i = runner[a].by
  BY <1>4
<1>6. /\ Current(a) \in Listeners
      /\ listener[Current(a)] \in ListenerFields
      /\ listener[Current(a)].operation \in Nat /\ listener[Current(a)].errors \in Nat
      /\ ~ listener[Current(a)].enabled
      /\ Cardinality(Data) \in Nat /\ Cardinality(runner[a].left) \in Nat
      /\ listener[Current(a)].operation + listener[Current(a)].errors
           + Cardinality(runner[a].left) <= Cardinality(Data)
  BY <1>0, <1>4, RoomLeft
<1>7. /\ runner'[a].by = i /\ runner'[a].left = runner[a].left \ {d}
      /\ \A b \in Actions \ {a} : runner'[b] = runner[b]
  <2>1. runner \in [Actions -> [by : Threads \cup {None}, left : SUBSET Data]]
    BY <1>0 DEF Types
  <2>. QED  BY <1>1, <1>5, <2>1
<1>8. /\ listener'[Current(a)].operation = listener[Current(a)].operation + 1
      /\ listener'[Current(a)].errors = listener[Current(a)].errors
      /\ listener'[Current(a)].enabled = listener[Current(a)].enabled
      /\ \A l \in Listeners \ {Current(a)} : listener'[l] = listener[l]
  <2>1. listener \in [Listeners -> ListenerFields]
    BY <1>0 DEF Types
  <2>2. PICK l0 \in Listeners : l0 = Current(a)
    BY <1>6
  <2>3. listener'[l0] = [listener[l0] EXCEPT !.operation = listener[l0].operation + 1]
        /\ \A l \in Listeners \ {l0} : listener'[l] = listener[l]
    BY <1>2, <2>1, <2>2
  <2>4. listener[l0] \in ListenerFields
    BY <2>1
  <2>5. /\ listener'[l0].operation = listener[l0].operation + 1
        /\ listener'[l0].errors = listener[l0].errors
        /\ listener'[l0].enabled = listener[l0].enabled
    BY <2>3, <2>4 DEF ListenerFields
  <2>. QED  BY <2>2, <2>3, <2>5
<1>9. Cardinality(runner'[a].left) = Cardinality(runner[a].left) - 1
  <2>1. IsFiniteSet(runner[a].left)
    BY <1>4, FiniteAssumption, FS_Subset
  <2>. QED  BY <1>7, <2>1, FS_RemoveElement
<1>10. listener'[Current(a)].operation + listener'[Current(a)].errors
         + Cardinality(runner'[a].left) <= Cardinality(Data)
  BY <1>6, <1>8, <1>9
<1>11. i # None /\ doing[i] = None /\ \A b \in Actions \ {a} : runner[b].by # i
  BY <1>3, <1>4, <1>5 DEF Occupied
<1>12. listener'[Current(a)].operation \in Nat
  BY <1>6, <1>8
<1>13. doing'[i] = IF runner'[a].by # None THEN None
                   ELSE Verdict(Current(a), listener'[Current(a)].operation,
                                listener'[Current(a)].errors, TRUE)
  BY <1>2, <1>7, <1>11
<1>14. listener'[Current(a)].enabled <=> runner'[a].by = None
  BY <1>6, <1>7, <1>8, <1>11
<1>15. /\ \A b \in Actions \ {a} : runner'[b] = runner[b] /\ runner[b].by # i
       /\ runner'[a].by # None => runner'[a].by = runner[a].by
       /\ runner'[a].by = None => runner'[a].left = {}
  BY <1>5, <1>7, <1>11
<1>16. \A j \in Threads \ {i} : doing'[j] = doing[j]
  BY <1>2
<1>. QED  BY <1>0, <1>2, <1>4, <1>8, <1>10, <1>11, <1>12, <1>13, <1>14, <1>15, <1>16,
             TransfersGoOn

\* All the transfers are ordered: the listener is enabled.
LEMMA EnableLaunch ==
    ASSUME JobInv, Types', NEW a \in Actions, Enable(a)
    PROVE  LaunchInv'
<1>0. Types /\ CopyInv /\ LaunchInv
  BY DEF JobInv
<1>1. /\ runner[a].by # None /\ runner[a].left = {}
      /\ listener' = [listener EXCEPT ![Current(a)].enabled = TRUE]
      /\ doing' = [doing EXCEPT
             ![runner[a].by] = Verdict(Current(a), listener[Current(a)].operation,
                                       listener[Current(a)].errors, TRUE)]
      /\ runner' = [runner EXCEPT ![a] = NoRunner]
      /\ UNCHANGED <<mode, action, tgtLoc, jobQueue, onWorker, tdQueue>>
  BY DEF Enable, jobVars
<1>2. RoundsOK(a) /\ Occupied(a)
  BY <1>0 DEF LaunchInv, LaunchOK
<1>3. runner[a].by \in Threads /\ action[a].round # 0
  BY <1>0, <1>1, FieldFacts, RoundFacts
<1>4. PICK i \in Threads : i = runner[a].by
  BY <1>3
<1>5. /\ Current(a) \in Listeners
      /\ listener[Current(a)].operation \in Nat /\ listener[Current(a)].errors \in Nat
      /\ listener[Current(a)].operation + listener[Current(a)].errors
           + Cardinality(runner[a].left) <= Cardinality(Data)
  BY <1>0, <1>3, RoomLeft
<1>6. /\ runner'[a].by = None /\ runner'[a].left = {}
      /\ \A b \in Actions \ {a} : runner'[b] = runner[b]
  <2>1. runner \in [Actions -> [by : Threads \cup {None}, left : SUBSET Data]]
    BY <1>0 DEF Types
  <2>. QED  BY <1>1, <2>1 DEF NoRunner
<1>7. /\ listener'[Current(a)].operation = listener[Current(a)].operation
      /\ listener'[Current(a)].errors = listener[Current(a)].errors
      /\ listener'[Current(a)].enabled = TRUE
      /\ \A l \in Listeners \ {Current(a)} : listener'[l] = listener[l]
  <2>1. listener \in [Listeners -> ListenerFields]
    BY <1>0 DEF Types
  <2>2. PICK l0 \in Listeners : l0 = Current(a)
    BY <1>5
  <2>3. listener'[l0] = [listener[l0] EXCEPT !.enabled = TRUE]
        /\ \A l \in Listeners \ {l0} : listener'[l] = listener[l]
    BY <1>1, <2>1, <2>2
  <2>4. listener[l0] \in ListenerFields
    BY <2>1
  <2>5. /\ listener'[l0].operation = listener[l0].operation
        /\ listener'[l0].errors = listener[l0].errors
        /\ listener'[l0].enabled = TRUE
    BY <2>3, <2>4 DEF ListenerFields
  <2>. QED  BY <2>2, <2>3, <2>5
<1>8. listener'[Current(a)].operation + listener'[Current(a)].errors
        + Cardinality(runner'[a].left) <= Cardinality(Data)
  BY <1>1, <1>5, <1>6, <1>7
<1>9. doing[i] = None /\ \A b \in Actions \ {a} : runner[b].by # i
  BY <1>1, <1>2, <1>4 DEF Occupied
<1>10. /\ doing'[i] = Verdict(Current(a), listener[Current(a)].operation,
                              listener[Current(a)].errors, TRUE)
       /\ \A j \in Threads \ {i} : doing'[j] = doing[j]
  <2>1. doing \in [Threads -> {None} \cup (Listeners \X Reactions)]
    BY <1>0 DEF Types
  <2>2. PICK v : v = Verdict(Current(a), listener[Current(a)].operation,
                             listener[Current(a)].errors, TRUE)
    OBVIOUS
  <2>3. doing' = [doing EXCEPT ![i] = v]
    BY <1>1, <1>4, <2>2, Zenon
  <2>4. doing'[i] = v /\ \A j \in Threads \ {i} : doing'[j] = doing[j]
    BY <2>1, <2>3
  <2>. QED  BY <2>2, <2>4, Zenon
<1>11. doing'[i] = IF runner'[a].by # None THEN None
                   ELSE Verdict(Current(a), listener'[Current(a)].operation,
                                listener'[Current(a)].errors, TRUE)
  BY <1>6, <1>7, <1>10, Zenon
<1>12. /\ listener'[Current(a)].operation \in Nat
       /\ (listener'[Current(a)].enabled <=> runner'[a].by = None)
  BY <1>5, <1>6, <1>7
<1>13. /\ \A b \in Actions \ {a} : runner'[b] = runner[b] /\ runner[b].by # i
       /\ runner'[a].by # None => runner'[a].by = runner[a].by
       /\ runner'[a].by = None => runner'[a].left = {}
  BY <1>6, <1>9
<1>. QED  BY <1>0, <1>1, <1>7, <1>8, <1>9, <1>10, <1>11, <1>12, <1>13, TransfersGoOn

\* A listener is notified of the end of a transfer.
LEMMA NotifyLaunch ==
    ASSUME JobInv, Types', NEW i \in Pool, NotifyListener(i)
    PROVE  LaunchInv'
<1>0. Types /\ CopyInv /\ LaunchInv
  BY DEF JobInv
<1>1. copy[i].notify \in Seq(Listeners) /\ copy[i].notify # << >> /\ copy[i].step = "notify"
      /\ Free(i)
  BY <1>0, FieldFacts DEF NotifyListener
<1>2. Head(copy[i].notify) \in Listeners /\ In(copy[i].notify, Head(copy[i].notify))
  BY <1>1, InFacts
<1>3. PICK l \in Listeners : l = Head(copy[i].notify) /\ In(copy[i].notify, l)
  BY <1>2
<1>4. Tells(i, l)
  BY <1>1, <1>3 DEF Tells
<1>5. /\ listener[l].operation \in Nat /\ listener[l].operation > 0
      /\ action[l[1]].round # 0 /\ l = Current(l[1])
  BY <1>0, <1>4, CountingListener
<1>6. l[1] \in Actions
  BY DEF Listeners
<1>7. PICK a \in Actions : a = l[1]
  BY <1>6
<1>8. l = Current(a) /\ action[a].round # 0
  BY <1>5, <1>7
<1>9. PICK x \in {0, 1} : x = IF copy[i].outcome = "ok" THEN 0 ELSE 1
  OBVIOUS
<1>10. /\ listener' = [listener EXCEPT ![l].operation = listener[l].operation - 1,
                                       ![l].errors = listener[l].errors + x]
       /\ doing' = [doing EXCEPT ![i] = Verdict(l, listener[l].operation - 1,
                                               listener[l].errors + x, listener[l].enabled)]
       /\ UNCHANGED <<mode, action, runner, tgtLoc, jobQueue, onWorker, tdQueue>>
  BY <1>3, <1>9, Zenon DEF NotifyListener, jobVars
<1>11. /\ listener[l] \in ListenerFields /\ listener[l].errors \in Nat
       /\ (listener[l].enabled <=> runner[a].by = None)
       /\ Cardinality(Data) \in Nat /\ Cardinality(runner[a].left) \in Nat
       /\ listener[l].operation + listener[l].errors
            + Cardinality(runner[a].left) <= Cardinality(Data)
  BY <1>0, <1>8, RoomLeft
<1>12. /\ listener'[l].operation = listener[l].operation - 1
       /\ listener'[l].errors = listener[l].errors + x
       /\ listener'[l].enabled = listener[l].enabled
       /\ \A m \in Listeners \ {l} : listener'[m] = listener[m]
  <2>1. listener \in [Listeners -> ListenerFields]
    BY <1>0 DEF Types
  <2>2. listener'[l] = [listener[l] EXCEPT !.operation = listener[l].operation - 1,
                                           !.errors = listener[l].errors + x]
        /\ \A m \in Listeners \ {l} : listener'[m] = listener[m]
    BY <1>10, <2>1
  <2>. QED  BY <1>11, <2>2 DEF ListenerFields
<1>13. i \in Threads /\ doing[i] = None /\ \A b \in Actions : runner[b].by # i
  BY <1>1 DEF Threads, Free
<1>14. /\ doing'[i] = Verdict(l, listener'[l].operation, listener'[l].errors, listener[l].enabled)
       /\ \A j \in Threads \ {i} : doing'[j] = doing[j]
  <2>1. doing \in [Threads -> {None} \cup (Listeners \X Reactions)]
    BY <1>0 DEF Types
  <2>2. PICK v : v = Verdict(l, listener[l].operation - 1, listener[l].errors + x,
                             listener[l].enabled)
    OBVIOUS
  <2>3. doing' = [doing EXCEPT ![i] = v]
    BY <1>10, <2>2, Zenon
  <2>4. doing'[i] = v /\ \A j \in Threads \ {i} : doing'[j] = doing[j]
    BY <1>13, <2>1, <2>3
  <2>. QED  BY <1>12, <2>2, <2>4, Zenon
<1>15. doing'[i] = IF runner'[a].by # None THEN None
                   ELSE Verdict(l, listener'[l].operation, listener'[l].errors, TRUE)
  <2>1. runner'[a] = runner[a]
    BY <1>10
  <2>2. CASE runner[a].by = None
    <3>1. listener[l].enabled = TRUE
      BY <1>11, <2>2 DEF ListenerFields
    <3>. QED  BY <1>14, <2>1, <2>2, <3>1, Zenon
  <2>3. CASE runner[a].by # None
    <3>1. listener[l].enabled = FALSE
      BY <1>11, <2>3 DEF ListenerFields
    <3>. QED  BY <1>14, <2>1, <2>3, <3>1 DEF Verdict
  <2>. QED  BY <2>2, <2>3
<1>16. listener'[l].operation + listener'[l].errors + Cardinality(runner'[a].left)
         <= Cardinality(Data)
       /\ listener'[l].operation \in Nat
  BY <1>5, <1>9, <1>10, <1>11, <1>12
<1>17. runner[a].by # None \/ Awaits(a)
  BY <1>5, <1>8, <1>11 DEF Awaits
<1>18. /\ \A b \in Actions \ {a} : runner'[b] = runner[b] /\ runner[b].by # i
       /\ runner'[a].by # None => runner'[a].by = runner[a].by
       /\ runner'[a].by = None => runner'[a].left = {}
       /\ (listener'[l].enabled <=> runner'[a].by = None)
  <2>1. RoundsOK(a)
    BY <1>0 DEF LaunchInv, LaunchOK
  <2>. QED  BY <1>10, <1>11, <1>12, <1>13, <2>1 DEF RoundsOK
<1>19. /\ \A m \in Listeners \ {Current(a)} : listener'[m] = listener[m]
       /\ listener'[Current(a)].operation \in Nat
       /\ (listener'[Current(a)].enabled <=> runner'[a].by = None)
       /\ listener'[Current(a)].operation + listener'[Current(a)].errors
            + Cardinality(runner'[a].left) <= Cardinality(Data)
       /\ doing'[i] = IF runner'[a].by # None THEN None
                      ELSE Verdict(Current(a), listener'[Current(a)].operation,
                                   listener'[Current(a)].errors, TRUE)
  BY <1>8, <1>12, <1>15, <1>16, <1>18, Zenon
<1>. QED  BY <1>0, <1>10, <1>13, <1>14, <1>17, <1>18, <1>19, TransfersGoOn

\* A step that does not concern the launches.
LEMMA SameLaunches ==
    ASSUME LaunchInv, UNCHANGED <<mode, action, listener, runner, tgtLoc, doing, jobQueue,
                                  onWorker, tdQueue>>
    PROVE  LaunchInv'
<1>1. Actions' = Actions /\ \A a : Current(a)' = Current(a)
  BY SameSets DEF Current
<1>2. ASSUME NEW a \in Actions PROVE Occupied(a)' /\ LaunchOK(a)'
  <2>1. Occupied(a) /\ LaunchOK(a)
    BY DEF LaunchInv
  <2>2. Occupied(a)'
    BY <1>1, <2>1 DEF Occupied
  <2>3. RoundsOK(a)' /\ Submitted(a)'
    BY <1>1, <2>1 DEF LaunchOK, RoundsOK, Submitted, Times
  <2>4. BoundsOK(a)'
    BY <1>1, <2>1 DEF LaunchOK, BoundsOK, Transferring, Doers, Awaits, Times
  <2>5. Carriers(a)' = Carriers(a)
    BY <1>1 DEF Carriers, Times, One
  <2>6. One(action[a].state = "running")' = One(action[a].state = "running")
    BY DEF One
  <2>7. Carried(a)'
    BY <2>1, <2>5, <2>6 DEF LaunchOK, Carried
  <2>. QED  BY <2>2, <2>3, <2>4, <2>7 DEF LaunchOK
<1>3. ASSUME NEW i \in Threads PROVE DoingOK(i)'
  BY <1>1 DEF LaunchInv, DoingOK
<1>. QED  BY <1>1, <1>2, <1>3 DEF LaunchInv

\* The pool only concerns the launches when a listener is notified.
LEMMA PoolLaunch ==
    ASSUME JobInv, Types', NEW i \in Pool, PoolStep(i)
    PROVE  LaunchInv'
<1>1. CASE NotifyListener(i)
  BY <1>1, NotifyLaunch
<1>2. CASE ~ NotifyListener(i)
  <2>1. UNCHANGED <<mode, action, transferVars, jobVars, tdQueue>>
    BY <1>2 DEF PoolStep, Dequeue, AlreadyAvailable, AlreadyCopying, StartCopy, CopySucceeds,
                CopyFails, Finally, EndOk, Notified
  <2>. QED  BY <2>1, SameLaunches DEF JobInv, transferVars, jobVars
<1>. QED  BY <1>1, <1>2

-----------------------------------------------------------------------------
(* The invariant *)

\* What is not a step of the pool leaves the copies alone, but for those that it orders.
LEMMA OtherCopies ==
    ASSUME JobInv, Types',
           \/ \E a \in Actions : ActionStep(a)
           \/ \E i \in Threads : ReactStep(i)
           \/ SubmitJob \/ SubmissionFails \/ TreatEnd
    PROVE  CopyInv'
<1>0. Types /\ CopyInv /\ LaunchInv
  BY DEF JobInv
<1>1. ASSUME NEW a \in Actions, NEW i, NEW fields, fields \in Fields,
             fields.round = action[a].round, DoInputTransfers(a, i, fields),
             UNCHANGED <<mode, listener, copyVars>>
      PROVE  CopyInv'
  BY <1>0, <1>1, NewRoundUnordered, SameCopies
<1>2. ASSUME UNCHANGED <<mode, copyVars>>,
             \A b \in Actions : action'[b].round = action[b].round
                                /\ runner'[b].left \subseteq runner[b].left,
             \A l \in Listeners : listener'[l].operation = listener[l].operation
      PROVE  CopyInv'
  BY <1>0, <1>2, SameRounds, SameCopies
<1>3. ASSUME UNCHANGED <<mode, copyVars, runner, listener>>,
             \A b \in Actions : action'[b].round = action[b].round
      PROVE  CopyInv'
  BY <1>2, <1>3
<1>4. ASSUME NEW a \in Actions, DoAction(a) PROVE CopyInv'
  <2>1. PICK w \in Workers :
          DoInputTransfers(a, TD, [action[a] EXCEPT !.state = "running", !.worker = w,
                                                    !.launches = @ + 1, !.transferErrors = 0,
                                                    !.executionErrors = 0])
    BY <1>4 DEF DoAction
  <2> DEFINE f == [action[a] EXCEPT !.state = "running", !.worker = w, !.launches = @ + 1,
                                    !.transferErrors = 0, !.executionErrors = 0]
  <2>2. action[a] \in Fields
    BY <1>0, FieldFacts
  <2>3. f \in Fields
    BY <2>2, RecordUpdates
  <2>4. f.round = action[a].round
    BY <2>2 DEF Fields
  <2>5. DoInputTransfers(a, TD, f)
    BY <2>1
  <2> HIDE DEF f
  <2>6. UNCHANGED <<mode, listener, copyVars>>
    BY <1>4 DEF DoAction
  <2>. QED  BY <1>1, <2>3, <2>4, <2>5, <2>6
<1>5. ASSUME NEW a \in Actions, Enable(a) PROVE CopyInv'
  <2>1. /\ listener' = [listener EXCEPT ![Current(a)].enabled = TRUE]
        /\ runner' = [runner EXCEPT ![a] = NoRunner]
        /\ UNCHANGED <<mode, action, copyVars>>
    BY <1>5 DEF Enable
  <2>2. \A b \in Actions : runner'[b].left \subseteq runner[b].left
    <3>1. runner \in [Actions -> [by : Threads \cup {None}, left : SUBSET Data]]
      BY <1>0 DEF Types
    <3>. QED  BY <2>1, <3>1 DEF NoRunner
  <2>3. ASSUME NEW l \in Listeners PROVE listener'[l].operation = listener[l].operation
    <3>1. listener \in [Listeners -> ListenerFields] /\ listener[l] \in ListenerFields
      BY <1>0 DEF Types
    <3>2. listener'[l] = listener[l] \/ listener'[l] = [listener[l] EXCEPT !.enabled = TRUE]
      BY <2>1, <3>1
    <3>. QED  BY <3>1, <3>2 DEF ListenerFields
  <2>. QED  BY <1>2, <2>1, <2>2, <2>3
<1>6. ASSUME NEW a \in Actions, CompletedJob(a) PROVE CopyInv'
  BY <1>3, <1>6 DEF CompletedJob, transferVars
<1>7. ASSUME NEW a \in Actions, JobFails(a) PROVE CopyInv'
  <2>1. FailedJob(a, jobQueue) /\ UNCHANGED <<mode, copyVars, runner, listener>>
    BY <1>7 DEF JobFails, transferVars
  <2>2. \A b \in Actions : action'[b].round = action[b].round
    BY <1>0, <2>1, FailedJobFields
  <2>. QED  BY <1>3, <2>1, <2>2
<1>8. ASSUME NEW i \in Threads, DoSubmit(i) PROVE CopyInv'
  BY <1>3, <1>8 DEF DoSubmit
<1>9. ASSUME NEW i \in Threads, FailedTransfers(i) PROVE CopyInv'
  <2>1. doing[i] # None /\ UNCHANGED <<mode, listener, copyVars>>
    BY <1>9 DEF FailedTransfers
  <2>2. PICK a \in Actions : a = doing[i][1][1]
    BY <1>0, <2>1, ReactionFacts
  <2> DEFINE f == [action[a] EXCEPT !.transferErrors = @ + 1]
  <2>3. \/ DoInputTransfers(a, i, f)
        \/ action' = [action EXCEPT ![a] = f] /\ UNCHANGED <<runner, tgtLoc>>
    BY <1>9, <2>2 DEF FailedTransfers
  <2>4. action[a] \in Fields /\ action \in [Actions -> Fields]
    BY <1>0, FieldFacts DEF Types
  <2>5. f \in Fields
    BY <2>4, RecordUpdates
  <2>6. f.round = action[a].round
    BY <2>4 DEF Fields
  <2> HIDE DEF f
  <2>7. CASE DoInputTransfers(a, i, f)
    BY <1>1, <2>1, <2>5, <2>6, <2>7
  <2>8. CASE action' = [action EXCEPT ![a] = f] /\ UNCHANGED <<runner, tgtLoc>>
    <3>1. \A b \in Actions : action'[b].round = action[b].round
      BY <2>4, <2>6, <2>8
    <3>. QED  BY <1>3, <2>1, <2>8, <3>1
  <2>. QED  BY <2>3, <2>7, <2>8
<1>10. CASE SubmitJob
  BY <1>3, <1>10 DEF SubmitJob, transferVars
<1>11. CASE SubmissionFails
  <2>1. /\ jobQueue # << >> /\ FailedJob(Head(jobQueue), Tail(jobQueue))
        /\ UNCHANGED <<mode, copyVars, runner, listener>>
    BY <1>11 DEF SubmissionFails, transferVars
  <2>2. jobQueue \in Seq(Actions)
    BY <1>0 DEF Types
  <2>3. PICK a \in Actions : a = Head(jobQueue)
    BY <2>1, <2>2
  <2>4. FailedJob(a, Tail(jobQueue))
    BY <2>1, <2>3
  <2>5. \A b \in Actions : action'[b].round = action[b].round
    BY <1>0, <2>4, FailedJobFields
  <2>. QED  BY <1>3, <2>1, <2>5
<1>12. CASE TreatEnd
  <2>1. UNCHANGED <<mode, copyVars, runner, listener>>
    BY <1>12 DEF TreatEnd, transferVars
  <2>2. \A b \in Actions : action'[b].round = action[b].round
    BY <1>0, <1>12, TreatEndFields
  <2>. QED  BY <1>3, <2>1, <2>2
<1>13. ASSUME NEW a \in Actions, TransferJobData(a) PROVE CopyInv'
  BY <1>13, TransferJobDataCopies
<1>. QED  BY <1>4, <1>5, <1>6, <1>7, <1>8, <1>9, <1>10, <1>11, <1>12, <1>13
          DEF ActionStep, ReactStep

\* Every step keeps the invariant.
LEMMA NextJobInv ==
    ASSUME JobInv, [Next]_vars
    PROVE  JobInv'
<1>1. CASE UNCHANGED vars
  <2>1. /\ UNCHANGED <<mode, action, listener, runner, tgtLoc, doing, jobQueue, onWorker, tdQueue>>
        /\ UNCHANGED <<mode, copyVars>>
    BY <1>1 DEF vars, transferVars, jobVars
  <2>2. UNCHANGED <<copyQueue, copy, opListeners, endState, inProgress, located, present>>
    BY <2>1 DEF copyVars
  <2>3. Actions' = Actions /\ Listeners' = Listeners /\ Ops' = Ops /\ CopyFields' = CopyFields
    BY <2>1, SameSets
  <2>4. LaunchInv'
    BY <2>1, SameLaunches DEF JobInv
  <2>5. CopyInv'
    <3>1. \A op \in Ops : Unordered(op)' => Unordered(op)
      BY <2>1 DEF Unordered
    <3>. QED  BY <2>1, <3>1, SameCopies DEF JobInv
  <2>6. Types' /\ LocationsOK'
    BY <2>1, <2>2, <2>3 DEF JobInv, Types, LocationsOK
  <2>. QED  BY <2>4, <2>5, <2>6 DEF JobInv
<1>2. CASE Next
  <2>1. Types' /\ LocationsOK'
    BY <1>2, NextTypes
  <2>2. ASSUME NEW a \in Actions, ActionStep(a) PROVE CopyInv' /\ LaunchInv'
    <3>1. CopyInv'
      BY <2>1, <2>2, OtherCopies
    <3>2. LaunchInv'
      BY <2>1, <2>2, DoActionLaunch, TransferJobDataLaunch, EnableLaunch, JobsLaunch
      DEF ActionStep
    <3>. QED  BY <3>1, <3>2
  <2>3. ASSUME NEW i \in Threads, ReactStep(i) PROVE CopyInv' /\ LaunchInv'
    <3>1. CopyInv'
      BY <2>1, <2>3, OtherCopies
    <3>2. LaunchInv'
      BY <2>1, <2>3, DoSubmitLaunch, FailedTransfersLaunch DEF ReactStep
    <3>. QED  BY <3>1, <3>2
  <2>4. ASSUME NEW i \in Pool, PoolStep(i) PROVE CopyInv' /\ LaunchInv'
    BY <2>1, <2>4, PoolCopies, PoolLaunch
  <2>5. ASSUME SubmitJob \/ SubmissionFails \/ TreatEnd PROVE CopyInv' /\ LaunchInv'
    BY <2>1, <2>5, OtherCopies, JobsLaunch
  <2>. QED  BY <1>2, <2>1, <2>2, <2>3, <2>4, <2>5 DEF Next, JobInv
<1>. QED  BY <1>1, <1>2

\* At the beginning every copy is still to be ordered, and every execution waits for its launch.
LEMMA InitJobInv ==
    ASSUME Init
    PROVE  JobInv
<1>1. /\ mode \in Modes
      /\ action = [a \in Actions |-> [state |-> "ready", worker |-> None, launches |-> 0,
                                      transferErrors |-> 0, executionErrors |-> 0, round |-> 0]]
      /\ listener = [l \in Listeners |-> [operation |-> 0, errors |-> 0, enabled |-> FALSE]]
      /\ runner = [a \in Actions |-> NoRunner]
      /\ tgtLoc = [l \in Listeners |-> None] /\ doing = [i \in Threads |-> None]
      /\ copyQueue = << >> /\ copy = [i \in Pool |-> NoCopy]
      /\ opListeners = [op \in Ops |-> << <<op[1], op[2]>> >>]
      /\ endState = [op \in Ops |-> "null"] /\ inProgress = {}
      /\ located = [d \in Data |-> {}] /\ present = [d \in Data |-> {}]
      /\ jobQueue = << >> /\ onWorker = [a \in Actions |-> 0] /\ tdQueue = << >>
  BY DEF Init
<1>2. \A op \in Ops : op[1] \in Actions /\ op[2] \in Rounds /\ op[3] \in Data
                      /\ <<op[1], op[2]>> \in Listeners
  BY DEF Ops, Listeners
<1>3. Types /\ LocationsOK
  <2>1. \A S : << >> \in Seq(S)
    BY EmptySeq
  <2>2. action \in [Actions -> Fields]
    BY <1>1 DEF Fields, States
  <2>3. listener \in [Listeners -> ListenerFields]
    BY <1>1 DEF ListenerFields
  <2>4. runner \in [Actions -> [by : Threads \cup {None}, left : SUBSET Data]]
    BY <1>1 DEF NoRunner
  <2>5. copy \in [Pool -> CopyFields]
    BY <1>1, <2>1 DEF CopyFields, NoCopy, Steps, Outcomes
  <2>6. opListeners \in [Ops -> Seq(Listeners)]
    BY <1>1, <1>2
  <2>7. endState \in [Ops -> Outcomes]
    BY <1>1 DEF Outcomes
  <2>. QED  BY <1>1, <2>1, <2>2, <2>3, <2>4, <2>5, <2>6, <2>7 DEF Types, LocationsOK
<1>4. \A i \in Pool : copy[i].step = "idle"
  BY <1>1 DEF NoCopy
<1>5. \A x : ~ In(copyQueue, x)
  BY <1>1 DEF In
<1>6. CopyInv
  <2>1. PlacesDistinct
    BY <1>1, <1>4, <1>5 DEF PlacesDistinct, Distinct
  <2>2. \A i \in Pool : CopyOK(i)
    BY <1>4 DEF CopyOK
  <2>3. ASSUME NEW op \in Ops PROVE OpOK(op)
    <3>1. \A x \in Ops : opListeners[x] = << Own(x) >>
      BY <1>1 DEF Own
    <3>2. Distinct(opListeners[op])
      BY <3>1 DEF Distinct
    <3>3. \A x \in Ops : x # op /\ x[3] = op[3] => ~ In(opListeners[x], Own(op))
      <4>1. \A x \in Ops : Own(x) = Own(op) /\ x[3] = op[3] => x = op
        BY <1>3, OpFacts
      <4>2. \A x \in Ops : In(opListeners[x], Own(op)) => Own(x) = Own(op)
        BY <3>1 DEF In
      <4>. QED  BY <4>1, <4>2
    <3>. QED  BY <1>1, <1>5, <3>1, <3>2, <3>3 DEF OpOK, Untouched
  <2>4. ASSUME NEW l \in Listeners PROVE Counted(l)
    <3>1. Positions(copyQueue, OpsOf(l)) = {}
      BY <1>1 DEF Positions
    <3>2. Tellers(l) = {}
      BY <1>4 DEF Tellers, Tells
    <3>3. Cardinality({}) = 0 /\ listener[l].operation = 0
      BY <1>1, FS_EmptySet
    <3>. QED  BY <3>1, <3>2, <3>3 DEF Counted
  <2>. QED  BY <2>1, <2>2, <2>3, <2>4 DEF CopyInv
<1>7. LaunchInv
  <2>1. ASSUME NEW a \in Actions PROVE Occupied(a) /\ LaunchOK(a)
    <3>1. /\ action[a].state = "ready" /\ action[a].launches = 0
          /\ action[a].transferErrors = 0 /\ action[a].executionErrors = 0
          /\ action[a].round = 0 /\ runner[a].by = None /\ runner[a].left = {}
          /\ onWorker[a] = 0
      BY <1>1 DEF NoRunner
    <3>2. Doers(a) = {} /\ ~ Awaits(a)
      BY <1>1, <3>1 DEF Doers, Awaits
    <3>3. Times(jobQueue, a) = 0 /\ \A x : Times(tdQueue, x) = 0
      <4>1. \A x : Times(<< >>, x) = 0
        <5>1. \A x : {k \in 1 .. Len(<< >>) : << >>[k] = x} = {}
          OBVIOUS
        <5>. QED  BY <5>1, FS_EmptySet DEF Times
      <4>. QED  BY <1>1, <4>1
    <3>4. Occupied(a)
      BY <3>1 DEF Occupied
    <3>5. RoundsOK(a)
      <4>1. ASSUME NEW q \in Rounds
            PROVE  /\ listener[<<a, q>>] = [operation |-> 0, errors |-> 0, enabled |-> FALSE]
                   /\ q \in Nat /\ q > 0
                   /\ Cardinality(Data) \in Nat /\ Cardinality({}) = 0
        <5>1. <<a, q>> \in Listeners
          BY DEF Listeners
        <5>2. q \in Nat /\ q > 0
          BY ChancesFacts DEF Rounds
        <5>. QED  BY <1>1, <5>1, <5>2, FiniteAssumption, FS_EmptySet, FS_CardinalityType
      <4>. QED  BY <3>1, <4>1 DEF RoundsOK
    <3>6. BoundsOK(a)
      <4>1. ~ Transferring(a) /\ ~ (Times(jobQueue, a) + onWorker[a] > 0)
        BY <3>1, <3>2, <3>3 DEF Transferring
      <4>2. /\ 0 < SCHEDULING_CHANCES /\ 0 <= SCHEDULING_CHANCES /\ 0 <= TRANSFER_CHANCES
            /\ 0 <= SUBMISSION_CHANCES /\ 0 <= 0 * TRANSFER_CHANCES
        BY ChancesFacts
      <4>. QED  BY <3>1, <4>1, <4>2 DEF BoundsOK
    <3>7. Submitted(a)
      BY <3>1, <3>3 DEF Submitted
    <3>8. Carried(a)
      <4>1. One(runner[a].by # None) = 0 /\ One(Awaits(a)) = 0
            /\ One(action[a].state = "running") = 0
        BY <3>1, <3>2 DEF One
      <4>2. Cardinality(Doers(a)) = 0
        BY <3>2, FS_EmptySet
      <4>3. Carriers(a) = One(runner[a].by # None) + Cardinality(Doers(a)) + One(Awaits(a))
                          + Times(jobQueue, a) + onWorker[a]
                          + Times(tdQueue, <<a, "completed">>) + Times(tdQueue, <<a, "error">>)
        BY <1>3, CarriersFacts, Zenon
      <4>4. Carriers(a) = 0 + 0 + 0 + 0 + 0 + 0 + 0
        BY <3>1, <3>3, <4>1, <4>2, <4>3, Zenon
      <4>. QED  BY <4>1, <4>4 DEF Carried
    <3>. QED  BY <3>4, <3>5, <3>6, <3>7, <3>8 DEF LaunchOK
  <2>2. \A i \in Threads : DoingOK(i)
    BY <1>1 DEF DoingOK
  <2>. QED  BY <2>1, <2>2 DEF LaunchInv
<1>. QED  BY <1>3, <1>6, <1>7 DEF JobInv

\* The invariant holds in every behaviour.
LEMMA JobInvAlways == Spec => []JobInv
<1>1. Init => JobInv
  BY InitJobInv
<1>2. JobInv /\ [Next]_vars => JobInv'
  BY NextJobInv
<1>. QED  BY <1>1, <1>2, PTL DEF Spec

-----------------------------------------------------------------------------
(* The theorems *)

\* ExecutionAction counts its launches and its errors within their chances, and
\* JobTransfersListener never counts its operations below zero.
THEOREM TypeCorrect == Spec => []TypeOK
<1>1. JobInv => TypeOK
  <2> SUFFICES ASSUME JobInv PROVE TypeOK
    OBVIOUS
  <2>0. Types /\ CopyInv /\ LaunchInv /\ LocationsOK
    BY DEF JobInv
  <2>1. ASSUME NEW a \in Actions
        PROVE  action[a] \in [state : {"ready", "running", "completed", "failed"},
                              worker : Workers \cup {None},
                              launches : 0 .. SCHEDULING_CHANCES,
                              transferErrors : 0 .. TRANSFER_CHANCES,
                              executionErrors : 0 .. SUBMISSION_CHANCES,
                              round : {0} \cup Rounds]
    <3>1. BoundsOK(a)
      BY <2>0 DEF LaunchInv, LaunchOK
    <3>2. /\ action[a] \in Fields /\ action[a].launches \in Nat
          /\ action[a].transferErrors \in Nat /\ action[a].executionErrors \in Nat
      BY <2>0, FieldFacts
    <3>3. action[a].round \in {0} \cup Rounds
      BY <2>0, RoundFacts
    <3>4. /\ action[a].launches \in 0 .. SCHEDULING_CHANCES
          /\ action[a].transferErrors \in 0 .. TRANSFER_CHANCES
          /\ action[a].executionErrors \in 0 .. SUBMISSION_CHANCES
      BY <3>1, <3>2, ChancesFacts DEF BoundsOK
    <3>. QED  BY <3>2, <3>3, <3>4 DEF Fields, States
  <2>2. ASSUME NEW l \in Listeners
        PROVE  listener[l] \in [operation : 0 .. Cardinality(Data),
                                errors : 0 .. Cardinality(Data), enabled : BOOLEAN]
    <3>1. PICK a \in Actions, q \in Rounds : l = <<a, q>>
      BY DEF Listeners
    <3>2. RoundsOK(a) /\ runner[a].left \in SUBSET Data
      BY <2>0, FieldFacts DEF LaunchInv, LaunchOK
    <3>3. /\ listener[l] \in ListenerFields /\ listener[l].operation \in Nat
          /\ listener[l].errors \in Nat
      BY <2>0, FieldFacts, CountingListener
    <3>4. Cardinality(Data) \in Nat /\ Cardinality(runner[a].left) \in Nat
      BY <3>2, FiniteAssumption, FS_Subset, FS_CardinalityType
    <3>5. PICK n \in Nat : n = IF q = action[a].round THEN Cardinality(runner[a].left) ELSE 0
      BY <3>4
    <3>6. listener[l].operation + listener[l].errors + n <= Cardinality(Data)
      BY <3>1, <3>2, <3>5 DEF RoundsOK
    <3>7. /\ listener[l].operation \in 0 .. Cardinality(Data)
          /\ listener[l].errors \in 0 .. Cardinality(Data)
      BY <3>3, <3>4, <3>6
    <3>. QED  BY <3>3, <3>7 DEF ListenerFields
  <2>3. /\ DOMAIN action = Actions /\ DOMAIN listener = Listeners
        /\ action \in [Actions -> Fields] /\ listener \in [Listeners -> ListenerFields]
    BY <2>0 DEF Types
  <2>4. action \in [Actions -> [state : {"ready", "running", "completed", "failed"},
                                worker : Workers \cup {None},
                                launches : 0 .. SCHEDULING_CHANCES,
                                transferErrors : 0 .. TRANSFER_CHANCES,
                                executionErrors : 0 .. SUBMISSION_CHANCES,
                                round : {0} \cup Rounds]]
    BY <2>1, <2>3, Zenon
  <2>5. listener \in [Listeners -> [operation : 0 .. Cardinality(Data),
                                    errors : 0 .. Cardinality(Data), enabled : BOOLEAN]]
    BY <2>2, <2>3, Zenon
  <2>. QED  BY <2>0, <2>4, <2>5, Zenon DEF Types, LocationsOK, TypeOK
<1>. QED  BY <1>1, JobInvAlways, PTL

\* The last transfer (notifyEnd) and enable never both submit the job of an execution and
\* never both leave it, a retry never runs beside what it retries, and no end comes twice.
THEOREM OneCarrierAlways == Spec => []OneCarrier
<1>1. JobInv => OneCarrier
  BY DEF JobInv, LaunchInv, LaunchOK, Carried, OneCarrier
<1>. QED  BY <1>1, JobInvAlways, PTL

\* The operations that JobTransfersListener counts are the copies that will notify it, also
\* those that joined another copy or were found done.
THEOREM ListenersCountedAlways == Spec => []ListenersCounted
<1>1. JobInv => ListenersCounted
  <2> SUFFICES ASSUME JobInv, NEW l \in Listeners
               PROVE  listener[l].operation =
                        Cardinality({k \in 1 .. Len(copyQueue) : Own(copyQueue[k]) = l})
                        + Cardinality({i \in Pool : WillNotify(i, l)})
    BY DEF ListenersCounted
  <2>0. Types /\ CopyInv
    BY DEF JobInv
  <2>1. {k \in 1 .. Len(copyQueue) : Own(copyQueue[k]) = l} = Positions(copyQueue, OpsOf(l))
    <3>1. copyQueue \in Seq(Ops)
      BY <2>0 DEF Types
    <3>2. \A k \in 1 .. Len(copyQueue) : copyQueue[k] \in Ops
      BY <3>1, ElementOfSeq
    <3>. QED  BY <3>2 DEF Positions, OpsOf
  <2>2. ASSUME NEW i \in Pool PROVE WillNotify(i, l) <=> Tells(i, l)
    <3>1. copy[i].notify \in Seq(Listeners)
      BY <2>0, FieldFacts
    <3>2. Times(copy[i].notify, l) > 0 <=> In(copy[i].notify, l)
      BY <3>1, TimesFacts
    <3>3. ASSUME copy[i].step # "idle"
          PROVE  Times(opListeners[copy[i].op], l) > 0 <=> In(opListeners[copy[i].op], l)
      <4>1. copy[i].op \in Ops
        BY <2>0, <3>3 DEF CopyInv, CopyOK
      <4>2. opListeners[copy[i].op] \in Seq(Listeners)
        BY <2>0, <4>1 DEF Types
      <4>. QED  BY <4>2, TimesFacts
    <3>. QED  BY <3>2, <3>3 DEF WillNotify, Tells
  <2>3. {i \in Pool : WillNotify(i, l)} = Tellers(l)
    BY <2>2 DEF Tellers
  <2>. QED  BY <2>0, <2>1, <2>3 DEF CopyInv, Counted
<1>. QED  BY <1>1, JobInvAlways, PTL

\* doSubmit queues a job only when every transfer of the last round has ended well, and
\* nothing is transferred for it while it is queued or runs.
THEOREM SubmittedAfterTransfersAlways == Spec => []SubmittedAfterTransfers
<1>1. JobInv => SubmittedAfterTransfers
  BY DEF JobInv, LaunchInv, LaunchOK, Submitted, SubmittedAfterTransfers
<1>. QED  BY <1>1, JobInvAlways, PTL

=============================================================================
