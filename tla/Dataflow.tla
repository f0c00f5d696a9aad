------------------------------ MODULE Dataflow ------------------------------
(***************************************************************************)
(* What the runtime promises to an application, without queues, counters   *)
(* or semaphores. The tasks of a thread take their place in the order of   *)
(* the accesses in the order in which the thread created them; a task      *)
(* reads, of each datum, what the last task before it in that order        *)
(* writes, and starts when those producers have ended; a call that         *)
(* synchronises returns when what it waits for has finished.               *)
(***************************************************************************)
EXTENDS Integers

CONSTANTS Tasks, Threads, Data, Signatures, None

VARIABLES
    owner,      \* the thread that created each task
    signature,  \* the mode in which each task accesses each datum
    phase,      \* how far each task has come
    producer,   \* the task that writes the current version of each datum
    inputs,     \* the producers of the versions that each task reads
    call,       \* the call that each thread is in
    target,     \* the datum, and the mode, that a thread accesses itself
    awaited     \* the producers of the version that a thread reads

taskVars == <<owner, signature>>
mainVars == <<call, target, awaited>>
vars == <<taskVars, phase, producer, inputs, mainVars>>

NoTarget  == [data |-> None, mode |-> "none"]
Reads(m)  == m \in {"R", "RW"}
Writes(m) == m \in {"W", "RW"}

\* The producers of the current versions of the data D.
Producers(D) == {producer[d] : d \in D} \ {None}

Init ==
    /\ owner = [t \in Tasks |-> None]
    /\ signature = [t \in Tasks |-> [d \in Data |-> "none"]]
    /\ phase = [t \in Tasks |-> "none"]
    /\ producer = [d \in Data |-> None]
    /\ inputs = [t \in Tasks |-> {}]
    /\ call = [h \in Threads |-> "none"]
    /\ target = [h \in Threads |-> NoTarget]
    /\ awaited = [h \in Threads |-> {}]

MoveTo(t, p) == phase' = [phase EXCEPT ![t] = p]

Create(h, t, sig) ==
    /\ call[h] = "none" /\ phase[t] = "none"
    /\ owner' = [owner EXCEPT ![t] = h]
    /\ signature' = [signature EXCEPT ![t] = sig]
    /\ MoveTo(t, "created")
    /\ UNCHANGED <<producer, inputs, mainVars>>

\* The tasks of a thread are ordered as their identifiers.
Order(t) ==
    /\ phase[t] = "created"
    /\ \A u \in Tasks : u < t /\ owner[u] = owner[t] => phase[u] # "created"
    /\ MoveTo(t, "ordered")
    /\ inputs' = [inputs EXCEPT ![t] = Producers({d \in Data : Reads(signature[t][d])})]
    /\ producer' = [d \in Data |-> IF Writes(signature[t][d]) THEN t ELSE producer[d]]
    /\ UNCHANGED <<taskVars, mainVars>>

Start(t) ==
    /\ phase[t] = "ordered"
    /\ \A p \in inputs[t] : phase[p] \in {"finished", "failed"}
    /\ MoveTo(t, "running")
    /\ UNCHANGED <<taskVars, producer, inputs, mainVars>>

End(t) ==
    /\ phase[t] = "running"
    /\ MoveTo(t, "finished") \/ MoveTo(t, "failed")
    /\ UNCHANGED <<taskVars, producer, inputs, mainVars>>

\* A thread waits for all its tasks, in the middle or at the end of its program.
Synchronise(h, kind) ==
    /\ call[h] = "none"
    /\ call' = [call EXCEPT ![h] = kind]
    /\ UNCHANGED <<taskVars, phase, producer, inputs, target, awaited>>

\* A thread accesses a datum itself.
Access(h, d, m) ==
    /\ call[h] = "none"
    /\ call' = [call EXCEPT ![h] = "access"]
    /\ target' = [target EXCEPT ![h] = [data |-> d, mode |-> m]]
    /\ UNCHANGED <<taskVars, phase, producer, inputs, awaited>>

\* Its access comes after those of all the tasks that it has created.
OrderAccess(h) ==
    LET d == target[h].data
        m == target[h].mode
    IN  /\ call[h] = "access"
        /\ \A t \in Tasks : owner[t] = h => phase[t] # "created"
        /\ call' = [call EXCEPT ![h] = "ordered"]
        /\ awaited' = [awaited EXCEPT ![h] = IF Reads(m) THEN Producers({d}) ELSE {}]
        /\ producer' = IF Writes(m) THEN [producer EXCEPT ![d] = None] ELSE producer
        /\ UNCHANGED <<taskVars, phase, inputs, target>>

MayReturn(h) ==
    \/ /\ call[h] \in {"barrier", "endOfApp"}
       /\ \A t \in Tasks : owner[t] = h => phase[t] = "finished"
    \/ /\ call[h] = "ordered"
       /\ \A p \in awaited[h] : phase[p] = "finished"

Return(H) ==
    /\ \A h \in H : MayReturn(h)
    /\ call' = [h \in Threads |-> IF h \notin H THEN call[h]
                                  ELSE IF call[h] = "endOfApp" THEN "ended" ELSE "none"]
    /\ target' = [h \in Threads |-> IF h \in H THEN NoTarget ELSE target[h]]
    /\ awaited' = [h \in Threads |-> IF h \in H THEN {} ELSE awaited[h]]
    /\ UNCHANGED <<taskVars, phase, producer, inputs>>

Next ==
    \/ \E h \in Threads, t \in Tasks, sig \in Signatures : Create(h, t, sig)
    \/ \E t \in Tasks : Order(t) \/ Start(t) \/ End(t)
    \/ \E h \in Threads, kind \in {"barrier", "endOfApp"} : Synchronise(h, kind)
    \/ \E h \in Threads, d \in Data, m \in {"R", "W", "RW"} : Access(h, d, m)
    \/ \E h \in Threads : OrderAccess(h)
    \/ \E H \in SUBSET Threads : Return(H)

Spec == Init /\ [][Next]_vars
=============================================================================
