------------------------- MODULE WorkerCache_proofs -------------------------
(***************************************************************************)
(* Theorems of WorkerCache, for every program, any number of compute       *)
(* threads and of retries, and for every timing of the threads.            *)
(*                                                                         *)
(* BaseInv is inductive whatever is assumed of the timing: it is about the *)
(* commands on their way, and about the tasks that may still access a      *)
(* version. DataInv adds what the objects and the files hold, and needs    *)
(* that the file of a source is rewritten exclusively. DropInv adds, for   *)
(* paced commands, that no command is lost.                                *)
(***************************************************************************)
EXTENDS WorkerCache, FiniteSetTheorems, WellFoundedInduction, TLAPS

-----------------------------------------------------------------------------
(* The types and the steps *)

Commands == {"remove", "serialize"} \X Versions

CommType ==
    [step : {"idle", "remove", "open", "write", "close", "reply"}, task : {0} \cup Tasks,
     ids : SUBSET Versions, cmd : {Null} \cup Commands, retries : Nat]

RemoveSteps    == {"find_removed", "erase", "delete"}
SerializeSteps == {"truncate", "find_serialized", "take", "write", "reply"}

ServerType ==
    [step : {"open", "read", "close"} \cup RemoveSteps \cup SerializeSteps,
     cmd : {Null} \cup Commands, obj : {0} \cup Tasks]

TypeInv ==
    /\ program \in Seq(Directions)
    /\ TypeOK
    /\ comm \in CommType
    /\ server \in ServerType
    /\ pipe \in FifoType({"java"}, Commands)

-----------------------------------------------------------------------------
(* The commands on their way, and the accesses that are left *)

\* The thread of the Java worker has a command in its hands unless it is idle or between
\* two removals, and a task that waits for it.
CommInv ==
    /\ comm.step = "idle" => comm.ids = {}
    /\ comm.step \in {"idle", "remove"} <=> comm.cmd = Null
    /\ comm.step = "reply" => comm.cmd[1] = "serialize"
    /\ comm.step = "remove" \/ (comm.cmd # Null /\ comm.cmd[1] = "remove")
          => comm.task \in Tasks /\ pc[comm.task] = "submitted"
    /\ comm.cmd # Null /\ comm.cmd[1] = "serialize"
          => /\ comm.task \in Tasks /\ pc[comm.task] = "requested"
             /\ program[comm.task] = "remote" /\ comm.cmd[2] = Source(comm.task)
             /\ comm.ids = {}
    /\ comm.ids \subseteq told
    /\ comm.cmd # Null /\ comm.cmd[1] = "remove" => comm.cmd[2] \in told

\* A command that was written: of an obsolete version, or the one that is waited for.
InFlight(c) ==
    \/ c[1] = "remove" /\ c[2] \in told
    \/ c[1] = "serialize" /\ comm.cmd = c /\ comm.step \in {"close", "reply"}

FlightInv ==
    /\ \A i \in 1 .. Len(pipe.lines) : InFlight(pipe.lines[i])
    /\ server.step \in RemoveSteps => server.cmd # Null /\ server.cmd[1] = "remove"
    /\ server.step \in SerializeSteps => server.cmd # Null /\ server.cmd[1] = "serialize"
    /\ server.step \notin {"open", "read"} /\ server.cmd # Null => InFlight(server.cmd)
    /\ server.step \notin {"open", "read"} /\ server.cmd # Null /\ server.cmd[1] = "serialize"
          => pipe.lines = <<>>

\* No access to version v is left.
Unused(v) == \A t \in Tasks : Reads(t, v) \/ Writes(t, v) => Ended(t)

\* Version v has its final value.
Produced(v) == \A u \in Tasks : Writes(u, v) => Ended(u)

\* A task does not start before its source is there, an inout task that does not preserve
\* its source is the last one to read it, and what the master reports is not used again.
AccessInv ==
    /\ \A t \in Tasks : pc[t] # "waiting" /\ program[t] # "out" => Produced(Source(t))
    /\ \A t \in Tasks : program[t] = "inout" /\ pc[t] # "waiting" /\ ~ preserve[t]
          => \A u \in Tasks : Reads(u, Source(t)) /\ u # t => Ended(u)
    /\ \A v \in told : deleted /\ Unused(v)

BaseInv == TypeInv /\ CommInv /\ FlightInv /\ AccessInv

-----------------------------------------------------------------------------
(***************************************************************************)
(* What the objects and the files hold. The parts of the data invariant    *)
(* take the variables as parameters: p stands for pc, c for cache, a for   *)
(* arg, h for heap, f for file, r for preserve, g for got, s for server    *)
(* and k for the command of the Java thread.                               *)
(***************************************************************************)

\* Version v has its final value.
Final(p, v) == \A u \in Tasks : Writer(u) /\ Dest(u) = v => p[u] = "ended"

\* A task holds a pointer to its argument.
Holding == {"insert", "rename", "remove_file", "call"}

\* Its object may be known to others.
Public == {"remove_file", "call", "ended"}

\* Its object is its own.
Private == {"deserialize", "truncate_source", "fetch_source", "write_source", "reread", "insert"}

\* Objects are not shared before they are in the cache.
PublicObjects(p, c, a, s) ==
    /\ \A v \in Versions : c[v] # 0 => p[c[v]] \in Public
    /\ \A t \in Tasks : p[t] \in Holding => a[t] # 0 /\ (a[t] = t \/ p[a[t]] \in Public)
    /\ s.step \in {"delete", "write"} /\ s.obj # 0 => p[s.obj] \in Public

\* An object is in the cache under one version, the one that it holds or, while the task
\* that writes it runs, will hold.
CachedObjects(p, c, a, h) ==
    /\ \A v, x \in Versions : c[v] = c[x] /\ c[v] # 0 => v = x
    /\ \A v \in Versions : c[v] # 0 /\ Final(p, v) => h[c[v]] = v
    /\ \A u \in Tasks : Writer(u) /\ c[Dest(u)] # 0 => p[u] \in Public
    /\ \A u \in Tasks : Writer(u) /\ p[u] \in {"remove_file", "call"} => c[Dest(u)] = a[u]

\* The argument that a task holds is the right object.
Arguments(p, c, a, h) ==
    /\ \A t \in Tasks : program[t] # "out" /\ p[t] \in Holding => h[a[t]] = Source(t)
    /\ \A t \in Tasks : program[t] = "out" /\ p[t] # "ended" => h[t] = Fresh
    /\ \A t \in Tasks : program[t] = "out" /\ p[t] \in Holding => a[t] = t
    /\ \A t \in Tasks : program[t] = "in" /\ p[t] = "call"
          => \A v \in Versions : c[v] = a[t] => v = Source(t)
    /\ \A t \in Tasks : p[t] = "rename" => c[Source(t)] = a[t]
    /\ \A t \in Tasks : p[t] \in Private => a[t] = t

\* The object that the server deletes is unknown to the others, the one that it
\* serializes does not change.
ServedObject(p, c, a, h, s) ==
    /\ s.step = "delete" /\ s.obj # 0
          => /\ \A v \in Versions : c[v] # s.obj
             /\ \A t \in Tasks : p[t] \in Holding => a[t] # s.obj
    /\ s.step = "write"
          => /\ s.obj # 0 /\ h[s.obj] = s.cmd[2]
             /\ \A v \in Versions : c[v] = s.obj => v = s.cmd[2]

\* Object o holds version x, and nobody will change or delete it.
Settled(x, o, p, c, a, h, s) ==
    /\ o \in Tasks /\ p[o] \in Public /\ h[o] = x
    /\ \A v \in Versions : c[v] = o => v = x
    /\ \A u \in Tasks : p[u] \in Holding /\ a[u] = o => program[u] = "in"
    /\ s.step = "delete" => s.obj # o

\* The pointer that a task fetched leads to its source until the object has been written.
FetchedObjects(p, c, a, h, s, d) ==
    \A t \in Tasks : p[t] = "write_source" => Settled(Source(t), d[t], p, c, a, h, s)

Objects(p, c, a, h, s, d) ==
    /\ PublicObjects(p, c, a, s)
    /\ CachedObjects(p, c, a, h)
    /\ Arguments(p, c, a, h)
    /\ ServedObject(p, c, a, h, s)
    /\ FetchedObjects(p, c, a, h, s, d)

\* The server has truncated the file of its version, and will write it.
Writing == {"find_serialized", "take", "write"}

\* The file of a version that was produced holds it, unless it is being rewritten.
FinalFiles(p, f, s) ==
    \A v \in Versions : Final(p, v) =>
        \/ f[v] \in {Absent, v}
        \/ f[v] = Partial /\ \E t \in Tasks : Source(t) = v
                 /\ p[t] \in {"fetch_source", "write_source"}
        \/ f[v] = Partial /\ s.cmd = <<"serialize", v>> /\ s.step \in Writing

\* Before, it is a copy of the source at most.
EarlyFiles(p, f) ==
    \A u \in Tasks : Writer(u) /\ p[u] # "ended" =>
        /\ f[Dest(u)] \in {Absent, Source(u)}
        /\ program[u] = "out" \/ p[u] \in {"waiting", "submitted", "call"}
              => f[Dest(u)] = Absent

\* Every task finds its argument where it looks for it.
Sources(p, c, f, r, g) ==
    /\ \A t \in Tasks :
          /\ program[t] # "out" /\ Final(p, Source(t))
          /\ p[t] \in {"waiting", "submitted", "requested"} \/ (program[t] = "in" /\ p[t] = "queued")
          => c[Source(t)] # 0 \/ f[Source(t)] = Source(t)
    /\ \A t \in Tasks : program[t] = "inout" /\ p[t] = "queued"
          => c[Source(t)] # 0 \/ f[Dest(t)] = Source(t)
    /\ \A t \in Tasks :
             p[t] \in {"take", "truncate_source", "fetch_source", "write_source", "reread", "peek"}
          => c[Source(t)] # 0
    /\ \A t \in Tasks : p[t] = "deserialize" => f[Dest(t)] = Source(t)
    /\ \A t \in Tasks : p[t] \in {"reread", "sending"} => f[Source(t)] = Source(t)
    /\ \A t \in Tasks : p[t] \in {"peek", "rename"} => ~ r[t]
    /\ \A t \in Tasks : program[t] = "remote" /\ p[t] \in {"received", "ended"}
          => g[t] = Source(t)

\* What is serialized is in the cache, and nobody uses its file.
Serialized(p, c, f, s, k) ==
    \A v \in Versions : k = <<"serialize", v>> =>
        /\ c[v] # 0
        /\ \A t \in Tasks : Source(t) = v
                 => p[t] \notin {"fetch_source", "write_source", "reread"}
        /\ s.step \in Writing \/ f[v] \in {Absent, v}
        /\ s.step \notin Writing \cup {"reply"} => f[v] = Absent
        /\ s.step = "reply" => f[v] = v

Files(p, c, f, r, g, s, k) ==
    /\ FinalFiles(p, f, s)
    /\ EarlyFiles(p, f)
    /\ Sources(p, c, f, r, g)
    /\ Serialized(p, c, f, s, k)

DataHolds ==
    /\ Objects(pc, cache, arg, heap, server, oData)
    /\ Files(pc, cache, file, preserve, got, server, comm.cmd)
    /\ NoFault

DataInv == "exclusive_rewrite" \in env => DataHolds

-----------------------------------------------------------------------------
(* Paced commands *)

\* A command reaches the server: when it is written the server waits for it, alone.
PaceInv ==
    /\ pipe.reader <=> server.step \in {"read", "close"}
    /\ pipe.writers = IF comm.step \in {"write", "close"} THEN {"java"} ELSE {}
    /\ server.step = "close" => pipe.met
    /\ server.step = "read" => server.cmd = Null
    /\ pipe.lines # <<>> => /\ server.step = "read" /\ pipe.met /\ Len(pipe.lines) = 1
                            /\ comm.step # "write"
    /\ comm.step = "write" => server.step = "read" /\ pipe.met

\* The removal of version v has been sent and not carried out.
Removing(v) ==
    \/ v \in comm.ids
    \/ comm.cmd = <<"remove", v>> /\ comm.step \in {"open", "write"}
    \/ \E i \in 1 .. Len(pipe.lines) : pipe.lines[i] = <<"remove", v>>
    \/ server.cmd = <<"remove", v>> /\ server.step \in {"close", "find_removed", "erase"}

\* What was reported is gone, or its removal is on its way.
GoneInv ==
    \A v \in told : /\ Removing(v) \/ cache[v] = 0
                    /\ v \in comm.ids \/ file[v] = Absent

DropInv == "paced_commands" \in env => PaceInv /\ GoneInv

-----------------------------------------------------------------------------
(* Versions *)

\* A set of naturals that is not empty has a least element.
LEMMA LeastNatural ==
    ASSUME NEW T \in SUBSET Nat, T # {}
    PROVE  \E n \in T : \A m \in T : n <= m
<1>1. PICK n \in T : \A m \in T : ~ (<<m, n>> \in OpToRel(<, Nat))
  BY NatLessThanWellFounded, WFMin, Zenon
<1>2. \A m \in T : ~ (m < n)
  BY <1>1 DEF OpToRel
<1>. QED  BY <1>2

\* The tasks before t that write.
Before(t) == {u \in 1 .. t - 1 : Writer(u)}

\* The writers before a task are finitely many.
LEMMA BeforeFinite ==
    ASSUME NEW t \in Nat
    PROVE  /\ IsFiniteSet(Before(t))
           /\ Cardinality(Before(t)) \in Nat
<1>1. IsFiniteSet(1 .. t - 1)
  BY FS_Interval
<1>2. Before(t) \in SUBSET (1 .. t - 1)
  BY DEF Before
<1>3. IsFiniteSet(Before(t))
  BY <1>1, <1>2, FS_Subset
<1>. QED  BY <1>3, FS_CardinalityType

\* Sources do not decrease along the program, and a task that writes increases them.
LEMMA SourceOrder ==
    ASSUME NEW t \in Nat, NEW u \in 1 .. t - 1
    PROVE  /\ Cardinality(Before(u)) <= Cardinality(Before(t))
           /\ Writer(u) => Cardinality(Before(u)) + 1 <= Cardinality(Before(t))
<1>1. /\ IsFiniteSet(Before(t)) /\ IsFiniteSet(Before(u))
      /\ Cardinality(Before(t)) \in Nat /\ Cardinality(Before(u)) \in Nat
  BY BeforeFinite
<1>2. Before(u) \in SUBSET Before(t)
  BY DEF Before
<1>3. Cardinality(Before(u)) <= Cardinality(Before(t))
  BY <1>1, <1>2, FS_Subset
<1>4. ASSUME Writer(u)
      PROVE  Cardinality(Before(u)) + 1 <= Cardinality(Before(t))
  <2>1. Before(u) \cup {u} \in SUBSET Before(t) /\ u \notin Before(u)
    BY <1>4 DEF Before
  <2>2. Cardinality(Before(u) \cup {u}) = Cardinality(Before(u)) + 1
    BY <1>1, <2>1, FS_AddElement
  <2>3. Cardinality(Before(u) \cup {u}) <= Cardinality(Before(t))
    BY <1>1, <2>1, FS_Subset
  <2>. QED  BY <2>2, <2>3
<1>. QED  BY <1>3, <1>4

\* A source other than the value of the main program is written by a task before.
LEMMA SourceHasWriter ==
    ASSUME NEW t \in Nat, Cardinality(Before(t)) # 0
    PROVE  \E u \in Before(t) : Cardinality(Before(u)) + 1 = Cardinality(Before(t))
<1>. DEFINE Bounds == {n \in 0 .. t : \A x \in Before(t) : x <= n}
<1>1. IsFiniteSet(Before(t)) /\ Before(t) # {}
  BY BeforeFinite, FS_EmptySet
<1>2. t \in Bounds /\ Bounds \in SUBSET Nat
  BY DEF Before
<1>3. PICK n \in Bounds : \A m \in Bounds : n <= m
  BY <1>2, LeastNatural, Zenon
<1>4. PICK x \in Before(t) : TRUE
  BY <1>1
<1>5. n \in Nat /\ n # 0
  BY <1>3, <1>4 DEF Before
<1>6. n \in Before(t)
  <2>1. SUFFICES ASSUME n \notin Before(t) PROVE FALSE
    OBVIOUS
  <2>2. \A y \in Before(t) : y \in Nat /\ y <= n - 1
    BY <1>3, <1>5, <2>1 DEF Before
  <2>3. n - 1 \in Bounds
    BY <1>3, <1>5, <2>2
  <2>. QED  BY <1>3, <1>5, <2>3
<1>7. Before(t) = Before(n) \cup {n} /\ n \notin Before(n)
  BY <1>3, <1>5, <1>6 DEF Before
<1>8. IsFiniteSet(Before(n))
  BY <1>5, BeforeFinite
<1>9. Cardinality(Before(t)) = Cardinality(Before(n)) + 1
  BY <1>7, <1>8, FS_AddElement
<1>. QED  BY <1>6, <1>9

\* A version is written by one task at most; sources and targets are versions; a task that
\* reads has a source that the main program or a task has written.
LEMMA VersionFacts ==
    ASSUME program \in Seq(Directions)
    PROVE  /\ Tasks \subseteq Nat \ {0} /\ Versions \subseteq Nat /\ 0 \in Versions
           /\ \A t \in Tasks :
                 /\ program[t] \in Directions
                 /\ Source(t) \in Versions /\ Dest(t) \in Versions
                 /\ Writer(t) => Dest(t) = Source(t) + 1
                 /\ ~ Writer(t) => Dest(t) = Source(t)
                 /\ Source(t) = 0 \/ \E u \in Tasks : Writer(u) /\ Dest(u) = Source(t)
           /\ \A t, u \in Tasks : Writer(t) /\ Writer(u) /\ Dest(t) = Dest(u) => t = u
<1>. DEFINE n == Len(program)
            All == {t \in Tasks : Writer(t)}
<1>1. n \in Nat /\ Tasks = 1 .. n
  BY DEF Tasks
<1>2. All = Before(n + 1)
  BY <1>1 DEF Before
<1>3. \A t \in Tasks : Source(t) = Cardinality(Before(t)) /\ t \in Nat /\ t \in 1 .. n
  BY <1>1 DEF Source, Before
<1>4. Versions = 0 .. Cardinality(Before(n + 1)) /\ Cardinality(Before(n + 1)) \in Nat
  <2>1. Versions = 0 .. Cardinality(All)
    BY Zenon DEF Versions
  <2>2. n + 1 \in Nat
    BY <1>1
  <2>3. Cardinality(Before(n + 1)) \in Nat
    BY <2>2, BeforeFinite
  <2>. QED  BY <2>1, <2>3, <1>2, Zenon
<1>5. ASSUME NEW t \in Tasks
      PROVE  /\ Source(t) \in Nat /\ Source(t) <= Cardinality(Before(n + 1))
             /\ Writer(t) => Source(t) + 1 <= Cardinality(Before(n + 1))
  <2>1. t \in 1 .. (n + 1) - 1 /\ n + 1 \in Nat
    BY <1>1, <1>3
  <2>. QED  BY <2>1, <1>3, SourceOrder, BeforeFinite
<1>6. \A t \in Tasks : Source(t) \in Versions /\ Dest(t) \in Versions
  BY <1>4, <1>5 DEF Dest
<1>7. \A t \in Tasks : program[t] \in Directions
  BY DEF Tasks
<1>8. ASSUME NEW t \in Tasks, Source(t) # 0
      PROVE  \E u \in Tasks : Writer(u) /\ Dest(u) = Source(t)
  <2>1. PICK u \in Before(t) : Cardinality(Before(u)) + 1 = Cardinality(Before(t))
    BY <1>3, <1>8, SourceHasWriter
  <2>2. u \in Tasks /\ Writer(u)
    BY <1>1, <1>3 DEF Before
  <2>3. Dest(u) = Source(t)
    BY <1>3, <2>1, <2>2 DEF Dest
  <2>. QED  BY <2>2, <2>3
<1>9. ASSUME NEW t \in Tasks, NEW u \in Tasks, Writer(t), u < t, Writer(u)
      PROVE  Dest(t) # Dest(u)
  <2>1. u \in 1 .. t - 1 /\ t \in Nat
    BY <1>3, <1>9
  <2>2. Source(u) + 1 <= Source(t)
    BY <1>3, <1>9, <2>1, SourceOrder
  <2>. QED  BY <2>2, <1>5, <1>9 DEF Dest
<1>10. \A t, u \in Tasks : Writer(t) /\ Writer(u) /\ Dest(t) = Dest(u) => t = u
  BY <1>3, <1>9
<1>. QED  BY <1>1, <1>3, <1>4, <1>5, <1>6, <1>7, <1>8, <1>10 DEF Dest

\* What depends on the program alone does not change with it.
LEMMA SameProgram ==
    ASSUME program' = program
    PROVE  /\ Tasks' = Tasks /\ Versions' = Versions /\ Contents' = Contents
           /\ Commands' = Commands /\ CommType' = CommType /\ ServerType' = ServerType
           /\ \A t : /\ Source(t)' = Source(t) /\ Dest(t)' = Dest(t)
                     /\ Writer(t)' = Writer(t)
     BY Zenon DEF Tasks, Versions, Contents, Commands, CommType, ServerType, Source, Dest, Writer

-----------------------------------------------------------------------------
(* Types *)

\* The types, one variable at a time.
LEMMA TypeFacts ==
    ASSUME TypeInv
    PROVE  /\ program \in Seq(Directions)
           /\ pc \in [Tasks -> Steps] /\ preserve \in [Tasks -> BOOLEAN]
           /\ arg \in [Tasks -> {0} \cup Tasks] /\ oData \in [Tasks -> {0} \cup Tasks]
           /\ heap \in [Tasks -> Contents] /\ cache \in [Versions -> {0} \cup Tasks]
           /\ file \in [Versions -> Contents] /\ got \in [Tasks -> Contents]
           /\ told \subseteq Versions /\ deleted \in BOOLEAN /\ env \subseteq AllAssumptions
           /\ comm \in CommType /\ server \in ServerType
           /\ pipe \in FifoType({"java"}, Commands)
           /\ \A t \in Tasks : StepOf(t, pc[t])
BY Zenon DEF TypeInv, TypeOK

\* A step keeps the types if it keeps the type of each variable.
LEMMA TypesKept ==
    ASSUME TypeInv, program' = program, env' = env,
           pc' \in [Tasks -> Steps], preserve' \in [Tasks -> BOOLEAN],
           arg' \in [Tasks -> {0} \cup Tasks], oData' \in [Tasks -> {0} \cup Tasks],
           heap' \in [Tasks -> Contents], cache' \in [Versions -> {0} \cup Tasks],
           file' \in [Versions -> Contents], got' \in [Tasks -> Contents],
           told' \subseteq Versions, deleted' \in BOOLEAN,
           comm' \in CommType, server' \in ServerType,
           pipe' \in FifoType({"java"}, Commands),
           \A t \in Tasks : StepOf(t, pc'[t])
    PROVE  TypeInv'
<1>1. /\ Tasks' = Tasks /\ Versions' = Versions /\ Contents' = Contents
      /\ Commands' = Commands /\ CommType' = CommType /\ ServerType' = ServerType
  BY SameProgram
<1>2. program \in Seq(Directions) /\ env \subseteq AllAssumptions
  BY TypeFacts
<1>3. TypeOK'
  BY <1>1, <1>2, Zenon DEF TypeOK, StepOf
<1>. QED  BY <1>1, <1>2, <1>3, Zenon DEF TypeInv

\* A task goes to its next step.
LEMMA GotoType ==
    ASSUME TypeInv, NEW t \in Tasks, NEW x, pc' = [pc EXCEPT ![t] = x], StepOf(t, x)
    PROVE  /\ pc' \in [Tasks -> Steps]
           /\ \A u \in Tasks : StepOf(u, pc'[u])
           /\ \A u \in Tasks : pc'[u] = IF u = t THEN x ELSE pc[u]
<1>1. pc \in [Tasks -> Steps] /\ \A u \in Tasks : StepOf(u, pc[u])
  BY TypeFacts
<1>2. program[t] \in Directions
  BY TypeFacts, VersionFacts
<1>3. x \in Steps
  BY <1>2 DEF StepOf, Steps, Directions
<1>4. pc' \in [Tasks -> Steps] /\ \A u \in Tasks : pc'[u] = IF u = t THEN x ELSE pc[u]
  BY <1>1, <1>3
<1>. QED  BY <1>1, <1>4, Zenon

\* The fields of the Java thread, of the server and of the pipe.
LEMMA RecordFields ==
    ASSUME TypeInv
    PROVE  /\ comm.step \in {"idle", "remove", "open", "write", "close", "reply"}
           /\ comm.task \in {0} \cup Tasks /\ comm.ids \in SUBSET Versions
           /\ comm.cmd \in {Null} \cup Commands /\ comm.retries \in Nat
           /\ server.step \in {"open", "read", "close"} \cup RemoveSteps \cup SerializeSteps
           /\ server.cmd \in {Null} \cup Commands /\ server.obj \in {0} \cup Tasks
           /\ pipe.reader \in BOOLEAN /\ pipe.writers \in SUBSET {"java"}
           /\ pipe.met \in BOOLEAN /\ pipe.lines \in Seq(Commands)
<1>1. comm \in CommType /\ server \in ServerType /\ pipe \in FifoType({"java"}, Commands)
  BY TypeFacts
<1>. QED  BY <1>1 DEF CommType, ServerType, FifoType

\* The null command is none of the commands.
LEMMA CommandFacts ==
    ASSUME TypeInv, NEW c \in Commands
    PROVE  /\ c # Null /\ c[1] \in {"remove", "serialize"} /\ c[2] \in Versions
           /\ c = <<c[1], c[2]>>
<1>1. Versions \subseteq Nat
  BY TypeFacts, VersionFacts
<1>2. c[1] \in {"remove", "serialize"} /\ c[2] \in Versions /\ c = <<c[1], c[2]>>
  BY DEF Commands
<1>3. c \in {"remove", "serialize"} \X Nat
  BY <1>1, <1>2
<1>. QED  BY <1>2, <1>3, NullAssumption, Zenon

\* What the calls of the operating system do to the fields of a pipe.
LEMMA OpenReadFifo ==
    ASSUME NEW W, NEW L, NEW p \in FifoType(W, L)
    PROVE  /\ OpenRead(p) \in FifoType(W, L)
           /\ OpenRead(p).reader /\ OpenRead(p).writers = p.writers
           /\ (OpenRead(p).met <=> p.writers # {}) /\ OpenRead(p).lines = p.lines
BY DEF FifoType, OpenRead

\* A writer opens the pipe.
LEMMA OpenWriteFifo ==
    ASSUME NEW W, NEW L, NEW p \in FifoType(W, L), NEW w \in W
    PROVE  /\ OpenWrite(p, w) \in FifoType(W, L)
           /\ OpenWrite(p, w).reader = p.reader /\ OpenWrite(p, w).writers = p.writers \cup {w}
           /\ OpenWrite(p, w).met /\ OpenWrite(p, w).lines = p.lines
BY DEF FifoType, OpenWrite

\* A writer adds a line.
LEMMA WriteFifo ==
    ASSUME NEW W, NEW L, NEW p \in FifoType(W, L), NEW l \in L
    PROVE  /\ Write(p, l) \in FifoType(W, L)
           /\ Write(p, l).reader = p.reader /\ Write(p, l).writers = p.writers
           /\ Write(p, l).met = p.met
           /\ Len(p.lines) \in Nat /\ Len(Write(p, l).lines) = Len(p.lines) + 1
           /\ \A i \in 1 .. Len(p.lines) : Write(p, l).lines[i] = p.lines[i]
           /\ Write(p, l).lines[Len(p.lines) + 1] = l
<1>1. p.lines \in Seq(L) /\ Append(p.lines, l) \in Seq(L)
  BY DEF FifoType
<1>2. /\ Write(p, l) \in FifoType(W, L) /\ Write(p, l).lines = Append(p.lines, l)
      /\ Write(p, l).reader = p.reader /\ Write(p, l).writers = p.writers
      /\ Write(p, l).met = p.met
  BY <1>1 DEF FifoType, Write
<1>3. /\ Len(Append(p.lines, l)) = Len(p.lines) + 1 /\ Len(p.lines) \in Nat
      /\ \A i \in 1 .. Len(p.lines) : Append(p.lines, l)[i] = p.lines[i]
      /\ Append(p.lines, l)[Len(p.lines) + 1] = l
  BY <1>1
<1>. QED  BY <1>2, <1>3

\* A pipe that nobody has open is empty, another one is as it was.
LEMMA DroppedFifo ==
    ASSUME NEW W, NEW L, NEW p \in FifoType(W, L)
    PROVE  /\ Dropped(p) \in FifoType(W, L)
           /\ Dropped(p).reader = p.reader /\ Dropped(p).writers = p.writers
           /\ p.reader \/ p.writers # {} => Dropped(p) = p
           /\ Dropped(p).lines = p.lines \/ Dropped(p).lines = <<>>
<1>1. CASE p.reader \/ p.writers # {}
  <2>1. Dropped(p) = p
    BY <1>1, Zenon DEF Dropped
  <2>. QED  BY <2>1
<1>2. CASE ~ (p.reader \/ p.writers # {})
  <2>1. Dropped(p) = EmptyFifo
    BY <1>2, Zenon DEF Dropped
  <2>2. p.reader = FALSE /\ p.writers = {}
    BY <1>2 DEF FifoType
  <2>3. <<>> \in Seq(L)
    OBVIOUS
  <2>4. /\ EmptyFifo \in FifoType(W, L) /\ EmptyFifo.reader = FALSE
        /\ EmptyFifo.writers = {} /\ EmptyFifo.lines = <<>>
    BY <2>3 DEF EmptyFifo, FifoType
  <2>. QED  BY <1>2, <2>1, <2>2, <2>4
<1>. QED  BY <1>1, <1>2

\* A writer closes the pipe.
LEMMA CloseWriteFifo ==
    ASSUME NEW W, NEW L, NEW p \in FifoType(W, L), NEW w
    PROVE  /\ CloseWrite(p, w) \in FifoType(W, L)
           /\ CloseWrite(p, w).reader = p.reader
           /\ CloseWrite(p, w).writers = p.writers \ {w}
           /\ p.reader => CloseWrite(p, w).met = p.met /\ CloseWrite(p, w).lines = p.lines
           /\ CloseWrite(p, w).lines = p.lines \/ CloseWrite(p, w).lines = <<>>
<1> DEFINE q == [p EXCEPT !.writers = @ \ {w}]
<1>1. /\ q \in FifoType(W, L) /\ q.lines = p.lines /\ q.reader = p.reader
      /\ q.writers = p.writers \ {w} /\ q.met = p.met
  BY DEF FifoType
<1>. HIDE DEF q
<1>2. /\ Dropped(q) \in FifoType(W, L) /\ Dropped(q).reader = q.reader
      /\ Dropped(q).writers = q.writers /\ (q.reader => Dropped(q) = q)
      /\ Dropped(q).lines = q.lines \/ Dropped(q).lines = <<>>
  BY <1>1, DroppedFifo
<1>3. CloseWrite(p, w) = Dropped(q)
  BY DEF CloseWrite, q
<1>. QED  BY <1>1, <1>2, <1>3

\* The reader closes the pipe.
LEMMA CloseReadFifo ==
    ASSUME NEW W, NEW L, NEW p \in FifoType(W, L)
    PROVE  /\ CloseRead(p) \in FifoType(W, L)
           /\ ~ CloseRead(p).reader /\ CloseRead(p).writers = p.writers
           /\ CloseRead(p).lines = p.lines \/ CloseRead(p).lines = <<>>
<1> DEFINE q == [p EXCEPT !.reader = FALSE, !.met = FALSE]
<1>1. /\ q \in FifoType(W, L) /\ q.lines = p.lines /\ q.reader = FALSE
      /\ q.writers = p.writers
  BY DEF FifoType
<1>. HIDE DEF q
<1>2. /\ Dropped(q) \in FifoType(W, L) /\ Dropped(q).reader = q.reader
      /\ Dropped(q).writers = q.writers
      /\ Dropped(q).lines = q.lines \/ Dropped(q).lines = <<>>
  BY <1>1, DroppedFifo
<1>3. CloseRead(p) = Dropped(q)
  BY DEF CloseRead, q
<1>. QED  BY <1>1, <1>2, <1>3

\* The reader takes all the lines.
LEMMA ReadAllFifo ==
    ASSUME NEW W, NEW L, NEW p \in FifoType(W, L)
    PROVE  /\ ReadAll(p) \in FifoType(W, L) /\ ReadAll(p).lines = <<>>
           /\ ReadAll(p).reader = p.reader /\ ReadAll(p).writers = p.writers
           /\ ReadAll(p).met = p.met
<1>1. <<>> \in Seq(L)
  OBVIOUS
<1>. QED  BY <1>1 DEF FifoType, ReadAll

\* It uses the first one, or meets the end of the file.
LEMMA FirstLineFifo ==
    ASSUME NEW W, NEW L, NEW p \in FifoType(W, L), NEW eof
    PROVE  /\ p.lines = <<>> => FirstLine(p, eof) = eof
           /\ p.lines # <<>> => /\ 1 \in 1 .. Len(p.lines) /\ FirstLine(p, eof) = p.lines[1]
                                /\ FirstLine(p, eof) \in L
<1>1. p.lines \in Seq(L)
  BY DEF FifoType
<1>2. p.lines # <<>> => Head(p.lines) = p.lines[1] /\ 1 \in 1 .. Len(p.lines) /\ p.lines[1] \in L
  BY <1>1
<1>. QED  BY <1>2 DEF FirstLine

\* The pipe whose reader waits for the first writer.
LEMMA EmptyOpen ==
    ASSUME NEW W, NEW L
    PROVE  /\ OpenRead(EmptyFifo) \in FifoType(W, L)
           /\ OpenRead(EmptyFifo).reader /\ OpenRead(EmptyFifo).writers = {}
           /\ OpenRead(EmptyFifo).lines = <<>>
<1>1. <<>> \in Seq(L)
  OBVIOUS
<1>2. EmptyFifo \in FifoType(W, L) /\ EmptyFifo.writers = {} /\ EmptyFifo.lines = <<>>
  BY <1>1 DEF EmptyFifo, FifoType
<1>. QED  BY <1>2, OpenReadFifo

\* Initially the types hold.
LEMMA TypeInit == Init => TypeInv
<1>. SUFFICES ASSUME Init PROVE TypeInv
  OBVIOUS
<1>1. program \in Seq(Directions) /\ env \subseteq AllAssumptions
  BY ProgramsAssumption, EnvironmentsAssumption DEF Init
<1>2. Versions \subseteq Nat /\ 0 \in Versions
  BY <1>1, VersionFacts
<1>3. 0 \in Contents /\ Fresh \in Contents /\ Absent \in Contents
  BY <1>2 DEF Contents
<1>4. /\ heap \in [Tasks -> Contents] /\ file \in [Versions -> Contents]
      /\ got \in [Tasks -> Contents]
  BY <1>3 DEF Init
<1>5. /\ pc \in [Tasks -> Steps] /\ preserve \in [Tasks -> BOOLEAN]
      /\ arg \in [Tasks -> {0} \cup Tasks] /\ oData \in [Tasks -> {0} \cup Tasks]
      /\ cache \in [Versions -> {0} \cup Tasks]
      /\ told \subseteq Versions /\ deleted \in BOOLEAN
  BY DEF Init, Versions, Steps, RemoteSteps
<1>6. comm \in CommType
  BY DEF Init, Idle, CommType
<1>7. server \in ServerType
  BY DEF Init, Waiting, ServerType
<1>8. pipe \in FifoType({"java"}, Commands)
  BY EmptyOpen DEF Init
<1>9. \A t \in Tasks : StepOf(t, pc[t])
  BY DEF Init, StepOf, RemoteSteps, OutSteps, InSteps, InoutSteps
<1>. QED  BY <1>1, <1>4, <1>5, <1>6, <1>7, <1>8, <1>9, Zenon DEF TypeInv, TypeOK

\* A compute thread keeps the types.
LEMMA ComputeTypes ==
    ASSUME TypeInv, NEW t \in Tasks, ComputeStep(t)
    PROVE  TypeInv'
<1>. DEFINE S == Source(t)
            D == Dest(t)
<1>0. /\ S \in Versions /\ D \in Versions /\ program[t] \in Directions
      /\ Versions \subseteq Nat
  BY TypeFacts, VersionFacts
<1>1. /\ pc \in [Tasks -> Steps] /\ preserve \in [Tasks -> BOOLEAN]
      /\ arg \in [Tasks -> {0} \cup Tasks] /\ oData \in [Tasks -> {0} \cup Tasks]
      /\ heap \in [Tasks -> Contents] /\ cache \in [Versions -> {0} \cup Tasks]
      /\ file \in [Versions -> Contents] /\ got \in [Tasks -> Contents]
      /\ told \subseteq Versions /\ deleted \in BOOLEAN
      /\ comm \in CommType /\ server \in ServerType
      /\ pipe \in FifoType({"java"}, Commands)
      /\ \A u \in Tasks : StepOf(u, pc[u])
  BY TypeFacts
<1>2. /\ \A v \in Versions : v \in Contents
      /\ Freed \in Contents /\ Absent \in Contents /\ Partial \in Contents
  BY DEF Contents
<1>3. \A p \in {0} \cup Tasks : Content(p) \in Contents
  BY <1>1, <1>2 DEF Content
<1>. HIDE DEF S, D
<1>4. CASE FindArgument(t)
  <2>1. PICK x : pc' = [pc EXCEPT ![t] = x] /\ StepOf(t, x)
    <3>. DEFINE y == IF program[t] = "out" THEN "insert"
                     ELSE IF ~ InCache(S) THEN "deserialize"
                     ELSE IF program[t] = "in" THEN "take"
                     ELSE IF preserve[t] THEN "truncate_source" ELSE "peek"
    <3>0. pc' = [pc EXCEPT ![t] = y]
      BY <1>4, Zenon DEF FindArgument, Goto, S
    <3>1. /\ y \in {"insert", "deserialize", "take", "truncate_source", "peek"}
          /\ y = "insert" => program[t] = "out"
          /\ y = "take" => program[t] = "in"
          /\ y = "deserialize" => program[t] # "out"
          /\ y \in {"truncate_source", "peek"} => program[t] \notin {"in", "out"}
      OBVIOUS
    <3>. HIDE DEF y
    <3>2. program[t] # "remote"
      BY <1>1, <1>4 DEF FindArgument, StepOf, RemoteSteps
    <3>3. StepOf(t, y)
      BY <3>1, <3>2, <1>0 DEF StepOf, OutSteps, InSteps, InoutSteps, Directions
    <3>. QED  BY <3>0, <3>3
  <2>2. pc' \in [Tasks -> Steps] /\ \A u \in Tasks : StepOf(u, pc'[u])
    BY <2>1, GotoType
  <2>3. arg' \in [Tasks -> {0} \cup Tasks]
    BY <1>1, <1>4 DEF FindArgument
  <2>. QED  BY <1>1, <1>4, <2>2, <2>3, TypesKept DEF FindArgument, cVars, javaVars, given
<1>5. CASE TakeArgument(t)
  <2>1. StepOf(t, "call")
    BY <1>1, <1>5 DEF TakeArgument, StepOf, RemoteSteps, OutSteps, InSteps, InoutSteps
  <2>2. pc' \in [Tasks -> Steps] /\ \A u \in Tasks : StepOf(u, pc'[u])
    BY <1>5, <2>1, GotoType DEF TakeArgument, Goto
  <2>3. arg' \in [Tasks -> {0} \cup Tasks]
    BY <1>0, <1>1, <1>5 DEF TakeArgument, S
  <2>. QED  BY <1>1, <1>5, <2>2, <2>3, TypesKept DEF TakeArgument, cVars, javaVars, given
<1>6. CASE Deserialize(t) \/ RereadSource(t)
  <2>1. StepOf(t, "insert")
    BY <1>1, <1>6 DEF Deserialize, RereadSource, StepOf, RemoteSteps, OutSteps, InSteps, InoutSteps
  <2>2. PICK v \in Versions : ReadObject(t, v)
    BY <1>0, <1>6 DEF Deserialize, RereadSource, S, D
  <2>3. pc' \in [Tasks -> Steps] /\ \A u \in Tasks : StepOf(u, pc'[u])
    BY <1>1, <2>1, <2>2, GotoType DEF ReadObject, Goto
  <2>4. heap' \in [Tasks -> Contents]
    BY <1>1, <2>2 DEF ReadObject
  <2>. QED  BY <1>1, <1>6, <2>3, <2>4, TypesKept DEF Deserialize, RereadSource, javaVars, given
<1>7. CASE InsertArgument(t)
  <2>1. PICK x : pc' = [pc EXCEPT ![t] = x] /\ StepOf(t, x)
    <3>1. pc' = [pc EXCEPT ![t] = IF program[t] = "in" THEN "call" ELSE "remove_file"]
      BY <1>7 DEF InsertArgument, Goto
    <3>2. StepOf(t, IF program[t] = "in" THEN "call" ELSE "remove_file")
      BY <1>1, <1>7 DEF InsertArgument, StepOf, RemoteSteps, OutSteps, InSteps, InoutSteps
    <3>. QED  BY <3>1, <3>2
  <2>2. pc' \in [Tasks -> Steps] /\ \A u \in Tasks : StepOf(u, pc'[u])
    BY <2>1, GotoType
  <2>3. cache' \in [Versions -> {0} \cup Tasks]
    BY <1>0, <1>1, <1>7 DEF InsertArgument, D
  <2>. QED  BY <1>1, <1>7, <2>2, <2>3, TypesKept DEF InsertArgument, javaVars, given
<1>8. CASE TruncateSource(t)
  <2>1. StepOf(t, "fetch_source")
    BY <1>1, <1>8 DEF TruncateSource, StepOf, RemoteSteps, OutSteps, InSteps, InoutSteps
  <2>2. pc' \in [Tasks -> Steps] /\ \A u \in Tasks : StepOf(u, pc'[u])
    BY <1>8, <2>1, GotoType DEF TruncateSource, Goto
  <2>3. file' \in [Versions -> Contents]
    BY <1>0, <1>1, <1>2, <1>8 DEF TruncateSource, S
  <2>. QED  BY <1>1, <1>8, <2>2, <2>3, TypesKept DEF TruncateSource, cVars, javaVars, given
<1>9. CASE WriteSource(t)
  <2>1. StepOf(t, "reread")
    BY <1>1, <1>9 DEF WriteSource, StepOf, RemoteSteps, OutSteps, InSteps, InoutSteps
  <2>2. pc' \in [Tasks -> Steps] /\ \A u \in Tasks : StepOf(u, pc'[u])
    BY <1>1, <1>9, <2>1, GotoType DEF WriteSource, Goto
  <2>3. Content(oData[t]) \in Contents
    BY <1>1, <1>3
  <2>4. file' \in [Versions -> Contents] /\ oData' \in [Tasks -> {0} \cup Tasks]
    BY <1>0, <1>1, <1>9, <2>3 DEF WriteSource, S
  <2>. QED  BY <1>1, <1>9, <2>2, <2>4, TypesKept DEF WriteSource, cVars, javaVars, given
<1>14. CASE FetchSource(t)
  <2>1. StepOf(t, "write_source")
    BY <1>1, <1>14 DEF FetchSource, StepOf, RemoteSteps, OutSteps, InSteps, InoutSteps
  <2>2. pc' \in [Tasks -> Steps] /\ \A u \in Tasks : StepOf(u, pc'[u])
    BY <1>14, <2>1, GotoType DEF FetchSource, Goto
  <2>3. oData' \in [Tasks -> {0} \cup Tasks]
    BY <1>0, <1>1, <1>14 DEF FetchSource, S
  <2>. QED  BY <1>1, <1>14, <2>2, <2>3, TypesKept DEF FetchSource, cVars, javaVars, given
<1>10. CASE PeekArgument(t)
  <2>1. StepOf(t, "rename")
    BY <1>1, <1>10 DEF PeekArgument, StepOf, RemoteSteps, OutSteps, InSteps, InoutSteps
  <2>2. pc' \in [Tasks -> Steps] /\ \A u \in Tasks : StepOf(u, pc'[u])
    BY <1>10, <2>1, GotoType DEF PeekArgument, Goto
  <2>3. arg' \in [Tasks -> {0} \cup Tasks]
    BY <1>0, <1>1, <1>10 DEF PeekArgument, S
  <2>. QED  BY <1>1, <1>10, <2>2, <2>3, TypesKept DEF PeekArgument, cVars, javaVars, given
<1>11. CASE RenameArgument(t)
  <2>1. StepOf(t, "remove_file")
    BY <1>1, <1>11 DEF RenameArgument, StepOf, RemoteSteps, OutSteps, InSteps, InoutSteps
  <2>2. pc' \in [Tasks -> Steps] /\ \A u \in Tasks : StepOf(u, pc'[u])
    BY <1>11, <2>1, GotoType DEF RenameArgument, Goto
  <2>3. cache' \in [Versions -> {0} \cup Tasks]
    BY <1>0, <1>1, <1>11 DEF RenameArgument, S, D
  <2>. QED  BY <1>1, <1>11, <2>2, <2>3, TypesKept DEF RenameArgument, javaVars, given
<1>12. CASE RemoveDestFile(t)
  <2>1. StepOf(t, "call")
    BY <1>1, <1>12 DEF RemoveDestFile, StepOf, RemoteSteps, OutSteps, InSteps, InoutSteps
  <2>2. pc' \in [Tasks -> Steps] /\ \A u \in Tasks : StepOf(u, pc'[u])
    BY <1>12, <2>1, GotoType DEF RemoveDestFile, Goto
  <2>3. file' \in [Versions -> Contents]
    BY <1>0, <1>1, <1>2, <1>12 DEF RemoveDestFile, D
  <2>. QED  BY <1>1, <1>12, <2>2, <2>3, TypesKept DEF RemoveDestFile, cVars, javaVars, given
<1>13. CASE Call(t)
  <2>1. StepOf(t, "ended")
    BY DEF StepOf, RemoteSteps, OutSteps, InSteps, InoutSteps
  <2>2. pc' \in [Tasks -> Steps] /\ \A u \in Tasks : StepOf(u, pc'[u])
    BY <1>1, <1>13, <2>1, GotoType DEF Call, Goto
  <2>3. heap' \in [Tasks -> Contents]
    <3>1. heap' = heap \/ heap' = [heap EXCEPT ![arg[t]] = D]
      BY <1>13, Zenon DEF Call, D
    <3>. QED  BY <1>0, <1>1, <1>2, <3>1
  <2>4. /\ UNCHANGED <<program, env, preserve, arg, oData, cache, server, file, pipe>>
        /\ UNCHANGED <<comm, told, deleted, got>>
    BY <1>13, Zenon DEF Call, javaVars, given
  <2>. QED  BY <1>1, <2>2, <2>3, <2>4, TypesKept
<1>. QED
  BY <1>4, <1>5, <1>6, <1>7, <1>8, <1>9, <1>10, <1>11, <1>12, <1>13, <1>14 DEF ComputeStep

-----------------------------------------------------------------------------
(* The records of the Java thread and of the server *)

NextComm(s, t, i, c, r) ==
    /\ comm' \in CommType
    /\ comm'.step = s /\ comm'.task = t /\ comm'.ids = i /\ comm'.cmd = c /\ comm'.retries = r

NextServer(s, c, o) ==
    /\ server' \in ServerType
    /\ server'.step = s /\ server'.cmd = c /\ server'.obj = o

\* What the steps of the Java thread do to its record.
LEMMA CommEffects ==
    ASSUME TypeInv, CommInv
    PROVE  /\ \A t \in Tasks : ReceivedNewTask(t)
                 => NextComm("remove", t, Obsolete \ told, Null, 0)
           /\ \A t \in Tasks : SendData(t) /\ file[Source(t)] = Absent
                 => NextComm("open", t, {}, <<"serialize", Source(t)>>, 0)
           /\ RemoveObsolete
                 => \E v \in comm.ids :
                       /\ file' = [file EXCEPT ![v] = Absent]
                       /\ NextComm("open", comm.task, comm.ids \ {v}, <<"remove", v>>, 0)
           /\ AskForFile \/ ReadReply => NextComm("idle", 0, {}, Null, 0)
           /\ OpenDataPipe => NextComm("write", comm.task, comm.ids, comm.cmd, comm.retries)
           /\ WriteCommand => NextComm("close", comm.task, comm.ids, comm.cmd, comm.retries)
           /\ WriteFails
                 => \/ NextComm("open", comm.task, comm.ids, comm.cmd, comm.retries + 1)
                    \/ /\ comm.cmd[1] = "remove"
                       /\ NextComm("remove", comm.task, comm.ids, Null, comm.retries)
                    \/ /\ comm.cmd[1] # "remove"
                       /\ NextComm("idle", 0, {}, Null, 0)
           /\ CloseDataPipe
                 => \/ /\ comm.cmd[1] = "remove"
                       /\ NextComm("remove", comm.task, comm.ids, Null, comm.retries)
                    \/ /\ comm.cmd[1] # "remove"
                       /\ NextComm("reply", comm.task, comm.ids, comm.cmd, comm.retries)
<1>0. comm \in CommType /\ \A t \in Tasks : Source(t) \in Versions
  BY TypeFacts, VersionFacts
<1>1. ASSUME NEW t \in Tasks, ReceivedNewTask(t)
      PROVE  NextComm("remove", t, Obsolete \ told, Null, 0)
  <2>1. PICK i \in SUBSET Versions : i = Obsolete \ told
    BY DEF Obsolete
  <2>2. comm' = [Idle EXCEPT !.step = "remove", !.task = t, !.ids = i]
    BY <1>1, <2>1, Zenon DEF ReceivedNewTask
  <2>3. NextComm("remove", t, i, Null, 0)
    BY <2>2 DEF NextComm, Idle, CommType
  <2>. QED  BY <2>1, <2>3, Zenon
<1>2. ASSUME NEW t \in Tasks, SendData(t), file[Source(t)] = Absent
      PROVE  NextComm("open", t, {}, <<"serialize", Source(t)>>, 0)
  <2>1. PICK c \in Commands : c = <<"serialize", Source(t)>>
    BY <1>0 DEF Commands
  <2>2. comm' = [Idle EXCEPT !.step = "open", !.task = t, !.cmd = c]
    BY <1>2, <2>1, Zenon DEF SendData
  <2>3. NextComm("open", t, {}, c, 0)
    BY <2>2 DEF NextComm, Idle, CommType
  <2>. QED  BY <2>1, <2>3, Zenon
<1>3. ASSUME RemoveObsolete
      PROVE  \E v \in comm.ids :
                /\ file' = [file EXCEPT ![v] = Absent]
                /\ NextComm("open", comm.task, comm.ids \ {v}, <<"remove", v>>, 0)
  <2>1. PICK v \in comm.ids :
           /\ file' = [file EXCEPT ![v] = Absent]
           /\ comm' = [comm EXCEPT !.step = "open", !.ids = @ \ {v}, !.cmd = <<"remove", v>>,
                                   !.retries = 0]
    BY <1>3, Zenon DEF RemoveObsolete
  <2>2. v \in Versions
    BY <1>0 DEF CommType
  <2>3. PICK c \in Commands : c = <<"remove", v>>
    BY <2>2 DEF Commands
  <2>4. comm' = [comm EXCEPT !.step = "open", !.ids = @ \ {v}, !.cmd = c, !.retries = 0]
    BY <2>1, <2>3, Zenon
  <2>5. NextComm("open", comm.task, comm.ids \ {v}, c, 0)
    BY <1>0, <2>4 DEF NextComm, CommType
  <2>. QED  BY <2>1, <2>3, <2>5, Zenon
<1>4. AskForFile \/ ReadReply => NextComm("idle", 0, {}, Null, 0)
  BY DEF AskForFile, ReadReply, Idle, CommType, NextComm
<1>5. OpenDataPipe => NextComm("write", comm.task, comm.ids, comm.cmd, comm.retries)
  BY <1>0 DEF OpenDataPipe, NextComm, CommType
<1>6. WriteCommand => NextComm("close", comm.task, comm.ids, comm.cmd, comm.retries)
  BY <1>0 DEF WriteCommand, NextComm, CommType
<1>7. ASSUME WriteFails
      PROVE  \/ NextComm("open", comm.task, comm.ids, comm.cmd, comm.retries + 1)
             \/ /\ comm.cmd[1] = "remove"
                /\ NextComm("remove", comm.task, comm.ids, Null, comm.retries)
             \/ /\ comm.cmd[1] # "remove"
                /\ NextComm("idle", 0, {}, Null, 0)
  <2>1. CASE comm' = [comm EXCEPT !.step = "open", !.retries = @ + 1]
    <3>1. PICK n \in Nat : n = comm.retries + 1
      BY <1>0 DEF CommType
    <3>2. comm' = [comm EXCEPT !.step = "open", !.retries = n]
      BY <2>1, <3>1, Zenon
    <3>3. NextComm("open", comm.task, comm.ids, comm.cmd, n)
      BY <1>0, <3>2 DEF NextComm, CommType
    <3>. QED  BY <3>1, <3>3, Zenon
  <2>2. CASE comm.cmd[1] = "remove" /\ comm' = [comm EXCEPT !.step = "remove", !.cmd = Null]
    BY <1>0, <2>2 DEF NextComm, CommType
  <2>3. CASE comm.cmd[1] # "remove" /\ comm' = Idle
    BY <1>0, <2>3 DEF NextComm, CommType, Idle
  <2>. QED  BY <1>7, <2>1, <2>2, <2>3, Zenon DEF WriteFails
<1>8. ASSUME CloseDataPipe
      PROVE  \/ /\ comm.cmd[1] = "remove"
                /\ NextComm("remove", comm.task, comm.ids, Null, comm.retries)
             \/ /\ comm.cmd[1] # "remove"
                /\ NextComm("reply", comm.task, comm.ids, comm.cmd, comm.retries)
  <2>1. CASE comm.cmd[1] = "remove" /\ comm' = [comm EXCEPT !.step = "remove", !.cmd = Null]
    BY <1>0, <2>1 DEF NextComm, CommType
  <2>2. CASE comm.cmd[1] # "remove" /\ comm' = [comm EXCEPT !.step = "reply"]
    BY <1>0, <2>2 DEF NextComm, CommType
  <2>. QED  BY <1>8, <2>1, <2>2, Zenon DEF CloseDataPipe
<1>. QED  BY <1>1, <1>2, <1>3, <1>4, <1>5, <1>6, <1>7, <1>8, Zenon

\* What the steps of the server do to its record.
LEMMA ServerEffects ==
    ASSUME TypeInv, FlightInv
    PROVE  /\ AwaitCommand => NextServer("read", Null, 0)
           /\ ReadCommand => \/ pipe.lines = <<>> /\ NextServer("close", Null, server.obj)
                             \/ /\ pipe.lines # <<>> /\ 1 \in 1 .. Len(pipe.lines)
                                /\ pipe.lines[1] \in Commands
                                /\ NextServer("close", pipe.lines[1], server.obj)
           /\ CloseCommand
                 => \/ server.cmd = Null /\ NextServer("open", server.cmd, server.obj)
                    \/ /\ server.cmd # Null /\ server.cmd[1] = "remove"
                       /\ NextServer("find_removed", server.cmd, server.obj)
                    \/ /\ server.cmd # Null /\ server.cmd[1] # "remove"
                       /\ NextServer("truncate", server.cmd, server.obj)
           /\ FindRemoved
                 => \/ InCache(server.cmd[2]) /\ NextServer("erase", server.cmd, server.obj)
                    \/ ~ InCache(server.cmd[2]) /\ NextServer("open", server.cmd, server.obj)
           /\ EraseRemoved => NextServer("delete", server.cmd, cache[server.cmd[2]])
           /\ DeleteRemoved => NextServer("open", server.cmd, server.obj)
           /\ TruncateFile => NextServer("find_serialized", server.cmd, server.obj)
           /\ FindSerialized
                 => \/ InCache(server.cmd[2]) /\ NextServer("take", server.cmd, server.obj)
                    \/ ~ InCache(server.cmd[2]) /\ NextServer("reply", server.cmd, server.obj)
           /\ TakeSerialized => NextServer("write", server.cmd, cache[server.cmd[2]])
           /\ WriteSerialized /\ Content(server.obj) # Freed
                 => NextServer("reply", server.cmd, server.obj)
           /\ ReadReply => NextServer("open", server.cmd, server.obj)
<1>. DEFINE To(s) == server' = [server EXCEPT !.step = s]
<1>0. /\ server \in ServerType /\ pipe \in FifoType({"java"}, Commands)
      /\ cache \in [Versions -> {0} \cup Tasks]
  BY TypeFacts
<1>1. ASSUME NEW s \in {"open", "read", "close"} \cup RemoveSteps \cup SerializeSteps, To(s)
      PROVE  NextServer(s, server.cmd, server.obj)
  BY <1>0, <1>1 DEF NextServer, ServerType
<1>2. \A s \in {"open", "read", "close"} \cup RemoveSteps \cup SerializeSteps :
         To(s) => NextServer(s, server.cmd, server.obj)
  BY <1>1
<1>. HIDE DEF To
<1>3. \A s \in {"open", "find_removed", "erase", "truncate", "find_serialized", "take", "reply"} :
         To(s) => NextServer(s, server.cmd, server.obj)
  BY <1>2, Zenon DEF RemoveSteps, SerializeSteps
<1>4. AwaitCommand => NextServer("read", Null, 0)
  BY DEF AwaitCommand, Waiting, NextServer, ServerType
<1>5. ASSUME ReadCommand
      PROVE  \/ pipe.lines = <<>> /\ NextServer("close", Null, server.obj)
             \/ /\ pipe.lines # <<>> /\ 1 \in 1 .. Len(pipe.lines)
                /\ pipe.lines[1] \in Commands
                /\ NextServer("close", pipe.lines[1], server.obj)
  <2>1. PICK c : c = FirstLine(pipe, Null)
    OBVIOUS
  <2>2. /\ pipe.lines = <<>> => c = Null
        /\ pipe.lines # <<>> => 1 \in 1 .. Len(pipe.lines) /\ c = pipe.lines[1] /\ c \in Commands
    BY <1>0, <2>1, FirstLineFifo
  <2>3. server' = [server EXCEPT !.step = "close", !.cmd = c]
    BY <1>5, <2>1, Zenon DEF ReadCommand
  <2>4. c \in {Null} \cup Commands
    BY <2>2
  <2>5. NextServer("close", c, server.obj)
    BY <1>0, <2>3, <2>4 DEF NextServer, ServerType
  <2>. QED  BY <2>2, <2>5, Zenon
<1>6. ASSUME CloseCommand
      PROVE  \/ server.cmd = Null /\ NextServer("open", server.cmd, server.obj)
             \/ /\ server.cmd # Null /\ server.cmd[1] = "remove"
                /\ NextServer("find_removed", server.cmd, server.obj)
             \/ /\ server.cmd # Null /\ server.cmd[1] # "remove"
                /\ NextServer("truncate", server.cmd, server.obj)
  <2>1. \/ server.cmd = Null /\ To("open")
        \/ server.cmd # Null /\ server.cmd[1] = "remove" /\ To("find_removed")
        \/ server.cmd # Null /\ server.cmd[1] # "remove" /\ To("truncate")
    BY <1>6, Zenon DEF CloseCommand, Serve, To
  <2>. QED  BY <1>3, <2>1, Zenon
<1>7. ASSUME FindRemoved
      PROVE  \/ InCache(server.cmd[2]) /\ NextServer("erase", server.cmd, server.obj)
             \/ ~ InCache(server.cmd[2]) /\ NextServer("open", server.cmd, server.obj)
  BY <1>3, <1>7, Zenon DEF FindRemoved, Serve, To
<1>8. ASSUME FindSerialized
      PROVE  \/ InCache(server.cmd[2]) /\ NextServer("take", server.cmd, server.obj)
             \/ ~ InCache(server.cmd[2]) /\ NextServer("reply", server.cmd, server.obj)
  BY <1>3, <1>8, Zenon DEF FindSerialized, Serve, To
<1>9. ASSUME EraseRemoved \/ TakeSerialized
      PROVE  \E s \in {"delete", "write"} :
                /\ s = "delete" <=> server.step = "erase"
                /\ NextServer(s, server.cmd, cache[server.cmd[2]])
  <2>1. server.step \in {"erase", "take"}
    BY <1>9 DEF EraseRemoved, TakeSerialized
  <2>2. server.cmd \in Commands
    BY <1>0, <2>1 DEF FlightInv, ServerType, RemoveSteps, SerializeSteps
  <2>3. PICK o \in {0} \cup Tasks : o = cache[server.cmd[2]]
    BY <1>0, <2>2, CommandFacts
  <2>4. PICK s \in {"delete", "write"} :
           /\ s = "delete" <=> server.step = "erase"
           /\ server' = [server EXCEPT !.step = s, !.obj = o]
    BY <1>9, <2>3 DEF EraseRemoved, TakeSerialized
  <2>5. NextServer(s, server.cmd, o)
    BY <1>0, <2>3, <2>4 DEF NextServer, ServerType, RemoveSteps, SerializeSteps
  <2>. QED  BY <2>3, <2>4, <2>5, Zenon
<1>10. EraseRemoved => NextServer("delete", server.cmd, cache[server.cmd[2]])
  <2>1. EraseRemoved => server.step = "erase"
    BY DEF EraseRemoved
  <2>. QED  BY <1>9, <2>1, Zenon
<1>11. TakeSerialized => NextServer("write", server.cmd, cache[server.cmd[2]])
  <2>1. TakeSerialized => server.step # "erase"
    BY DEF TakeSerialized
  <2>. QED  BY <1>9, <2>1, Zenon
<1>12. DeleteRemoved => NextServer("open", server.cmd, server.obj)
  BY <1>3, Zenon DEF DeleteRemoved, Serve, To
<1>13. TruncateFile => NextServer("find_serialized", server.cmd, server.obj)
  BY <1>3, Zenon DEF TruncateFile, Serve, To
<1>14. WriteSerialized /\ Content(server.obj) # Freed
         => NextServer("reply", server.cmd, server.obj)
  BY <1>3, Zenon DEF WriteSerialized, Serve, To
<1>15. ReadReply => NextServer("open", server.cmd, server.obj)
  BY <1>3, Zenon DEF ReadReply, To
<1>. QED
  BY <1>4, <1>5, <1>6, <1>7, <1>8, <1>10, <1>11, <1>12, <1>13, <1>14, <1>15, Zenon

\* The types that are left: the steps of the Java thread, of the server and of the other
\* nodes.
LEMMA OtherTypes ==
    ASSUME TypeInv, CommInv, FlightInv,
           CommStep \/ ServerStep \/ RemoteStep \/ DeleteObject
    PROVE  TypeInv'
<1>0. /\ \A t \in Tasks : /\ Source(t) \in Versions /\ Dest(t) \in Versions
                          /\ program[t] \in Directions
      /\ Versions \subseteq Nat
  BY TypeFacts, VersionFacts
<1>1. /\ pc \in [Tasks -> Steps] /\ preserve \in [Tasks -> BOOLEAN]
      /\ arg \in [Tasks -> {0} \cup Tasks] /\ oData \in [Tasks -> {0} \cup Tasks]
      /\ heap \in [Tasks -> Contents] /\ cache \in [Versions -> {0} \cup Tasks]
      /\ file \in [Versions -> Contents] /\ got \in [Tasks -> Contents]
      /\ told \subseteq Versions /\ deleted \in BOOLEAN
      /\ comm \in CommType /\ server \in ServerType
      /\ pipe \in FifoType({"java"}, Commands)
      /\ \A u \in Tasks : StepOf(u, pc[u])
  BY TypeFacts
<1>2. /\ \A v \in Versions : v \in Contents
      /\ Freed \in Contents /\ Absent \in Contents /\ Partial \in Contents
  BY DEF Contents
<1>3. \A p \in {0} \cup Tasks : Content(p) \in Contents
  BY <1>1, <1>2 DEF Content
<1>4. \A v \in Versions, c \in Contents : [file EXCEPT ![v] = c] \in [Versions -> Contents]
  BY <1>1
<1>5. ASSUME NEW t \in Tasks, ReceivedNewTask(t) PROVE TypeInv'
  <2>1. StepOf(t, "submitted") /\ pc' = [pc EXCEPT ![t] = "submitted"]
    BY <1>0, <1>5 DEF ReceivedNewTask, Remote, Goto, StepOf, OutSteps, InSteps, InoutSteps
  <2>2. pc' \in [Tasks -> Steps] /\ \A u \in Tasks : StepOf(u, pc'[u])
    BY <2>1, GotoType
  <2>3. comm' \in CommType
    BY <1>5, CommEffects, Zenon DEF NextComm
  <2>4. told' \subseteq Versions
    BY <1>1, <1>5 DEF ReceivedNewTask, Obsolete
  <2>5. preserve' \in [Tasks -> BOOLEAN]
    <3>1. PICK b \in BOOLEAN : b = IsPreserveSourceData(t)
      BY Zenon DEF IsPreserveSourceData
    <3>2. preserve' = [preserve EXCEPT ![t] = b]
      BY <1>5, <3>1, Zenon DEF ReceivedNewTask
    <3>. QED  BY <1>1, <3>2
  <2>. QED
    BY <1>1, <1>5, <2>2, <2>3, <2>4, <2>5, TypesKept DEF ReceivedNewTask, cVars, given
<1>6. ASSUME RemoveObsolete PROVE TypeInv'
  <2>1. PICK v \in comm.ids : file' = [file EXCEPT ![v] = Absent] /\ comm' \in CommType
    BY <1>6, CommEffects, Zenon DEF NextComm
  <2>2. v \in Versions
    BY <1>1 DEF CommType
  <2>3. file' \in [Versions -> Contents]
    BY <1>2, <1>4, <2>1, <2>2, Zenon
  <2>. QED  BY <1>1, <1>6, <2>1, <2>3, TypesKept DEF RemoveObsolete, taskVars, cVars, given
<1>7. ASSUME AskForFile PROVE TypeInv'
  <2>. DEFINE t == comm.task
  <2>1. t \in Tasks /\ pc[t] = "submitted"
    BY <1>7 DEF AskForFile, CommInv
  <2>2. StepOf(t, "queued") /\ pc' = [pc EXCEPT ![t] = "queued"]
    <3>1. program[t] # "remote"
      BY <1>1, <2>1 DEF StepOf, RemoteSteps
    <3>. QED  BY <1>0, <1>7, <2>1, <3>1 DEF AskForFile, Goto, StepOf, OutSteps, InSteps, InoutSteps
  <2>3. pc' \in [Tasks -> Steps] /\ \A u \in Tasks : StepOf(u, pc'[u])
    BY <2>1, <2>2, GotoType
  <2>4. comm' \in CommType
    BY <1>7, CommEffects, Zenon DEF NextComm
  <2>5. Source(t) \in Versions /\ Dest(t) \in Versions
    BY <1>0, <2>1
  <2>6. \/ file' = file
        \/ file' = [file EXCEPT ![Dest(t)] = file[Source(t)],
                                ![Source(t)] = IF preserve[t] THEN @ ELSE Absent]
    BY <1>7 DEF AskForFile
  <2>7. file' \in [Versions -> Contents]
    BY <1>1, <1>2, <2>5, <2>6
  <2>. QED  BY <1>1, <1>7, <2>3, <2>4, <2>7, TypesKept DEF AskForFile, cVars, given
<1>8. ASSUME NEW t \in Tasks, SendData(t) PROVE TypeInv'
  <2>1. CASE file[Source(t)] # Absent
    <3>1. pc' = [pc EXCEPT ![t] = "sending"] /\ comm' = comm
      BY <1>8, <2>1 DEF SendData, Goto
    <3>2. StepOf(t, "sending")
      BY <1>1, <1>8 DEF SendData, StepOf, RemoteSteps, OutSteps, InSteps, InoutSteps
    <3>3. pc' \in [Tasks -> Steps] /\ \A u \in Tasks : StepOf(u, pc'[u])
      BY <3>1, <3>2, GotoType
    <3>. QED  BY <1>1, <1>8, <3>1, <3>3, TypesKept DEF SendData, cVars, given
  <2>2. CASE file[Source(t)] = Absent
    <3>1. comm' \in CommType
      BY <1>8, <2>2, CommEffects, Zenon DEF NextComm
    <3>2. pc' = pc
      BY <1>8, <2>2 DEF SendData
    <3>. QED  BY <1>1, <1>8, <3>1, <3>2, TypesKept DEF SendData, cVars, given
  <2>. QED  BY <2>1, <2>2
<1>9. ASSUME NEW t \in Tasks, RequestData(t) \/ RemoteEnd(t) PROVE TypeInv'
  <2>1. PICK x \in {"requested", "ended"} : pc' = [pc EXCEPT ![t] = x] /\ StepOf(t, x)
    <3>1. RequestData(t) => pc' = [pc EXCEPT ![t] = "requested"] /\ StepOf(t, "requested")
      BY DEF RequestData, Remote, Goto, StepOf, RemoteSteps
    <3>2. RemoteEnd(t) => pc' = [pc EXCEPT ![t] = "ended"] /\ StepOf(t, "ended")
      BY DEF RemoteEnd, Goto, StepOf, RemoteSteps, OutSteps, InSteps, InoutSteps
    <3>. QED  BY <1>9, <3>1, <3>2
  <2>2. pc' \in [Tasks -> Steps] /\ \A u \in Tasks : StepOf(u, pc'[u])
    BY <2>1, GotoType
  <2>. QED  BY <1>1, <1>9, <2>2, TypesKept DEF RequestData, RemoteEnd, cVars, javaVars, given
<1>10. ASSUME NEW t \in Tasks, TransferFile(t) PROVE TypeInv'
  <2>1. pc' = [pc EXCEPT ![t] = "received"] /\ StepOf(t, "received")
    BY <1>1, <1>10 DEF TransferFile, Goto, StepOf, RemoteSteps, OutSteps, InSteps, InoutSteps
  <2>2. pc' \in [Tasks -> Steps] /\ \A u \in Tasks : StepOf(u, pc'[u])
    BY <2>1, GotoType
  <2>3. file[Source(t)] \in Contents
    BY <1>0, <1>1
  <2>4. got' \in [Tasks -> Contents]
    BY <1>1, <1>10, <2>3 DEF TransferFile
  <2>. QED  BY <1>1, <1>10, <2>2, <2>4, TypesKept DEF TransferFile, cVars, given
<1>11. ASSUME OpenDataPipe \/ WriteCommand \/ WriteFails \/ CloseDataPipe PROVE TypeInv'
  <2>1. comm' \in CommType
    BY <1>11, CommEffects, Zenon DEF NextComm
  <2>2. WriteCommand => comm.cmd \in Commands
    BY <1>1 DEF WriteCommand, CommInv, CommType
  <2>3. pipe' \in FifoType({"java"}, Commands)
    BY <1>1, <1>11, <2>2, OpenWriteFifo, WriteFifo, CloseWriteFifo
       DEF OpenDataPipe, WriteCommand, WriteFails, CloseDataPipe
  <2>. QED  BY <1>1, <1>11, <2>1, <2>3, TypesKept
              DEF OpenDataPipe, WriteCommand, WriteFails, CloseDataPipe, taskVars, cVars, given
<1>12. ASSUME ReadReply PROVE TypeInv'
  <2>. DEFINE t == comm.task
  <2>1. t \in Tasks /\ program[t] = "remote"
    BY <1>1, <1>12 DEF ReadReply, CommInv
  <2>2. StepOf(t, "sending") /\ pc' = [pc EXCEPT ![t] = "sending"]
    BY <1>12, <2>1 DEF ReadReply, Goto, StepOf, RemoteSteps
  <2>3. pc' \in [Tasks -> Steps] /\ \A u \in Tasks : StepOf(u, pc'[u])
    BY <2>1, <2>2, GotoType
  <2>4. comm' \in CommType /\ server' \in ServerType
    BY <1>12, CommEffects, ServerEffects, Zenon DEF NextComm, NextServer
  <2>. QED  BY <1>1, <1>12, <2>3, <2>4, TypesKept DEF ReadReply, given
<1>13. ASSUME AwaitCommand \/ ReadCommand \/ CloseCommand PROVE TypeInv'
  <2>1. server' \in ServerType
    BY <1>13, ServerEffects, Zenon DEF NextServer
  <2>2. pipe' \in FifoType({"java"}, Commands)
    BY <1>1, <1>13, OpenReadFifo, ReadAllFifo, CloseReadFifo
       DEF AwaitCommand, ReadCommand, CloseCommand
  <2>. QED  BY <1>1, <1>13, <2>1, <2>2, TypesKept
              DEF AwaitCommand, ReadCommand, CloseCommand, taskVars, javaVars, given
<1>14. ASSUME FindRemoved \/ FindSerialized \/ TakeSerialized PROVE TypeInv'
  <2>1. server' \in ServerType
    BY <1>14, ServerEffects, Zenon DEF NextServer
  <2>. QED  BY <1>1, <1>14, <2>1, TypesKept
              DEF FindRemoved, FindSerialized, TakeSerialized, taskVars, javaVars, given
<1>15. ASSUME EraseRemoved \/ TruncateFile \/ WriteSerialized PROVE TypeInv'
  <2>1. server.step \in {"erase", "truncate", "write"}
    BY <1>15 DEF EraseRemoved, TruncateFile, WriteSerialized
  <2>2. server.cmd \in Commands
    BY <1>1, <2>1 DEF FlightInv, ServerType, RemoveSteps, SerializeSteps
  <2>3. server.cmd[2] \in Versions /\ server.obj \in {0} \cup Tasks
    BY <1>1, <2>2, CommandFacts DEF ServerType
  <2>4. server' \in ServerType
    <3>1. WriteSerialized /\ Content(server.obj) = Freed => server' = server
      BY Zenon DEF WriteSerialized
    <3>. QED  BY <1>1, <1>15, <3>1, ServerEffects, Zenon DEF NextServer
  <2>5. cache' \in [Versions -> {0} \cup Tasks]
    BY <1>1, <1>15, <2>3 DEF EraseRemoved, TruncateFile, WriteSerialized
  <2>6. Content(server.obj) \in Contents
    BY <1>3, <2>3
  <2>7. file' \in [Versions -> Contents]
    BY <1>1, <1>2, <1>15, <2>3, <2>6 DEF EraseRemoved, TruncateFile, WriteSerialized
  <2>. QED  BY <1>1, <1>15, <2>4, <2>5, <2>7, TypesKept
              DEF EraseRemoved, TruncateFile, WriteSerialized, taskVars, javaVars, given
<1>16. ASSUME DeleteRemoved PROVE TypeInv'
  <2>1. server' \in ServerType
    BY <1>16, ServerEffects, Zenon DEF NextServer
  <2>2. heap' \in [Tasks -> Contents]
    BY <1>1, <1>2, <1>16 DEF DeleteRemoved
  <2>. QED  BY <1>1, <1>16, <2>1, <2>2, TypesKept DEF DeleteRemoved, taskVars, javaVars, given
<1>17. ASSUME DeleteObject PROVE TypeInv'
  BY <1>1, <1>17, TypesKept DEF DeleteObject, taskVars, cVars, given
<1>. QED
  BY <1>5, <1>6, <1>7, <1>8, <1>9, <1>10, <1>11, <1>12, <1>13, <1>14, <1>15, <1>16, <1>17
     DEF CommStep, ServerStep, RemoteStep

-----------------------------------------------------------------------------
(* The commands and the accesses *)

\* An access that has ended stays so: what was produced, and what is not used any more,
\* remains so.
LEMMA EndedStays ==
    ASSUME TypeInv, program' = program,
           \A u \in Tasks : pc[u] = "ended" => pc'[u] = "ended"
    PROVE  /\ \A v : Produced(v) => Produced(v)'
           /\ \A v : Unused(v) => Unused(v)'
<1>1. /\ Tasks' = Tasks
      /\ \A t : Source(t)' = Source(t) /\ Dest(t)' = Dest(t) /\ Writer(t)' = Writer(t)
  BY SameProgram
<1>2. /\ \A t, v : Writes(t, v)' = Writes(t, v)
      /\ \A t, v : Reads(t, v)' = Reads(t, v)
      /\ \A u \in Tasks : Ended(u) => Ended(u)'
  BY <1>1, Zenon DEF Writes, Reads, Ended
<1>3. ASSUME NEW v, Produced(v) PROVE Produced(v)'
  BY <1>1, <1>2, <1>3, Zenon DEF Produced
<1>4. ASSUME NEW v, Unused(v) PROVE Unused(v)'
  BY <1>1, <1>2, <1>4, Zenon DEF Unused
<1>. QED  BY <1>3, <1>4, Zenon

\* Steps of tasks that have started, and requests of other nodes, keep the accesses.
LEMMA AccessKept ==
    ASSUME TypeInv, AccessInv, program' = program, preserve' = preserve,
           told' = told, deleted => deleted',
           \A u \in Tasks : pc[u] = "ended" => pc'[u] = "ended",
           \A u \in Tasks : pc[u] = "waiting" /\ pc'[u] # "waiting"
              => program[u] = "remote" /\ Produced(Source(u))
    PROVE  AccessInv'
<1>1. /\ Tasks' = Tasks
      /\ \A t : Source(t)' = Source(t) /\ Dest(t)' = Dest(t) /\ Writer(t)' = Writer(t)
  BY SameProgram
<1>2. /\ \A v : Produced(v) => Produced(v)'
      /\ \A v : Unused(v) => Unused(v)'
  BY EndedStays
<1>3. ASSUME NEW t \in Tasks, pc'[t] # "waiting", program[t] # "out"
      PROVE  Produced(Source(t))'
  <2>1. Produced(Source(t))
    BY <1>3, Zenon DEF AccessInv
  <2>2. PICK v : v = Source(t)
    OBVIOUS
  <2>3. Produced(v)'
    BY <1>2, <2>1, <2>2, Zenon
  <2>4. v = Source(t)'
    BY <1>1, <2>2, Zenon
  <2>. QED  BY <2>3, <2>4, Zenon DEF Produced
<1>4. ASSUME NEW t \in Tasks, program[t] = "inout", pc'[t] # "waiting", ~ preserve[t],
             NEW u \in Tasks, Reads(u, Source(t)), u # t
      PROVE  pc'[u] = "ended"
  <2>1. pc[t] # "waiting"
    BY <1>4
  <2>2. pc[u] = "ended"
    BY <1>4, <2>1, Zenon DEF AccessInv, Ended
  <2>. QED  BY <2>2
<1>5. ASSUME NEW v \in told PROVE deleted' /\ Unused(v)'
  BY <1>2, <1>5, Zenon DEF AccessInv
<1>6. \A u, t : Reads(u, Source(t))' = Reads(u, Source(t))
  BY <1>1, Zenon DEF Reads
<1>7. \A t \in Tasks' : pc'[t] # "waiting" /\ program'[t] # "out" => Produced(Source(t))'
  BY <1>1, <1>3, Zenon
<1>8. \A t \in Tasks' : program'[t] = "inout" /\ pc'[t] # "waiting" /\ ~ preserve'[t]
         => \A u \in Tasks' : Reads(u, Source(t))' /\ u # t => Ended(u)'
  <2>1. SUFFICES ASSUME NEW t \in Tasks', program'[t] = "inout", pc'[t] # "waiting",
                        ~ preserve'[t], NEW u \in Tasks', Reads(u, Source(t))', u # t
                 PROVE  Ended(u)'
    BY Zenon
  <2>2. t \in Tasks /\ u \in Tasks /\ program[t] = "inout" /\ ~ preserve[t]
    BY <1>1, <2>1, Zenon
  <2>3. Reads(u, Source(t))
    BY <1>6, <2>1, Zenon
  <2>4. pc'[u] = "ended"
    BY <1>4, <2>1, <2>2, <2>3, Zenon
  <2>. QED  BY <2>4, Zenon DEF Ended
<1>9. \A v \in told' : deleted' /\ Unused(v)'
  BY <1>5, Zenon
<1>. QED  BY <1>7, <1>8, <1>9, Zenon DEF AccessInv

\* Steps of the others keep what the Java thread relies on.
LEMMA CommKept ==
    ASSUME TypeInv, CommInv, program' = program, comm' = comm, told' = told,
           comm.step # "idle" /\ comm.task \in Tasks => pc'[comm.task] = pc[comm.task]
    PROVE  CommInv'
<1>1. /\ Tasks' = Tasks
      /\ \A t : Source(t)' = Source(t)
  BY SameProgram
<1>2. comm.step = "remove" \/ comm.cmd # Null => comm.step # "idle"
  BY DEF CommInv
<1>. QED  BY <1>1, <1>2, Zenon DEF CommInv

\* And the commands stay in flight.
LEMMA FlightKept ==
    ASSUME TypeInv, FlightInv, comm' = comm, told' = told, pipe' = pipe, server' = server
    PROVE  FlightInv'
BY Zenon DEF FlightInv, InFlight

\* The last reader of a version sees no other.
LEMMA LastReader ==
    ASSUME TypeInv, NEW t \in Tasks, program[t] = "inout", ~ IsPreserveSourceData(t),
           pc[t] = "waiting", NEW u \in Tasks, Reads(u, Source(t)), u # t
    PROVE  Ended(u)
<1>. DEFINE R == {x \in Tasks : Reads(x, Source(t)) /\ ~ Ended(x)}
<1>1. SUFFICES ASSUME ~ Ended(u) PROVE FALSE
  OBVIOUS
<1>2. IsFiniteSet(Tasks)
  <2>1. Len(program) \in Nat
    BY TypeFacts
  <2>. QED  BY <2>1, FS_Interval DEF Tasks
<1>3. R \in SUBSET Tasks
  OBVIOUS
<1>4. t \in R /\ u \in R
  BY <1>1 DEF Reads, Ended
<1>5. Readers(Source(t)) = Cardinality(R)
  BY Zenon DEF Readers
<1>. HIDE DEF R
<1>6. IsFiniteSet(R) /\ Cardinality(R) \in Nat
  BY <1>2, <1>3, FS_Subset, FS_CardinalityType
<1>7. Cardinality({t}) = 1 /\ IsFiniteSet({t})
  BY FS_Singleton
<1>8. Cardinality({t} \cup {u}) = 2
  BY <1>7, FS_AddElement
<1>9. {t} \cup {u} \in SUBSET R
  BY <1>4
<1>10. 2 <= Cardinality(R)
  BY <1>6, <1>8, <1>9, FS_Subset
<1>11. ~ (Cardinality(R) > 1)
  BY <1>5, Zenon DEF IsPreserveSourceData
<1>. QED  BY <1>6, <1>10, <1>11

\* The task that the Java thread works for.
LEMMA CommTask ==
    ASSUME TypeInv, CommInv, comm.step # "idle"
    PROVE  comm.task \in Tasks /\ pc[comm.task] \in {"submitted", "requested"}
<1>1. comm.cmd \in {Null} \cup Commands /\ (comm.cmd = Null => comm.step \in {"idle", "remove"})
  BY RecordFields DEF CommInv
<1>2. CASE comm.cmd = Null
  BY <1>1, <1>2 DEF CommInv
<1>3. CASE comm.cmd # Null
  <2>1. comm.cmd[1] \in {"remove", "serialize"}
    BY <1>1, <1>3, CommandFacts
  <2>. QED  BY <1>3, <2>1 DEF CommInv
<1>. QED  BY <1>2, <1>3

\* A step of a task that the Java thread does not work for.
LEMMA PrivateStep ==
    ASSUME BaseInv, NEW t \in Tasks, program' = program,
           UNCHANGED <<comm, told, deleted, pipe, server, preserve>>,
           \A u \in Tasks : u # t => pc'[u] = pc[u],
           pc[t] \notin {"submitted", "requested", "ended"},
           pc[t] = "waiting" /\ pc'[t] # "waiting"
              => program[t] = "remote" /\ Produced(Source(t))
    PROVE  CommInv' /\ FlightInv' /\ AccessInv'
<1>1. TypeInv /\ CommInv /\ FlightInv /\ AccessInv
  BY DEF BaseInv
<1>2. CommInv'
  BY <1>1, CommTask, CommKept
<1>3. FlightInv'
  BY <1>1, FlightKept
<1>4. AccessInv'
  <2>1. \A u \in Tasks : pc[u] = "ended" => pc'[u] = "ended"
    OBVIOUS
  <2>2. \A u \in Tasks : pc[u] = "waiting" /\ pc'[u] # "waiting"
              => program[u] = "remote" /\ Produced(Source(u))
    BY Zenon
  <2>. QED  BY <1>1, <2>1, <2>2, AccessKept
<1>. QED  BY <1>2, <1>3, <1>4

\* A task waits for the writer of its source.
LEMMA ReadyMeans ==
    ASSUME NEW t \in Tasks, program[t] # "out"
    PROVE  Ready(t) <=> Produced(Source(t))
BY Zenon DEF Ready, Produced

\* The tasks: their own steps keep the base invariant.
LEMMA ComputeBase ==
    ASSUME BaseInv, NEW t \in Tasks,
           ComputeStep(t) \/ RequestData(t) \/ TransferFile(t) \/ RemoteEnd(t)
    PROVE  BaseInv'
<1>1. TypeInv /\ CommInv /\ FlightInv
  BY DEF BaseInv
<1>2. pc \in [Tasks -> Steps]
  BY <1>1, TypeFacts
<1>3. TypeInv'
  BY <1>1, ComputeTypes, OtherTypes, Zenon DEF RemoteStep
<1>4. CASE ComputeStep(t)
  <2>1. program' = program /\ UNCHANGED <<comm, told, deleted, pipe, server, preserve>>
    BY <1>4 DEF ComputeStep, FindArgument, TakeArgument, Deserialize, InsertArgument,
       TruncateSource, FetchSource, WriteSource, RereadSource, PeekArgument,
       RenameArgument, RemoveDestFile, Call, cVars, javaVars, given
  <2>2. pc[t] \notin {"submitted", "requested", "ended", "waiting"}
    BY <1>4 DEF ComputeStep, FindArgument, TakeArgument, Deserialize, InsertArgument,
       TruncateSource, FetchSource, WriteSource, RereadSource, PeekArgument,
       RenameArgument, RemoveDestFile, Call
  <2>3. pc' = pc \/ \E x : pc' = [pc EXCEPT ![t] = x]
    BY <1>4, Zenon DEF ComputeStep, FindArgument, TakeArgument, Deserialize, InsertArgument,
       TruncateSource, FetchSource, WriteSource, RereadSource, PeekArgument,
       RenameArgument, RemoveDestFile, Call, ReadObject, Goto
  <2>4. \A u \in Tasks : u # t => pc'[u] = pc[u]
    BY <1>2, <2>3
  <2>. QED  BY <1>3, <2>1, <2>2, <2>4, PrivateStep DEF BaseInv
<1>5. CASE RequestData(t)
  <2>1. /\ program' = program /\ UNCHANGED <<comm, told, deleted, pipe, server, preserve>>
        /\ pc[t] = "waiting" /\ program[t] = "remote" /\ pc' = [pc EXCEPT ![t] = "requested"]
    BY <1>5 DEF RequestData, Remote, Goto, cVars, javaVars, given
  <2>2. Produced(Source(t))
    BY <1>5, <2>1, ReadyMeans DEF RequestData
  <2>3. \A u \in Tasks : u # t => pc'[u] = pc[u]
    BY <1>2, <2>1
  <2>. QED  BY <1>3, <2>1, <2>2, <2>3, PrivateStep DEF BaseInv
<1>6. CASE TransferFile(t) \/ RemoteEnd(t)
  <2>1. /\ program' = program /\ UNCHANGED <<comm, told, deleted, pipe, server, preserve>>
        /\ pc[t] \in {"sending", "received"} /\ \E x : pc' = [pc EXCEPT ![t] = x]
    BY <1>6 DEF TransferFile, RemoteEnd, Goto, cVars, javaVars, given
  <2>2. \A u \in Tasks : u # t => pc'[u] = pc[u]
    BY <1>2, <2>1
  <2>. QED  BY <1>3, <2>1, <2>2, PrivateStep DEF BaseInv
<1>. QED  BY <1>4, <1>5, <1>6

\* The server goes on with a command that it has, or takes none.
LEMMA FlightByServer ==
    ASSUME BaseInv, comm' = comm, told' = told, NEW s, NEW o,
           NextServer(s, server.cmd, o), server.step \notin {"open", "read"},
           pipe'.lines = pipe.lines \/ pipe'.lines = <<>>,
           s \in RemoveSteps => server.cmd # Null /\ server.cmd[1] = "remove",
           s \in SerializeSteps => server.cmd # Null /\ server.cmd[1] = "serialize"
    PROVE  FlightInv'
<1>1. FlightInv
  BY DEF BaseInv
<1>2. server'.step = s /\ server'.cmd = server.cmd
  BY DEF NextServer
<1>3. \A c : InFlight(c)' <=> InFlight(c)
  BY Zenon DEF InFlight
<1>4. ASSUME NEW i \in 1 .. Len(pipe'.lines) PROVE InFlight(pipe'.lines[i])
  BY <1>1, <1>4 DEF FlightInv
<1>5. ASSUME NEW i \in 1 .. Len(pipe'.lines) PROVE InFlight(pipe.lines[i])'
  <2>1. PICK c : c = pipe'.lines[i]
    OBVIOUS
  <2>2. InFlight(c)'
    BY <1>3, <1>4, <2>1, Zenon
  <2>. QED  BY <2>1, <2>2, Zenon DEF InFlight
<1>6. server.cmd # Null => InFlight(server.cmd)
  BY <1>1 DEF FlightInv
<1>7. server'.cmd # Null => InFlight(server.cmd)'
  <2>1. PICK c : c = server.cmd
    OBVIOUS
  <2>2. c # Null => InFlight(c)'
    BY <1>3, <1>6, <2>1, Zenon
  <2>. QED  BY <1>2, <2>1, <2>2, Zenon DEF InFlight
<1>8. server.cmd # Null /\ server.cmd[1] = "serialize" => pipe'.lines = <<>>
  BY <1>1 DEF FlightInv
<1>. QED  BY <1>2, <1>5, <1>7, <1>8, Zenon DEF FlightInv

\* The server keeps the base invariant.
LEMMA ServerBase ==
    ASSUME BaseInv, ServerStep
    PROVE  BaseInv'
<1>1. TypeInv /\ CommInv /\ FlightInv /\ AccessInv
  BY DEF BaseInv
<1>2. TypeInv'
  BY <1>1, OtherTypes
<1>3. program' = program /\ UNCHANGED <<pc, preserve, comm, told, deleted>>
  BY DEF ServerStep, AwaitCommand, ReadCommand, CloseCommand, FindRemoved, EraseRemoved,
     DeleteRemoved, TruncateFile, FindSerialized, TakeSerialized, WriteSerialized,
     taskVars, javaVars, given
<1>4. CommInv' /\ AccessInv'
  BY <1>1, <1>3, CommKept, AccessKept
<1>5. pipe \in FifoType({"java"}, Commands)
  BY <1>1, TypeFacts
<1>7. CASE AwaitCommand
  <2>1. server'.step = "read" /\ pipe' = OpenRead(pipe)
    BY <1>1, <1>7, ServerEffects DEF NextServer, AwaitCommand
  <2>2. pipe'.lines = pipe.lines
    BY <1>5, <2>1, OpenReadFifo
  <2>3. \A i \in 1 .. Len(pipe'.lines) : InFlight(pipe'.lines[i])
    BY <1>1, <2>2, Zenon DEF FlightInv
  <2>4. \A i \in 1 .. Len(pipe'.lines) : InFlight(pipe.lines[i])'
    BY <1>3, <2>3, Zenon DEF InFlight
  <2>5. FlightInv'
    BY <2>1, <2>4 DEF FlightInv, RemoveSteps, SerializeSteps
  <2>. QED  BY <1>2, <1>4, <2>5 DEF BaseInv
<1>8. CASE ReadCommand
  <2>1. /\ server'.step = "close"
        /\ server'.cmd = Null \/ (server'.cmd = pipe.lines[1] /\ 1 \in 1 .. Len(pipe.lines))
    BY <1>1, <1>8, ServerEffects, Zenon DEF NextServer
  <2>2. pipe'.lines = <<>>
    BY <1>5, <1>8, ReadAllFifo DEF ReadCommand
  <2>3. server'.cmd # Null => InFlight(server'.cmd)
    BY <1>1, <2>1 DEF FlightInv
  <2>4. server'.cmd # Null => InFlight(server.cmd)'
    BY <1>3, <2>3, Zenon DEF InFlight
  <2>5. FlightInv'
    BY <2>1, <2>2, <2>4 DEF FlightInv, RemoveSteps, SerializeSteps
  <2>. QED  BY <1>2, <1>4, <2>5 DEF BaseInv
<1>9. CASE CloseCommand
  <2>0. server.step = "close" /\ server.cmd \in {Null} \cup Commands
    BY <1>1, <1>9, RecordFields DEF CloseCommand
  <2>1. pipe'.lines = pipe.lines \/ pipe'.lines = <<>>
    BY <1>5, <1>9, CloseReadFifo DEF CloseCommand
  <2>2. server.cmd # Null => server.cmd[1] \in {"remove", "serialize"}
    BY <1>1, <2>0, CommandFacts
  <2>3. PICK s : /\ NextServer(s, server.cmd, server.obj)
                 /\ \/ s = "open"
                    \/ s = "find_removed" /\ server.cmd # Null /\ server.cmd[1] = "remove"
                    \/ s = "truncate" /\ server.cmd # Null /\ server.cmd[1] # "remove"
    BY <1>1, <1>9, ServerEffects, Zenon
  <2>4. FlightInv'
    BY <1>3, <2>0, <2>1, <2>2, <2>3, FlightByServer DEF RemoveSteps, SerializeSteps
  <2>. QED  BY <1>2, <1>4, <2>4 DEF BaseInv
<1>10. CASE FindRemoved \/ EraseRemoved \/ DeleteRemoved
  <2>1. server.step \in RemoveSteps /\ pipe' = pipe
    BY <1>10 DEF FindRemoved, EraseRemoved, DeleteRemoved, RemoveSteps
  <2>2. PICK s \in {"erase", "open", "delete"} : \E o : NextServer(s, server.cmd, o)
    BY <1>1, <1>10, ServerEffects, Zenon
  <2>3. server.cmd # Null /\ server.cmd[1] = "remove"
    BY <1>1, <2>1 DEF FlightInv
  <2>4. FlightInv'
    BY <1>3, <2>1, <2>2, <2>3, FlightByServer DEF RemoveSteps, SerializeSteps
  <2>. QED  BY <1>2, <1>4, <2>4 DEF BaseInv
<1>11. CASE TruncateFile \/ FindSerialized \/ TakeSerialized \/ WriteSerialized
  <2>1. server.step \in SerializeSteps /\ pipe' = pipe
    BY <1>11 DEF TruncateFile, FindSerialized, TakeSerialized, WriteSerialized, SerializeSteps
  <2>2. CASE server' = server
    BY <1>1, <1>2, <1>3, <1>4, <2>1, <2>2, FlightKept DEF BaseInv
  <2>3. CASE server' # server
    <3>1. WriteSerialized => Content(server.obj) # Freed
      BY <2>3, Zenon DEF WriteSerialized
    <3>2. PICK s \in {"find_serialized", "take", "reply", "write"} :
             \E o : NextServer(s, server.cmd, o)
      BY <1>1, <1>11, <3>1, ServerEffects, Zenon
    <3>3. server.cmd # Null /\ server.cmd[1] = "serialize"
      BY <1>1, <2>1 DEF FlightInv
    <3>4. FlightInv'
      BY <1>3, <2>1, <3>2, <3>3, FlightByServer DEF RemoveSteps, SerializeSteps
    <3>. QED  BY <1>2, <1>4, <3>4 DEF BaseInv
  <2>. QED  BY <2>2, <2>3
<1>. QED  BY <1>7, <1>8, <1>9, <1>10, <1>11 DEF ServerStep

\* While the Java thread is not between the write and the answer of a serialization, only
\* removals are in flight.
LEMMA OnlyRemovals ==
    ASSUME BaseInv, comm.step \notin {"close", "reply"} \/ comm.cmd[1] # "serialize",
           told \subseteq told'
    PROVE  /\ \A i \in 1 .. Len(pipe.lines) : pipe.lines[i][1] = "remove" /\ pipe.lines[i][2] \in told'
           /\ server.step \notin {"open", "read"} /\ server.cmd # Null
                 => server.cmd[1] = "remove" /\ server.cmd[2] \in told'
           /\ server.step \notin SerializeSteps
<1>1. FlightInv
  BY DEF BaseInv
<1>2. \A c : InFlight(c) => c[1] = "remove" /\ c[2] \in told'
  BY DEF InFlight
<1>3. server.step \notin SerializeSteps
  <2>1. server.step \in SerializeSteps => server.step \notin {"open", "read"}
    BY DEF SerializeSteps
  <2>. QED  BY <1>1, <1>2, <2>1 DEF FlightInv
<1>. QED  BY <1>1, <1>2, <1>3, Zenon DEF FlightInv

\* Then the Java thread may go on as it likes.
LEMMA FlightByComm ==
    ASSUME BaseInv, comm.step \notin {"close", "reply"} \/ comm.cmd[1] # "serialize",
           told \subseteq told', server' = server,
           pipe'.lines = pipe.lines \/ pipe'.lines = <<>>
    PROVE  FlightInv'
<1>1. FlightInv
  BY DEF BaseInv
<1>2. \A i \in 1 .. Len(pipe'.lines) : pipe'.lines[i][1] = "remove" /\ pipe'.lines[i][2] \in told'
  BY OnlyRemovals
<1>3. /\ server.step \notin {"open", "read"} /\ server.cmd # Null
           => server.cmd[1] = "remove" /\ server.cmd[2] \in told'
      /\ server.step \notin SerializeSteps
  BY OnlyRemovals
<1>4. \A i \in 1 .. Len(pipe'.lines) : InFlight(pipe.lines[i])'
  BY <1>2, Zenon DEF InFlight
<1>5. server'.step \notin {"open", "read"} /\ server'.cmd # Null => InFlight(server.cmd)'
  BY <1>3, Zenon DEF InFlight
<1>6. server'.step \notin {"open", "read"} /\ server'.cmd # Null => server'.cmd[1] # "serialize"
  BY <1>3
<1>. QED  BY <1>1, <1>3, <1>4, <1>5, <1>6, Zenon DEF FlightInv

\* A task is received.
LEMMA ReceivedBase ==
    ASSUME BaseInv, NEW t \in Tasks, ReceivedNewTask(t)
    PROVE  BaseInv'
<1>0. TypeInv /\ CommInv /\ FlightInv /\ AccessInv
  BY DEF BaseInv
<1>1. TypeInv'
  BY <1>0, OtherTypes, Zenon DEF CommStep
<1>2. /\ program' = program /\ server' = server /\ pipe' = pipe /\ deleted' = deleted
      /\ comm.step = "idle" /\ pc[t] = "waiting" /\ program[t] # "remote"
      /\ pc' = [pc EXCEPT ![t] = "submitted"] /\ told' = told \cup Obsolete
      /\ Ready(t)
  BY DEF ReceivedNewTask, Goto, Remote, cVars, given
<1>3. /\ comm'.step = "remove" /\ comm'.task = t /\ comm'.ids = Obsolete \ told
      /\ comm'.cmd = Null
  BY <1>0, CommEffects, Zenon DEF NextComm
<1>4. /\ Tasks' = Tasks
      /\ \A u : Source(u)' = Source(u) /\ Dest(u)' = Dest(u) /\ Writer(u)' = Writer(u)
  BY <1>2, SameProgram
<1>5. pc \in [Tasks -> Steps] /\ preserve \in [Tasks -> BOOLEAN]
  BY <1>0, TypeFacts
<1>6. pc'[t] = "submitted" /\ \A u \in Tasks : u # t => pc'[u] = pc[u]
  BY <1>2, <1>5
<1>7. CommInv'
  BY <1>2, <1>3, <1>4, <1>6 DEF CommInv
<1>8. FlightInv'
  BY <1>2, FlightByComm
<1>9. /\ \A v : Produced(v) => Produced(v)'
      /\ \A v : Unused(v) => Unused(v)'
  BY <1>0, <1>2, <1>6, EndedStays
<1>10. ASSUME NEW u \in Tasks, pc'[u] # "waiting", program[u] # "out"
       PROVE  Produced(Source(u))'
  <2>1. Produced(Source(u))
    BY <1>0, <1>2, <1>6, <1>10, ReadyMeans DEF AccessInv
  <2>2. PICK v : v = Source(u)
    OBVIOUS
  <2>3. Produced(v)'
    BY <1>9, <2>1, <2>2, Zenon
  <2>4. v = Source(u)'
    BY <1>4, <2>2, Zenon
  <2>. QED  BY <2>3, <2>4, Zenon DEF Produced
<1>11. ASSUME NEW x \in Tasks, program[x] = "inout", pc'[x] # "waiting", ~ preserve'[x],
              NEW u \in Tasks, Reads(u, Source(x)), u # x
       PROVE  pc'[u] = "ended"
  <2>1. pc[u] = "ended"
    <3>1. CASE x = t
      <4>1. preserve'[t] = IsPreserveSourceData(t)
        <5>1. PICK b : b = IsPreserveSourceData(t)
          OBVIOUS
        <5>2. preserve' = [preserve EXCEPT ![t] = b]
          BY <5>1, Zenon DEF ReceivedNewTask
        <5>. QED  BY <1>5, <5>1, <5>2
      <4>2. ~ IsPreserveSourceData(t)
        BY <1>11, <3>1, <4>1, Zenon
      <4>. QED  BY <1>0, <1>2, <1>11, <3>1, <4>2, LastReader, Zenon DEF Ended
    <3>2. CASE x # t
      <4>1. preserve'[x] = preserve[x]
        BY <1>5, <3>2 DEF ReceivedNewTask
      <4>. QED  BY <1>0, <1>6, <1>11, <3>2, <4>1, Zenon DEF AccessInv, Ended
    <3>. QED  BY <3>1, <3>2
  <2>. QED  BY <1>2, <1>6, <2>1
<1>12. ASSUME NEW v \in told' PROVE deleted' /\ Unused(v)'
  <2>1. deleted /\ Unused(v)
    BY <1>0, <1>2, <1>12, Zenon DEF AccessInv, Obsolete, Unused
  <2>. QED  BY <1>2, <1>9, <2>1, Zenon
<1>13. AccessInv'
  <2>1. \A u \in Tasks' : pc'[u] # "waiting" /\ program'[u] # "out" => Produced(Source(u))'
    BY <1>2, <1>4, <1>10, Zenon
  <2>2. \A x \in Tasks' : program'[x] = "inout" /\ pc'[x] # "waiting" /\ ~ preserve'[x]
           => \A u \in Tasks' : Reads(u, Source(x))' /\ u # x => Ended(u)'
    <3>1. SUFFICES ASSUME NEW x \in Tasks', program'[x] = "inout", pc'[x] # "waiting",
                          ~ preserve'[x], NEW u \in Tasks', Reads(u, Source(x))', u # x
                   PROVE  Ended(u)'
      BY Zenon
    <3>2. x \in Tasks /\ u \in Tasks /\ program[x] = "inout"
      BY <1>2, <1>4, <3>1, Zenon
    <3>3. Reads(u, Source(x))
      BY <1>2, <1>4, <3>1, Zenon DEF Reads
    <3>4. pc'[u] = "ended"
      BY <1>11, <3>1, <3>2, <3>3, Zenon
    <3>. QED  BY <3>4, Zenon DEF Ended
  <2>3. \A v \in told' : deleted' /\ Unused(v)'
    BY <1>12, Zenon
  <2>. QED  BY <2>1, <2>2, <2>3, Zenon DEF AccessInv
<1>. QED  BY <1>1, <1>7, <1>8, <1>13 DEF BaseInv

\* The Java thread: the steps that leave the pipe alone.
LEMMA CommBase ==
    ASSUME BaseInv, RemoveObsolete \/ AskForFile \/ \E t \in Tasks : SendData(t)
    PROVE  BaseInv'
<1>0. TypeInv /\ CommInv /\ FlightInv /\ AccessInv
  BY DEF BaseInv
<1>1. TypeInv'
  BY <1>0, OtherTypes, Zenon DEF CommStep
<1>2. /\ program' = program /\ server' = server /\ pipe' = pipe /\ deleted' = deleted
      /\ preserve' = preserve /\ told' = told
  BY DEF RemoveObsolete, AskForFile, SendData, taskVars, cVars, given
<1>3. comm.step \in {"idle", "remove"}
  BY DEF RemoveObsolete, AskForFile, SendData
<1>4. /\ Tasks' = Tasks
      /\ \A u : Source(u)' = Source(u) /\ Dest(u)' = Dest(u) /\ Writer(u)' = Writer(u)
  BY <1>2, SameProgram
<1>5. pc \in [Tasks -> Steps] /\ comm.ids \in SUBSET Versions
  BY <1>0, TypeFacts, RecordFields
<1>6. FlightInv'
  BY <1>2, <1>3, FlightByComm
<1>7. CASE RemoveObsolete
  <2>1. PICK v \in comm.ids : NextComm("open", comm.task, comm.ids \ {v}, <<"remove", v>>, 0)
    BY <1>0, <1>7, CommEffects, Zenon
  <2>2. /\ comm'.step = "open" /\ comm'.task = comm.task /\ comm'.ids = comm.ids \ {v}
        /\ comm'.cmd[1] = "remove" /\ comm'.cmd[2] = v /\ comm'.cmd = <<"remove", v>>
    BY <2>1 DEF NextComm
  <2>3. comm'.cmd # Null
    <3>1. <<"remove", v>> \in Commands
      BY <1>5 DEF Commands
    <3>. QED  BY <1>0, <2>2, <3>1, CommandFacts
  <2>4. pc' = pc /\ comm.step = "remove"
    BY <1>7 DEF RemoveObsolete, taskVars
  <2>5. CommInv'
    BY <1>0, <1>2, <1>4, <2>2, <2>3, <2>4 DEF CommInv
  <2>6. AccessInv'
    BY <1>0, <1>2, <2>4, AccessKept
  <2>. QED  BY <1>1, <1>6, <2>5, <2>6 DEF BaseInv
<1>8. CASE AskForFile
  <2>1. comm'.step = "idle" /\ comm'.ids = {} /\ comm'.cmd = Null
    BY <1>0, <1>8, CommEffects, Zenon DEF NextComm
  <2>2. comm.task \in Tasks /\ pc[comm.task] = "submitted"
    BY <1>0, <1>8 DEF AskForFile, CommInv
  <2>3. pc' = [pc EXCEPT ![comm.task] = "queued"]
    BY <1>8 DEF AskForFile, Goto
  <2>4. \A u \in Tasks : /\ pc[u] = "ended" => pc'[u] = "ended"
                         /\ pc[u] = "waiting" => pc'[u] = "waiting"
    BY <1>5, <2>2, <2>3
  <2>5. CommInv'
    BY <2>1 DEF CommInv
  <2>6. AccessInv'
    BY <1>0, <1>2, <2>4, AccessKept
  <2>. QED  BY <1>1, <1>6, <2>5, <2>6 DEF BaseInv
<1>9. ASSUME NEW t \in Tasks, SendData(t) PROVE BaseInv'
  <2>1. comm.step = "idle" /\ pc[t] = "requested"
    BY <1>9 DEF SendData
  <2>2. program[t] = "remote"
    <3>1. StepOf(t, pc[t]) /\ program[t] \in Directions
      BY <1>0, TypeFacts, VersionFacts
    <3>. QED  BY <2>1, <3>1 DEF StepOf, OutSteps, InSteps, InoutSteps, Directions
  <2>3. CASE file[Source(t)] # Absent
    <3>1. comm' = comm /\ pc' = [pc EXCEPT ![t] = "sending"]
      BY <1>9, <2>3 DEF SendData, Goto
    <3>2. \A u \in Tasks : /\ pc[u] = "ended" => pc'[u] = "ended"
                           /\ pc[u] = "waiting" => pc'[u] = "waiting"
      BY <1>5, <2>1, <3>1
    <3>3. CommInv'
      BY <1>0, <1>2, <2>1, <3>1, CommKept
    <3>4. AccessInv'
      BY <1>0, <1>2, <3>2, AccessKept
    <3>. QED  BY <1>1, <1>6, <3>3, <3>4 DEF BaseInv
  <2>4. CASE file[Source(t)] = Absent
    <3>1. NextComm("open", t, {}, <<"serialize", Source(t)>>, 0) /\ pc' = pc
      BY <1>0, <1>9, <2>4, CommEffects, Zenon DEF SendData
    <3>2. /\ comm'.step = "open" /\ comm'.task = t /\ comm'.ids = {}
          /\ comm'.cmd[1] = "serialize" /\ comm'.cmd[2] = Source(t)
          /\ comm'.cmd = <<"serialize", Source(t)>>
      BY <3>1 DEF NextComm
    <3>3. comm'.cmd # Null
      <4>1. <<"serialize", Source(t)>> \in Commands
        BY <1>0, TypeFacts, VersionFacts DEF Commands
      <4>. QED  BY <1>0, <3>2, <4>1, CommandFacts
    <3>4. CommInv'
      BY <1>0, <1>2, <1>4, <2>1, <2>2, <3>1, <3>2, <3>3 DEF CommInv
    <3>5. AccessInv'
      BY <1>0, <1>2, <3>1, AccessKept
    <3>. QED  BY <1>1, <1>6, <3>4, <3>5 DEF BaseInv
  <2>. QED  BY <2>3, <2>4
<1>. QED  BY <1>7, <1>8, <1>9

\* The Java thread: the steps that use the pipe.
LEMMA PipeBase ==
    ASSUME BaseInv, OpenDataPipe \/ WriteCommand \/ WriteFails \/ CloseDataPipe
    PROVE  BaseInv'
<1>0. TypeInv /\ CommInv /\ FlightInv /\ AccessInv
  BY DEF BaseInv
<1>1. TypeInv'
  BY <1>0, OtherTypes, Zenon DEF CommStep
<1>2. /\ program' = program /\ server' = server /\ deleted' = deleted
      /\ preserve' = preserve /\ told' = told /\ pc' = pc
  BY DEF OpenDataPipe, WriteCommand, WriteFails, CloseDataPipe, taskVars, cVars, given
<1>3. /\ Tasks' = Tasks
      /\ \A u : Source(u)' = Source(u) /\ Dest(u)' = Dest(u) /\ Writer(u)' = Writer(u)
  BY <1>2, SameProgram
<1>4. AccessInv'
  BY <1>0, <1>2, AccessKept
<1>5. pipe \in FifoType({"java"}, Commands)
  BY <1>0, TypeFacts
<1>6. comm.step \in {"open", "write", "close"} /\ comm.cmd # Null /\ comm.cmd \in Commands
  BY <1>0, RecordFields DEF OpenDataPipe, WriteCommand, WriteFails, CloseDataPipe, CommInv
<1>7. comm.cmd[1] \in {"remove", "serialize"}
  BY <1>0, <1>6, CommandFacts
<1>8. CommInv'
  <2>1. CASE /\ comm'.step \in {"open", "write", "close"}
             /\ comm'.task = comm.task /\ comm'.ids = comm.ids /\ comm'.cmd = comm.cmd
    BY <1>0, <1>2, <1>3, <1>6, <2>1 DEF CommInv
  <2>2. CASE /\ comm'.step = "reply" /\ comm.cmd[1] # "remove"
             /\ comm'.task = comm.task /\ comm'.ids = comm.ids /\ comm'.cmd = comm.cmd
    BY <1>0, <1>2, <1>3, <1>6, <1>7, <2>2 DEF CommInv
  <2>3. CASE /\ comm'.step = "remove" /\ comm.cmd[1] = "remove"
             /\ comm'.task = comm.task /\ comm'.ids = comm.ids /\ comm'.cmd = Null
    BY <1>0, <1>2, <1>3, <1>6, <2>3 DEF CommInv
  <2>4. CASE comm'.step = "idle" /\ comm'.ids = {} /\ comm'.cmd = Null
    BY <2>4 DEF CommInv
  <2>5. OpenDataPipe => NextComm("write", comm.task, comm.ids, comm.cmd, comm.retries)
    BY <1>0, CommEffects, Zenon
  <2>6. WriteCommand => NextComm("close", comm.task, comm.ids, comm.cmd, comm.retries)
    BY <1>0, CommEffects, Zenon
  <2>7. WriteFails
          => \/ NextComm("open", comm.task, comm.ids, comm.cmd, comm.retries + 1)
             \/ /\ comm.cmd[1] = "remove"
                /\ NextComm("remove", comm.task, comm.ids, Null, comm.retries)
             \/ NextComm("idle", 0, {}, Null, 0)
    BY <1>0, CommEffects, Zenon
  <2>8. CloseDataPipe
          => \/ /\ comm.cmd[1] = "remove"
                /\ NextComm("remove", comm.task, comm.ids, Null, comm.retries)
             \/ /\ comm.cmd[1] # "remove"
                /\ NextComm("reply", comm.task, comm.ids, comm.cmd, comm.retries)
    BY <1>0, CommEffects, Zenon
  <2>. QED  BY <2>1, <2>2, <2>3, <2>4, <2>5, <2>6, <2>7, <2>8 DEF NextComm
<1>9. CASE OpenDataPipe \/ WriteFails
  <2>1. comm.step \notin {"close", "reply"}
    BY <1>9 DEF OpenDataPipe, WriteFails
  <2>2. pipe'.lines = pipe.lines \/ pipe'.lines = <<>>
    BY <1>5, <1>9, OpenWriteFifo, CloseWriteFifo DEF OpenDataPipe, WriteFails
  <2>3. FlightInv'
    BY <1>2, <2>1, <2>2, FlightByComm
  <2>. QED  BY <1>1, <1>4, <1>8, <2>3 DEF BaseInv
<1>10. CASE CloseDataPipe
  <2>1. pipe'.lines = pipe.lines \/ pipe'.lines = <<>>
    BY <1>5, <1>10, CloseWriteFifo DEF CloseDataPipe
  <2>2. CASE comm.cmd[1] # "serialize"
    <3>1. FlightInv'
      BY <1>2, <2>1, <2>2, FlightByComm
    <3>. QED  BY <1>1, <1>4, <1>8, <3>1 DEF BaseInv
  <2>3. CASE comm.cmd[1] = "serialize"
    <3>1. comm'.cmd = comm.cmd /\ comm'.step = "reply"
      BY <1>0, <1>10, <2>3, CommEffects DEF NextComm
    <3>2. comm.step = "close"
      BY <1>10 DEF CloseDataPipe
    <3>3. \A c : InFlight(c) => \/ c[1] = "remove" /\ c[2] \in told'
                                \/ /\ c[1] = "serialize" /\ comm'.cmd = c
                                   /\ comm'.step \in {"close", "reply"}
      BY <1>2, <3>1 DEF InFlight
    <3>4. \A i \in 1 .. Len(pipe'.lines) : InFlight(pipe'.lines[i])
      BY <1>0, <2>1 DEF FlightInv
    <3>5. \A i \in 1 .. Len(pipe'.lines) : InFlight(pipe.lines[i])'
      BY <3>3, <3>4, Zenon DEF InFlight
    <3>6. server'.step \notin {"open", "read"} /\ server'.cmd # Null => InFlight(server'.cmd)
      BY <1>0, <1>2 DEF FlightInv
    <3>7. server'.step \notin {"open", "read"} /\ server'.cmd # Null => InFlight(server.cmd)'
      BY <3>3, <3>6, Zenon DEF InFlight
    <3>8. FlightInv'
      BY <1>0, <1>2, <2>1, <3>5, <3>7, Zenon DEF FlightInv
    <3>. QED  BY <1>1, <1>4, <1>8, <3>8 DEF BaseInv
  <2>. QED  BY <2>2, <2>3
<1>11. CASE WriteCommand
  <2>0. PICK n \in Nat : n = Len(pipe.lines)
    BY <1>0, RecordFields
  <2>1. /\ comm.step = "write" /\ pipe' = Write(pipe, comm.cmd)
    BY <1>11 DEF WriteCommand
  <2>2. comm'.step = "close" /\ comm'.cmd = comm.cmd
    BY <1>0, <1>11, CommEffects DEF NextComm
  <2>3. /\ Len(pipe'.lines) = n + 1 /\ pipe'.lines[n + 1] = comm.cmd
        /\ \A i \in 1 .. n : pipe'.lines[i] = pipe.lines[i]
    BY <1>5, <1>6, <2>0, <2>1, WriteFifo
  <2>4. /\ \A i \in 1 .. n : pipe.lines[i][1] = "remove" /\ pipe.lines[i][2] \in told'
        /\ server.step \notin {"open", "read"} /\ server.cmd # Null
              => server.cmd[1] = "remove" /\ server.cmd[2] \in told'
        /\ server.step \notin SerializeSteps
    BY <1>2, <2>0, <2>1, OnlyRemovals
  <2>5. comm.cmd[1] = "remove" => comm.cmd[2] \in told'
    BY <1>0, <1>2, <1>6 DEF CommInv
  <2>6. ASSUME NEW i \in 1 .. Len(pipe'.lines) PROVE InFlight(pipe.lines[i])'
    <3>1. CASE i \in 1 .. n
      <4>1. pipe'.lines[i][1] = "remove" /\ pipe'.lines[i][2] \in told'
        BY <2>3, <2>4, <3>1
      <4>. QED  BY <4>1, Zenon DEF InFlight
    <3>2. CASE i = n + 1
      <4>1. pipe'.lines[i] = comm.cmd
        BY <2>3, <3>2
      <4>. QED  BY <1>7, <2>2, <2>5, <4>1 DEF InFlight
    <3>. QED  BY <2>0, <2>3, <3>1, <3>2
  <2>7. server'.step \notin {"open", "read"} /\ server'.cmd # Null
          => InFlight(server.cmd)' /\ server'.cmd[1] # "serialize"
    BY <1>2, <2>4 DEF InFlight
  <2>8. FlightInv'
    BY <1>0, <1>2, <2>4, <2>6, <2>7, Zenon DEF FlightInv
  <2>. QED  BY <1>1, <1>4, <1>8, <2>8 DEF BaseInv
<1>. QED  BY <1>9, <1>10, <1>11

\* The answer of a serialization.
LEMMA ReplyBase ==
    ASSUME BaseInv, ReadReply
    PROVE  BaseInv'
<1>0. TypeInv /\ CommInv /\ FlightInv /\ AccessInv
  BY DEF BaseInv
<1>1. TypeInv'
  BY <1>0, OtherTypes, Zenon DEF CommStep
<1>2. /\ program' = program /\ pipe' = pipe /\ deleted' = deleted /\ preserve' = preserve
      /\ told' = told /\ server.step = "reply" /\ comm.step = "reply"
      /\ pc' = [pc EXCEPT ![comm.task] = "sending"]
  BY DEF ReadReply, Goto, given
<1>3. /\ comm'.step = "idle" /\ comm'.ids = {} /\ comm'.cmd = Null
      /\ server'.step = "open"
  BY <1>0, CommEffects, ServerEffects, Zenon DEF NextComm, NextServer
<1>4. comm.task \in Tasks /\ pc[comm.task] \in {"submitted", "requested"}
  BY <1>0, <1>2, CommTask
<1>5. pc \in [Tasks -> Steps]
  BY <1>0, TypeFacts
<1>6. \A u \in Tasks : /\ pc[u] = "ended" => pc'[u] = "ended"
                       /\ pc[u] = "waiting" => pc'[u] = "waiting"
  BY <1>2, <1>4, <1>5
<1>7. CommInv'
  BY <1>3 DEF CommInv
<1>8. AccessInv'
  BY <1>0, <1>2, <1>6, AccessKept
<1>9. pipe'.lines = <<>>
  BY <1>0, <1>2 DEF FlightInv, SerializeSteps
<1>10. FlightInv'
  BY <1>3, <1>9 DEF FlightInv, RemoveSteps, SerializeSteps
<1>. QED  BY <1>1, <1>7, <1>8, <1>10 DEF BaseInv

\* Initially the base invariant holds.
LEMMA BaseInit == Init => BaseInv
<1>. SUFFICES ASSUME Init PROVE BaseInv
  OBVIOUS
<1>1. TypeInv
  BY TypeInit
<1>2. pipe.lines = <<>> /\ server.step = "read" /\ comm.step = "idle" /\ comm.ids = {}
      /\ comm.cmd = Null /\ told = {} /\ \A t \in Tasks : pc[t] = "waiting"
  BY EmptyOpen DEF Init, Idle, Waiting
<1>. QED  BY <1>1, <1>2 DEF BaseInv, CommInv, FlightInv, AccessInv, RemoveSteps, SerializeSteps

\* The base invariant is inductive, whatever is assumed of the timing.
LEMMA BaseStep == BaseInv /\ [Next]_vars => BaseInv'
<1>. SUFFICES ASSUME BaseInv, [Next]_vars PROVE BaseInv'
  OBVIOUS
<1>1. CASE CommStep
  BY <1>1, ReceivedBase, CommBase, PipeBase, ReplyBase, Zenon DEF CommStep
<1>2. CASE ServerStep
  BY <1>2, ServerBase
<1>3. CASE RemoteStep \/ \E t \in Tasks : ComputeStep(t)
  BY <1>3, ComputeBase, Zenon DEF RemoteStep
<1>4. CASE DeleteObject
  <2>0. TypeInv /\ CommInv /\ FlightInv /\ AccessInv
    BY DEF BaseInv
  <2>1. TypeInv'
    BY <1>4, <2>0, OtherTypes
  <2>2. /\ program' = program /\ UNCHANGED <<pc, preserve, comm, told, server, pipe>>
        /\ deleted'
    BY <1>4 DEF DeleteObject, taskVars, cVars, given
  <2>3. CommInv'
    BY <2>0, <2>2, CommKept
  <2>4. FlightInv'
    BY <2>0, <2>2, FlightKept
  <2>5. AccessInv'
    BY <2>0, <2>2, AccessKept
  <2>. QED  BY <2>1, <2>3, <2>4, <2>5 DEF BaseInv
<1>5. CASE UNCHANGED vars
  <2>0. TypeInv /\ CommInv /\ FlightInv /\ AccessInv
    BY DEF BaseInv
  <2>1. /\ program' = program /\ UNCHANGED <<pc, preserve, comm, told, server, pipe, deleted>>
        /\ UNCHANGED <<arg, oData, heap, cache, file, got, env>>
    BY <1>5 DEF vars
  <2>2. TypeInv'
    BY <2>0, <2>1, TypeFacts, TypesKept
  <2>3. CommInv' /\ FlightInv' /\ AccessInv'
    BY <2>0, <2>1, CommKept, FlightKept, AccessKept
  <2>. QED  BY <2>2, <2>3 DEF BaseInv
<1>. QED  BY <1>1, <1>2, <1>3, <1>4, <1>5 DEF Next, ThreadStep

\* Every variable keeps its domain, and a task takes the steps of its direction only.
THEOREM TypeCorrect == Spec => []TypeOK
<1>1. BaseInv => TypeOK
  BY DEF BaseInv, TypeInv
<1>. QED  BY <1>1, BaseInit, BaseStep, PTL DEF Spec

-----------------------------------------------------------------------------
(* What the master reports is dropped *)

\* A task that has not ended accesses no version that was reported.
LEMMA NotTold ==
    ASSUME BaseInv, NEW t \in Tasks, ~ Ended(t), NEW v \in told
    PROVE  /\ v # Dest(t)
           /\ program[t] # "out" => v # Source(t)
<1>1. Unused(v)
  BY Zenon DEF BaseInv, AccessInv
<1>2. ~ Reads(t, v) /\ ~ Writes(t, v)
  BY <1>1, Zenon DEF Unused
<1>3. program[t] = "out" => Writer(t)
  BY DEF Writer
<1>. QED  BY <1>2, <1>3 DEF Reads, Writes, Dest

\* Steps of the tasks leave the commands and what was reported alone.
LEMMA DropKept ==
    ASSUME DropInv, UNCHANGED <<env, comm, pipe, server, told>>,
           \A v \in told : cache'[v] = cache[v] /\ file'[v] = file[v]
    PROVE  DropInv'
<1>1. SUFFICES ASSUME "paced_commands" \in env PROVE PaceInv' /\ GoneInv'
  BY Zenon DEF DropInv
<1>2. PaceInv /\ GoneInv
  BY <1>1 DEF DropInv
<1>3. PaceInv'
  BY <1>2, Zenon DEF PaceInv
<1>4. \A v : Removing(v)' <=> Removing(v)
  BY Zenon DEF Removing
<1>5. GoneInv'
  BY <1>2, <1>4, Zenon DEF GoneInv
<1>. QED  BY <1>3, <1>5

\* The compute threads and the other nodes.
LEMMA ComputeDrop ==
    ASSUME BaseInv, DropInv, NEW t \in Tasks,
           ComputeStep(t) \/ RequestData(t) \/ TransferFile(t) \/ RemoteEnd(t)
    PROVE  DropInv'
<1>. DEFINE S == Source(t)
            D == Dest(t)
<1>0. TypeInv
  BY DEF BaseInv
<1>1. /\ cache \in [Versions -> {0} \cup Tasks] /\ file \in [Versions -> Contents]
      /\ told \subseteq Versions /\ StepOf(t, pc[t]) /\ program[t] \in Directions
  BY <1>0, TypeFacts, VersionFacts
<1>2. UNCHANGED <<env, comm, pipe, server, told>>
  BY DEF ComputeStep, FindArgument, TakeArgument, Deserialize, InsertArgument,
       TruncateSource, FetchSource, WriteSource, RereadSource, PeekArgument,
       RenameArgument, RemoveDestFile, Call, RequestData, TransferFile, RemoteEnd, cVars,
       javaVars, given
<1>3. ~ Ended(t)
  BY DEF ComputeStep, FindArgument, TakeArgument, Deserialize, InsertArgument,
       TruncateSource, FetchSource, WriteSource, RereadSource, PeekArgument,
       RenameArgument, RemoveDestFile, Call, RequestData, TransferFile, RemoteEnd, Ended
<1>4. \A v \in told : v # D /\ (program[t] # "out" => v # S)
  BY <1>3, NotTold
<1>5. pc[t] \in {"rename", "truncate_source", "write_source"} => program[t] # "out"
  BY <1>1 DEF StepOf, OutSteps
<1>. HIDE DEF S, D
<1>6. CASE cache' = cache /\ file' = file
  BY <1>2, <1>6, DropKept
<1>7. CASE InsertArgument(t)
  <2>1. \A v \in told : cache'[v] = cache[v] /\ file'[v] = file[v]
    BY <1>1, <1>4, <1>7 DEF InsertArgument, D
  <2>. QED  BY <1>2, <2>1, DropKept
<1>8. CASE RenameArgument(t)
  <2>1. \A v \in told : cache'[v] = cache[v] /\ file'[v] = file[v]
    BY <1>1, <1>4, <1>5, <1>8 DEF RenameArgument, S, D
  <2>. QED  BY <1>2, <2>1, DropKept
<1>9. CASE TruncateSource(t) \/ RemoveDestFile(t)
  <2>1. \A v \in told : cache'[v] = cache[v] /\ file'[v] = file[v]
    BY <1>1, <1>4, <1>5, <1>9 DEF TruncateSource, RemoveDestFile, cVars, S, D
  <2>. QED  BY <1>2, <2>1, DropKept
<1>10. CASE WriteSource(t)
  <2>1. \/ file' = file
        \/ \E c : file' = [file EXCEPT ![S] = c]
    BY <1>10, Zenon DEF WriteSource, S
  <2>2. cache' = cache /\ program[t] # "out"
    BY <1>5, <1>10 DEF WriteSource, cVars
  <2>3. \A v \in told : cache'[v] = cache[v] /\ file'[v] = file[v]
    BY <1>1, <1>4, <2>1, <2>2
  <2>. QED  BY <1>2, <2>3, DropKept
<1>11. FindArgument(t) \/ TakeArgument(t) \/ Deserialize(t) \/ FetchSource(t)
         \/ RereadSource(t) \/ PeekArgument(t) \/ Call(t)
         \/ RequestData(t) \/ TransferFile(t) \/ RemoteEnd(t)
         => cache' = cache /\ file' = file
  BY DEF FindArgument, TakeArgument, Deserialize, FetchSource, RereadSource, PeekArgument, Call,
         RequestData, TransferFile, RemoteEnd, cVars
<1>. QED  BY <1>6, <1>7, <1>8, <1>9, <1>10, <1>11 DEF ComputeStep

\* The Java thread: the steps that leave the pipe alone.
LEMMA CommDrop ==
    ASSUME BaseInv, DropInv,
           RemoveObsolete \/ AskForFile \/ (\E t \in Tasks : ReceivedNewTask(t) \/ SendData(t))
    PROVE  DropInv'
<1>0. TypeInv /\ CommInv /\ FlightInv /\ AccessInv
  BY DEF BaseInv
<1>1. UNCHANGED <<env, pipe, server, cache>>
  BY DEF RemoveObsolete, AskForFile, ReceivedNewTask, SendData, cVars, given
<1>2. SUFFICES ASSUME "paced_commands" \in env PROVE PaceInv' /\ GoneInv'
  BY <1>1, Zenon DEF DropInv
<1>3. PaceInv /\ GoneInv
  BY <1>2 DEF DropInv
<1>4. /\ file \in [Versions -> Contents] /\ told \subseteq Versions
      /\ comm.ids \in SUBSET Versions
  BY <1>0, TypeFacts, RecordFields
<1>5. comm.step \in {"idle", "remove"} /\ comm.cmd = Null
  BY <1>0 DEF RemoveObsolete, AskForFile, ReceivedNewTask, SendData, CommInv
<1>6. \A v \in told : <<"remove", v>> \in Commands /\ <<"remove", v>> # Null
  <2>1. \A v \in told : <<"remove", v>> \in Commands
    BY <1>4 DEF Commands
  <2>. QED  BY <1>0, <2>1, CommandFacts, Zenon
<1>7. \A v \in told : Removing(v) =>
         \/ v \in comm.ids
         \/ \E i \in 1 .. Len(pipe'.lines) : pipe'.lines[i] = <<"remove", v>>
         \/ server'.cmd = <<"remove", v>> /\ server'.step \in {"close", "find_removed", "erase"}
  BY <1>1, <1>5, <1>6, Zenon DEF Removing
<1>8. comm'.step \in {"idle", "remove", "open"} => PaceInv'
  BY <1>1, <1>3, <1>5 DEF PaceInv
<1>9. ASSUME NEW t \in Tasks, ReceivedNewTask(t) PROVE PaceInv' /\ GoneInv'
  <2>1. comm'.step = "remove" /\ comm'.ids = Obsolete \ told
    BY <1>0, <1>9, CommEffects, Zenon DEF NextComm
  <2>2. told' = told \cup Obsolete /\ file' = file /\ comm.ids = {}
    BY <1>0, <1>9 DEF ReceivedNewTask, CommInv
  <2>3. ASSUME NEW v \in told'
        PROVE  (Removing(v)' \/ cache'[v] = 0) /\ (v \in comm'.ids \/ file'[v] = Absent)
    <3>1. CASE v \in told
      <4>1. (Removing(v) \/ cache'[v] = 0) /\ file'[v] = Absent
        BY <1>1, <1>3, <2>2, <3>1 DEF GoneInv
      <4>2. Removing(v) => Removing(v)'
        BY <1>7, <2>2, <3>1, Zenon DEF Removing
      <4>. QED  BY <4>1, <4>2
    <3>2. CASE v \notin told
      <4>1. v \in comm'.ids
        BY <2>1, <2>2, <2>3, <3>2
      <4>. QED  BY <4>1, Zenon DEF Removing
    <3>. QED  BY <3>1, <3>2
  <2>. QED  BY <1>8, <2>1, <2>3, Zenon DEF GoneInv
<1>10. ASSUME NEW t \in Tasks, SendData(t) PROVE PaceInv' /\ GoneInv'
  <2>1. comm'.step \in {"idle", "open"} /\ comm'.ids = {}
    <3>1. CASE file[Source(t)] # Absent
      BY <1>0, <1>10, <3>1 DEF SendData, CommInv
    <3>2. CASE file[Source(t)] = Absent
      BY <1>0, <1>10, <3>2, CommEffects, Zenon DEF NextComm
    <3>. QED  BY <3>1, <3>2
  <2>2. told' = told /\ file' = file /\ comm.ids = {}
    BY <1>0, <1>10 DEF SendData, CommInv
  <2>3. ASSUME NEW v \in told'
        PROVE  (Removing(v)' \/ cache'[v] = 0) /\ (v \in comm'.ids \/ file'[v] = Absent)
    <3>1. (Removing(v) \/ cache'[v] = 0) /\ file'[v] = Absent
      BY <1>1, <1>3, <2>2, <2>3 DEF GoneInv
    <3>2. Removing(v) => Removing(v)'
      BY <1>7, <2>2, <2>3, Zenon DEF Removing
    <3>. QED  BY <3>1, <3>2
  <2>. QED  BY <1>8, <2>1, <2>3, Zenon DEF GoneInv
<1>11. ASSUME RemoveObsolete PROVE PaceInv' /\ GoneInv'
  <2>1. PICK x \in comm.ids :
           /\ file' = [file EXCEPT ![x] = Absent]
           /\ NextComm("open", comm.task, comm.ids \ {x}, <<"remove", x>>, 0)
    BY <1>0, <1>11, CommEffects, Zenon
  <2>2. comm'.step = "open" /\ comm'.ids = comm.ids \ {x} /\ comm'.cmd = <<"remove", x>>
    BY <2>1, Zenon DEF NextComm
  <2>3. told' = told /\ x \in Versions
    BY <1>4, <1>11, <2>1 DEF RemoveObsolete
  <2>4. ASSUME NEW v \in told'
        PROVE  (Removing(v)' \/ cache'[v] = 0) /\ (v \in comm'.ids \/ file'[v] = Absent)
    <3>1. (Removing(v) \/ cache'[v] = 0) /\ (v \in comm.ids \/ file[v] = Absent) /\ v \in Versions
      BY <1>1, <1>3, <1>4, <2>3, <2>4 DEF GoneInv
    <3>2. CASE v = x
      <4>1. Removing(v)'
        BY <2>2, <3>2 DEF Removing
      <4>2. file'[v] = Absent
        BY <1>4, <2>1, <2>3, <3>2
      <4>. QED  BY <4>1, <4>2
    <3>3. CASE v # x
      <4>1. v \in comm.ids => v \in comm'.ids
        BY <2>2, <3>3
      <4>2. file'[v] = file[v]
        BY <1>4, <2>1, <3>1, <3>3
      <4>3. Removing(v) => Removing(v)'
        BY <1>7, <2>3, <2>4, <4>1, Zenon DEF Removing
      <4>. QED  BY <3>1, <4>1, <4>2, <4>3
    <3>. QED  BY <3>2, <3>3
  <2>. QED  BY <1>8, <2>2, <2>4, Zenon DEF GoneInv
<1>12. ASSUME AskForFile PROVE PaceInv' /\ GoneInv'
  <2>1. comm'.step = "idle" /\ comm.ids = {} /\ told' = told
    BY <1>0, <1>12, CommEffects, Zenon DEF NextComm, AskForFile
  <2>2. PICK t \in Tasks : t = comm.task /\ pc[t] = "submitted"
    BY <1>0, <1>12 DEF AskForFile, CommInv
  <2>3. \/ file' = file
        \/ /\ program[t] = "inout"
           /\ file' = [file EXCEPT ![Dest(t)] = file[Source(t)],
                                   ![Source(t)] = IF preserve[t] THEN @ ELSE Absent]
    BY <1>12, <2>2 DEF AskForFile
  <2>4. ASSUME NEW v \in told PROVE file'[v] = file[v]
    <3>1. v # Dest(t) /\ (program[t] # "out" => v # Source(t))
      BY <2>2, NotTold DEF Ended
    <3>. QED  BY <1>4, <2>3, <3>1
  <2>5. ASSUME NEW v \in told'
        PROVE  (Removing(v)' \/ cache'[v] = 0) /\ (v \in comm'.ids \/ file'[v] = Absent)
    <3>1. (Removing(v) \/ cache'[v] = 0) /\ file'[v] = Absent
      BY <1>1, <1>3, <2>1, <2>4, <2>5 DEF GoneInv
    <3>2. Removing(v) => Removing(v)'
      BY <1>7, <2>1, <2>5, Zenon DEF Removing
    <3>. QED  BY <3>1, <3>2
  <2>. QED  BY <1>8, <2>1, <2>5, Zenon DEF GoneInv
<1>. QED  BY <1>9, <1>10, <1>11, <1>12

\* The Java thread: the steps that use the pipe. With paced commands no write fails.
LEMMA PipeDrop ==
    ASSUME BaseInv, DropInv, OpenDataPipe \/ WriteCommand \/ WriteFails \/ CloseDataPipe
    PROVE  DropInv'
<1>0. TypeInv /\ CommInv /\ FlightInv
  BY DEF BaseInv
<1>1. UNCHANGED <<env, server, cache, file, told>>
  BY DEF OpenDataPipe, WriteCommand, WriteFails, CloseDataPipe, cVars, given
<1>2. SUFFICES ASSUME "paced_commands" \in env PROVE PaceInv' /\ GoneInv'
  BY <1>1, Zenon DEF DropInv
<1>3. PaceInv /\ GoneInv
  BY <1>2 DEF DropInv
<1>4. pipe \in FifoType({"java"}, Commands) /\ pipe.lines \in Seq(Commands)
  BY <1>0, TypeFacts, RecordFields
<1>5. comm.cmd \in Commands
  BY <1>0, RecordFields DEF OpenDataPipe, WriteCommand, WriteFails, CloseDataPipe, CommInv
<1>6. comm'.ids = comm.ids
  <2>1. comm.step = "write" => pipe.reader
    BY <1>3 DEF PaceInv
  <2>2. ~ WriteFails
    BY <2>1 DEF WriteFails, CanWrite
  <2>. QED  BY <1>0, <2>2, CommEffects, Zenon DEF NextComm
<1>7. ASSUME \A v \in told : Removing(v) => Removing(v)' PROVE GoneInv'
  BY <1>1, <1>3, <1>6, <1>7, Zenon DEF GoneInv
<1>8. CASE OpenDataPipe
  <2>1. comm'.step = "write" /\ comm'.cmd = comm.cmd
    BY <1>0, <1>8, CommEffects, Zenon DEF NextComm
  <2>2. comm.step = "open" /\ pipe.reader /\ ~ pipe.met /\ pipe' = OpenWrite(pipe, "java")
    BY <1>2, <1>8 DEF OpenDataPipe, CanOpenWrite
  <2>3. /\ pipe'.reader = pipe.reader /\ pipe'.writers = {"java"} /\ pipe'.met
        /\ pipe'.lines = pipe.lines
    <3>1. pipe.writers = {}
      BY <1>3, <2>2 DEF PaceInv
    <3>2. /\ pipe'.reader = pipe.reader /\ pipe'.writers = pipe.writers \cup {"java"}
          /\ pipe'.met /\ pipe'.lines = pipe.lines
      <4>1. PICK w \in {"java"} : w = "java"
        OBVIOUS
      <4>2. pipe' = OpenWrite(pipe, w)
        BY <2>2, <4>1, Zenon
      <4>. QED  BY <1>4, <4>1, <4>2, OpenWriteFifo
    <3>. QED  BY <3>1, <3>2
  <2>4. server.step = "read" /\ pipe.lines = <<>>
    BY <1>3, <2>2 DEF PaceInv
  <2>5. PaceInv'
    BY <1>1, <1>3, <2>1, <2>3, <2>4 DEF PaceInv
  <2>6. \A v \in told : Removing(v) => Removing(v)'
    BY <1>1, <1>6, <2>1, <2>3 DEF Removing
  <2>. QED  BY <1>7, <2>5, <2>6
<1>9. CASE WriteCommand
  <2>1. comm'.step = "close" /\ comm'.cmd = comm.cmd
    BY <1>0, <1>9, CommEffects, Zenon DEF NextComm
  <2>2. comm.step = "write" /\ pipe' = Write(pipe, comm.cmd)
    BY <1>9 DEF WriteCommand
  <2>3. pipe.lines = <<>> /\ server.step = "read" /\ pipe.met
    BY <1>3, <2>2 DEF PaceInv
  <2>4. /\ pipe'.reader = pipe.reader /\ pipe'.writers = pipe.writers
        /\ pipe'.met = pipe.met /\ Len(pipe'.lines) = 1 /\ pipe'.lines[1] = comm.cmd
    <3>1. Len(pipe.lines) = 0
      BY <2>3
    <3>2. /\ pipe'.reader = pipe.reader /\ pipe'.writers = pipe.writers
          /\ pipe'.met = pipe.met /\ Len(pipe'.lines) = Len(pipe.lines) + 1
          /\ pipe'.lines[Len(pipe.lines) + 1] = comm.cmd
      BY <1>4, <1>5, <2>2, WriteFifo
    <3>. QED  BY <3>1, <3>2
  <2>5. PaceInv'
    BY <1>1, <1>3, <2>1, <2>2, <2>3, <2>4 DEF PaceInv
  <2>6. ASSUME NEW v \in told, Removing(v) PROVE Removing(v)'
    <3>1. CASE v \in comm.ids
      BY <1>6, <3>1, Zenon DEF Removing
    <3>2. CASE comm.cmd = <<"remove", v>>
      BY <2>4, <3>2 DEF Removing
    <3>3. CASE server.cmd = <<"remove", v>> /\ server.step \in {"close", "find_removed", "erase"}
      BY <2>3, <3>3
    <3>. QED  BY <2>3, <2>6, <3>1, <3>2, <3>3 DEF Removing
  <2>. QED  BY <1>7, <2>5, <2>6
<1>10. CASE WriteFails
  BY <1>3, <1>10 DEF PaceInv, WriteFails, CanWrite
<1>11. CASE CloseDataPipe
  <2>1. comm'.step \in {"remove", "reply"}
    BY <1>0, <1>11, CommEffects, Zenon DEF NextComm
  <2>2. comm.step = "close" /\ pipe' = CloseWrite(pipe, "java")
    BY <1>11 DEF CloseDataPipe
  <2>3. /\ pipe'.reader = pipe.reader /\ pipe'.writers = {}
        /\ pipe.reader => pipe'.met = pipe.met
        /\ pipe'.lines = pipe.lines
    <3>1. pipe.lines # <<>> => pipe.reader
      BY <1>3 DEF PaceInv
    <3>2. pipe.writers = {"java"}
      BY <1>3, <2>2 DEF PaceInv
    <3>. QED  BY <1>4, <2>2, <3>1, <3>2, CloseWriteFifo
  <2>4. PaceInv'
    BY <1>1, <1>3, <2>1, <2>2, <2>3 DEF PaceInv
  <2>5. \A v \in told : Removing(v) => Removing(v)'
    BY <1>1, <1>6, <2>2, <2>3 DEF Removing
  <2>. QED  BY <1>7, <2>4, <2>5
<1>. QED  BY <1>8, <1>9, <1>10, <1>11

\* The answer of a serialization.
LEMMA ReplyDrop ==
    ASSUME BaseInv, DropInv, ReadReply
    PROVE  DropInv'
<1>0. TypeInv /\ CommInv /\ FlightInv
  BY DEF BaseInv
<1>1. /\ UNCHANGED <<env, pipe, cache, file, told>>
      /\ comm.step = "reply" /\ server.step = "reply"
  BY DEF ReadReply, given
<1>2. SUFFICES ASSUME "paced_commands" \in env PROVE PaceInv' /\ GoneInv'
  BY <1>1, Zenon DEF DropInv
<1>3. PaceInv /\ GoneInv
  BY <1>2 DEF DropInv
<1>4. comm'.step = "idle" /\ server'.step = "open"
  BY <1>0, CommEffects, ServerEffects, Zenon DEF NextComm, NextServer
<1>5. comm.ids = {}
  BY <1>0, <1>1 DEF CommInv
<1>6. PaceInv'
  BY <1>1, <1>3, <1>4 DEF PaceInv
<1>7. \A v \in told : Removing(v) => Removing(v)'
  BY <1>1, <1>5 DEF Removing
<1>8. GoneInv'
  BY <1>1, <1>3, <1>5, <1>7 DEF GoneInv
<1>. QED  BY <1>6, <1>8

\* The server carries out the removals that it takes.
LEMMA ServerDrop ==
    ASSUME BaseInv, DropInv, ServerStep
    PROVE  DropInv'
<1>0. TypeInv /\ CommInv /\ FlightInv
  BY DEF BaseInv
<1>1. UNCHANGED <<env, comm, told>>
  BY DEF ServerStep, AwaitCommand, ReadCommand, CloseCommand, FindRemoved, EraseRemoved,
       DeleteRemoved, TruncateFile, FindSerialized, TakeSerialized, WriteSerialized,
       javaVars, given
<1>2. SUFFICES ASSUME "paced_commands" \in env PROVE PaceInv' /\ GoneInv'
  BY <1>1, Zenon DEF DropInv
<1>3. PaceInv /\ GoneInv
  BY <1>2 DEF DropInv
<1>4. /\ pipe \in FifoType({"java"}, Commands) /\ pipe.lines \in Seq(Commands)
      /\ cache \in [Versions -> {0} \cup Tasks] /\ file \in [Versions -> Contents]
      /\ told \subseteq Versions /\ server.cmd \in {Null} \cup Commands
  BY <1>0, TypeFacts, RecordFields
<1>5. server.step \in RemoveSteps \cup SerializeSteps => server.cmd \in Commands
  BY <1>0, <1>4 DEF FlightInv
<1>6. server.cmd \in Commands => server.cmd[2] \in Versions
  BY <1>0, CommandFacts
<1>7. ASSUME \A v \in told : Removing(v) \/ cache[v] = 0 => Removing(v)' \/ cache'[v] = 0,
             \A v \in told : file'[v] = file[v]
      PROVE  GoneInv'
  BY <1>1, <1>3, <1>7, Zenon DEF GoneInv
<1>8. \A v \in told : <<"remove", v>> # Null
  <2>1. \A v \in told : <<"remove", v>> \in Commands
    BY <1>4 DEF Commands
  <2>. QED  BY <1>0, <2>1, CommandFacts, Zenon
<1>9. CASE AwaitCommand
  <2>1. server'.step = "read" /\ server'.cmd = Null
    BY <1>0, <1>9, ServerEffects, Zenon DEF NextServer
  <2>2. server.step = "open" /\ pipe' = OpenRead(pipe) /\ UNCHANGED <<cache, file>>
    BY <1>9 DEF AwaitCommand
  <2>3. /\ pipe'.reader /\ pipe'.writers = pipe.writers /\ (pipe'.met <=> pipe.writers # {})
        /\ pipe'.lines = pipe.lines
    BY <1>4, <2>2, OpenReadFifo
  <2>4. pipe.lines = <<>> /\ comm.step # "write"
    BY <1>3, <2>2 DEF PaceInv
  <2>5. PaceInv'
    BY <1>1, <1>3, <2>1, <2>3, <2>4 DEF PaceInv
  <2>6. \A v \in told : Removing(v) => Removing(v)'
    BY <1>1, <2>2, <2>3 DEF Removing
  <2>. QED  BY <1>7, <2>2, <2>5, <2>6
<1>10. CASE ReadCommand
  <2>1. /\ server.step = "read" /\ CanRead(pipe) /\ pipe' = ReadAll(pipe)
        /\ UNCHANGED <<cache, file>>
    BY <1>10 DEF ReadCommand
  <2>2. /\ pipe'.reader = pipe.reader /\ pipe'.writers = pipe.writers
        /\ pipe'.met = pipe.met /\ pipe'.lines = <<>>
    BY <1>4, <2>1, ReadAllFifo
  <2>3. server'.step = "close" /\ (pipe.lines # <<>> => server'.cmd = pipe.lines[1])
    BY <1>0, <1>10, ServerEffects, Zenon DEF NextServer
  <2>4. pipe.met /\ comm.step # "write"
    BY <1>3, <2>1 DEF PaceInv, CanRead
  <2>5. PaceInv'
    BY <1>1, <1>3, <2>1, <2>2, <2>3, <2>4 DEF PaceInv
  <2>6. ASSUME NEW v \in told, Removing(v) PROVE Removing(v)'
    <3>1. CASE v \in comm.ids \/ (comm.cmd = <<"remove", v>> /\ comm.step \in {"open", "write"})
      BY <1>1, <3>1, Zenon DEF Removing
    <3>2. CASE \E i \in 1 .. Len(pipe.lines) : pipe.lines[i] = <<"remove", v>>
      <4>1. pipe.lines # <<>> /\ pipe.lines[1] = <<"remove", v>>
        BY <1>3, <1>4, <3>2 DEF PaceInv
      <4>. QED  BY <2>3, <4>1, Zenon DEF Removing
    <3>. QED  BY <2>1, <2>6, <3>1, <3>2 DEF Removing
  <2>. QED  BY <1>7, <2>1, <2>5, <2>6
<1>11. CASE CloseCommand
  <2>1. server.step = "close" /\ pipe' = CloseRead(pipe) /\ UNCHANGED <<cache, file>>
    BY <1>11 DEF CloseCommand
  <2>2. pipe.lines = <<>> /\ comm.step # "write"
    BY <1>3, <2>1 DEF PaceInv
  <2>3. ~ pipe'.reader /\ pipe'.writers = pipe.writers /\ pipe'.lines = <<>>
    BY <1>4, <2>1, <2>2, CloseReadFifo
  <2>4. /\ server'.cmd = server.cmd /\ server'.step \in {"open", "find_removed", "truncate"}
        /\ server.cmd # Null /\ server.cmd[1] = "remove" => server'.step = "find_removed"
    BY <1>0, <1>11, ServerEffects, Zenon DEF NextServer
  <2>5. PaceInv'
    BY <1>1, <1>3, <2>2, <2>3, <2>4 DEF PaceInv
  <2>6. ASSUME NEW v \in told, Removing(v) PROVE Removing(v)'
    <3>1. CASE server.cmd = <<"remove", v>>
      BY <1>8, <2>4, <3>1 DEF Removing
    <3>. QED  BY <1>1, <2>1, <2>2, <2>3, <2>6, <3>1 DEF Removing
  <2>. QED  BY <1>7, <2>1, <2>5, <2>6
<1>12. ASSUME server.step \notin {"open", "read", "close"}, pipe' = pipe,
              server'.cmd = server.cmd, server'.step \notin {"read", "close"}
       PROVE  PaceInv'
  BY <1>1, <1>3, <1>12 DEF PaceInv
<1>13. CASE FindRemoved
  <2>1. server.step = "find_removed" /\ UNCHANGED <<cache, file, pipe>>
    BY <1>13 DEF FindRemoved
  <2>2. /\ server'.cmd = server.cmd
        /\ (server'.step = "erase" \/ (server'.step = "open" /\ ~ InCache(server.cmd[2])))
    BY <1>0, <1>13, ServerEffects, Zenon DEF NextServer
  <2>3. ASSUME NEW v \in told, Removing(v) PROVE Removing(v)' \/ cache'[v] = 0
    <3>1. CASE server.cmd = <<"remove", v>>
      BY <2>1, <2>2, <3>1 DEF Removing, InCache
    <3>. QED  BY <1>1, <2>1, <2>3, <3>1 DEF Removing
  <2>. QED  BY <1>7, <1>12, <2>1, <2>2, <2>3
<1>14. CASE EraseRemoved
  <2>1. /\ server.step = "erase" /\ UNCHANGED <<file, pipe>>
        /\ cache' = [cache EXCEPT ![server.cmd[2]] = 0]
    BY <1>14 DEF EraseRemoved
  <2>2. server'.cmd = server.cmd /\ server'.step = "delete"
    BY <1>0, <1>14, ServerEffects, Zenon DEF NextServer
  <2>3. ASSUME NEW v \in told, Removing(v) \/ cache[v] = 0 PROVE Removing(v)' \/ cache'[v] = 0
    <3>1. cache'[v] = 0 \/ cache'[v] = cache[v]
      BY <1>4, <2>1
    <3>2. CASE server.cmd = <<"remove", v>>
      BY <1>4, <2>1, <3>2
    <3>. QED  BY <1>1, <2>1, <2>3, <3>1, <3>2 DEF Removing
  <2>. QED  BY <1>7, <1>12, <2>1, <2>2, <2>3
<1>15. CASE DeleteRemoved \/ FindSerialized \/ TakeSerialized
  <2>1. /\ server.step \in {"delete", "find_serialized", "take"}
        /\ UNCHANGED <<cache, file, pipe>>
    BY <1>15 DEF DeleteRemoved, FindSerialized, TakeSerialized
  <2>2. server'.cmd = server.cmd /\ server'.step \in {"open", "take", "write", "reply"}
    BY <1>0, <1>15, ServerEffects, Zenon DEF NextServer
  <2>3. \A v \in told : Removing(v) => Removing(v)'
    BY <1>1, <2>1 DEF Removing
  <2>. QED  BY <1>7, <1>12, <2>1, <2>2, <2>3
<1>16. CASE TruncateFile \/ WriteSerialized
  <2>1. server.step \in {"truncate", "write"} /\ UNCHANGED <<cache, pipe>>
    BY <1>16, Zenon DEF TruncateFile, WriteSerialized
  <2>2. server'.cmd = server.cmd /\ server'.step \in {"find_serialized", "reply", "write"}
    <3>1. CASE WriteSerialized /\ Content(server.obj) = Freed
      <4>1. server' = server
        BY <3>1, Zenon DEF WriteSerialized
      <4>2. server.step = "write"
        BY <3>1, Zenon DEF WriteSerialized
      <4>. QED  BY <4>1, <4>2
    <3>. QED  BY <1>0, <1>16, <3>1, ServerEffects, Zenon DEF NextServer
  <2>3. file' = file \/ \E c : file' = [file EXCEPT ![server.cmd[2]] = c]
    BY <1>16, Zenon DEF TruncateFile, WriteSerialized
  <2>4. /\ server.cmd \in Commands /\ server.cmd[1] = "serialize" /\ InFlight(server.cmd)
    BY <1>0, <1>5, <2>1, CommandFacts DEF FlightInv, SerializeSteps
  <2>5. comm.cmd = server.cmd /\ comm.cmd # Null
    BY <1>0, <2>4, CommandFacts DEF InFlight
  <2>6. PICK t \in Tasks : /\ t = comm.task /\ pc[t] = "requested" /\ program[t] = "remote"
                           /\ server.cmd[2] = Source(t)
    BY <1>0, <2>4, <2>5 DEF CommInv
  <2>7. ASSUME NEW v \in told PROVE file'[v] = file[v]
    <3>1. v # server.cmd[2]
      BY <2>6, NotTold DEF Ended
    <3>. QED  BY <1>4, <2>3, <3>1
  <2>8. \A v \in told : Removing(v) => Removing(v)'
    BY <1>1, <2>1 DEF Removing
  <2>. QED  BY <1>7, <1>12, <2>1, <2>2, <2>7, <2>8
<1>. QED
  BY <1>9, <1>10, <1>11, <1>13, <1>14, <1>15, <1>16 DEF ServerStep

\* No removal is lost while the commands are paced.
LEMMA DropStep == BaseInv /\ DropInv /\ [Next]_vars => DropInv'
<1>. SUFFICES ASSUME BaseInv, DropInv, [Next]_vars PROVE DropInv'
  OBVIOUS
<1>1. CASE CommStep
  BY <1>1, CommDrop, PipeDrop, ReplyDrop, Zenon DEF CommStep
<1>2. CASE ServerStep
  BY <1>2, ServerDrop
<1>3. CASE RemoteStep \/ \E t \in Tasks : ComputeStep(t)
  BY <1>3, ComputeDrop, Zenon DEF RemoteStep
<1>4. CASE DeleteObject \/ UNCHANGED vars
  <2>1. UNCHANGED <<env, comm, pipe, server, told, cache, file>>
    BY <1>4 DEF DeleteObject, vars, taskVars, cVars, given
  <2>. QED  BY <2>1, DropKept
<1>. QED  BY <1>1, <1>2, <1>3, <1>4 DEF Next, ThreadStep

\* With paced commands, whatever the tasks and the server do, a version that the master has
\* reported as obsolete is gone from the cache and from the directory once the Java worker
\* is idle and the C process is back at the data pipe with nothing to read (removeObsolete,
\* removeData).
THEOREM ObsoleteIsDropped == Spec => []ObsoleteDropped
<1>1. Init => DropInv
  <2>. SUFFICES ASSUME Init PROVE DropInv
    OBVIOUS
  <2>1. pipe.lines = <<>> /\ pipe.reader /\ pipe.writers = {} /\ server.step = "read"
        /\ server.cmd = Null /\ comm.step = "idle" /\ told = {}
    BY EmptyOpen DEF Init, Idle, Waiting
  <2>. QED  BY <2>1 DEF DropInv, PaceInv, GoneInv
<1>2. BaseInv /\ DropInv => ObsoleteDropped
  <2>. SUFFICES ASSUME BaseInv, DropInv, "paced_commands" \in env, comm.step = "idle",
                       server.step = "read", pipe.lines = <<>>, NEW v \in told
                PROVE  ~ InCache(v) /\ file[v] = Absent
    BY DEF ObsoleteDropped
  <2>1. comm.ids = {}
    BY DEF BaseInv, CommInv
  <2>2. GoneInv
    BY DEF DropInv
  <2>3. ~ Removing(v)
    BY <2>1 DEF Removing
  <2>. QED  BY <2>1, <2>2, <2>3 DEF GoneInv, InCache
<1>. QED  BY <1>1, <1>2, BaseInit, BaseStep, DropStep, PTL DEF Spec

-----------------------------------------------------------------------------
(* Objects and files: what all the steps use *)

\* The program, and the types.
LEMMA DataTypes ==
    ASSUME BaseInv
    PROVE  /\ pc \in [Tasks -> Steps] /\ preserve \in [Tasks -> BOOLEAN]
           /\ arg \in [Tasks -> {0} \cup Tasks] /\ oData \in [Tasks -> {0} \cup Tasks]
           /\ heap \in [Tasks -> Contents] /\ cache \in [Versions -> {0} \cup Tasks]
           /\ file \in [Versions -> Contents] /\ got \in [Tasks -> Contents]
           /\ told \subseteq Versions
           /\ 0 \notin Tasks /\ Versions \subseteq Nat
           /\ \A t \in Tasks : Source(t) \in Versions /\ Dest(t) \in Versions
           /\ \A t \in Tasks : Writer(t) => Dest(t) # Source(t)
           /\ \A t \in Tasks : ~ Writer(t) => Dest(t) = Source(t)
           /\ \A t, u \in Tasks : Writer(t) /\ Writer(u) /\ Dest(t) = Dest(u) => t = u
           /\ \A t, u \in Tasks : Writer(t) /\ Writer(u) /\ Source(t) = Source(u) => t = u
           /\ \A t \in Tasks : program[t] \in {"in", "inout", "out", "remote"}
           /\ \A t \in Tasks : Writer(t) <=> program[t] \in {"inout", "out"}
<1>1. TypeInv
  BY DEF BaseInv
<1>2. /\ Tasks \subseteq Nat \ {0} /\ Versions \subseteq Nat
      /\ \A t \in Tasks :
            /\ program[t] \in Directions
            /\ Source(t) \in Versions /\ Dest(t) \in Versions
            /\ Writer(t) => Dest(t) = Source(t) + 1
            /\ ~ Writer(t) => Dest(t) = Source(t)
      /\ \A t, u \in Tasks : Writer(t) /\ Writer(u) /\ Dest(t) = Dest(u) => t = u
  BY <1>1, TypeFacts, VersionFacts
<1>3. \A t \in Tasks : Source(t) \in Nat
  BY <1>2
<1>4. \A t, u \in Tasks : Writer(t) /\ Writer(u) /\ Source(t) = Source(u) => t = u
  BY <1>2
<1>5. \A t \in Tasks : Writer(t) => Dest(t) # Source(t)
  BY <1>2, <1>3
<1>. QED  BY <1>1, <1>2, <1>4, <1>5, TypeFacts DEF Directions, Writer

\* Final is Produced, for the steps of the tasks.
LEMMA FinalMeans ==
    ASSUME NEW v
    PROVE  Final(pc, v) <=> Produced(v)
BY Zenon DEF Final, Produced, Writes, Ended

\* The order of the accesses: the writer of a source ends before its readers start, an
\* inout task that does not preserve its source is the last one, and nobody accesses what
\* was reported.
LEMMA AccessOrder ==
    ASSUME BaseInv
    PROVE  /\ \A t \in Tasks : pc[t] # "waiting" /\ program[t] # "out" => Final(pc, Source(t))
           /\ \A t, u \in Tasks : pc[t] # "waiting" /\ program[t] # "out" /\ Writer(u)
                 /\ Dest(u) = Source(t) => pc[u] = "ended"
           /\ \A t, u \in Tasks : program[t] = "inout" /\ pc[t] # "waiting" /\ ~ preserve[t]
                 /\ program[u] # "out" /\ Source(u) = Source(t) /\ u # t => pc[u] = "ended"
           /\ \A t \in Tasks, v \in told : pc[t] # "ended"
                 => Dest(t) # v /\ (program[t] # "out" => Source(t) # v)
<1>1. AccessInv
  BY DEF BaseInv
<1>2. \A t \in Tasks : pc[t] # "waiting" /\ program[t] # "out" => Final(pc, Source(t))
  BY <1>1, FinalMeans, Zenon DEF AccessInv
<1>3. \A t, u \in Tasks : program[t] = "inout" /\ pc[t] # "waiting" /\ ~ preserve[t]
        /\ program[u] # "out" /\ Source(u) = Source(t) /\ u # t => pc[u] = "ended"
  BY <1>1, Zenon DEF AccessInv, Reads, Ended
<1>4. \A t \in Tasks, v \in told : pc[t] # "ended"
        => Dest(t) # v /\ (program[t] # "out" => Source(t) # v)
  BY NotTold, Zenon DEF Ended
<1>5. \A t, u \in Tasks : pc[t] # "waiting" /\ program[t] # "out" /\ Writer(u)
        /\ Dest(u) = Source(t) => pc[u] = "ended"
  BY <1>2, Zenon DEF Final
<1>. QED  BY <1>2, <1>3, <1>4, <1>5, Zenon

\* A task of another node waits for a serialization.
LEMMA SerializeFacts ==
    ASSUME BaseInv, NEW v \in Versions, comm.cmd = <<"serialize", v>>
    PROVE  /\ comm.task \in Tasks /\ pc[comm.task] = "requested"
           /\ program[comm.task] = "remote" /\ v = Source(comm.task)
           /\ comm.step # "idle" /\ comm.step # "remove"
<1>1. TypeInv /\ CommInv
  BY DEF BaseInv
<1>2. comm.cmd[1] = "serialize" /\ comm.cmd[2] = v
  OBVIOUS
<1>3. comm.cmd \in Commands
  BY DEF Commands
<1>4. comm.cmd # Null
  BY <1>1, <1>3, CommandFacts
<1>. QED  BY <1>1, <1>2, <1>4 DEF CommInv

\* The command of the server.
LEMMA ServerCommand ==
    ASSUME BaseInv
    PROVE  /\ server.step \in SerializeSteps
                 => /\ server.cmd[2] \in Versions
                    /\ server.cmd = <<"serialize", server.cmd[2]>>
                    /\ comm.cmd = server.cmd /\ comm.step \in {"close", "reply"}
           /\ server.step \in RemoveSteps
                 => server.cmd[2] \in told /\ server.cmd[1] = "remove"
           /\ server.obj \in {0} \cup Tasks
<1>1. TypeInv /\ FlightInv
  BY DEF BaseInv
<1>2. server.cmd \in {Null} \cup Commands /\ server.obj \in {0} \cup Tasks
  BY <1>1, RecordFields
<1>3. ASSUME server.step \in SerializeSteps
      PROVE  /\ server.cmd[2] \in Versions
             /\ server.cmd = <<"serialize", server.cmd[2]>>
             /\ comm.cmd = server.cmd /\ comm.step \in {"close", "reply"}
  <2>1. server.cmd \in Commands /\ server.cmd[1] = "serialize" /\ InFlight(server.cmd)
    BY <1>1, <1>2, <1>3 DEF FlightInv, SerializeSteps
  <2>2. comm.cmd = server.cmd /\ comm.step \in {"close", "reply"}
    BY <2>1 DEF InFlight
  <2>. QED  BY <1>1, <2>1, <2>2, CommandFacts
<1>4. ASSUME server.step \in RemoveSteps
      PROVE  server.cmd[2] \in told /\ server.cmd[1] = "remove"
  BY <1>1, <1>2, <1>4 DEF FlightInv, RemoveSteps, InFlight
<1>. QED  BY <1>2, <1>3, <1>4, Zenon

\* The steps by direction.
LEMMA StepDirections ==
    ASSUME BaseInv
    PROVE  \A t \in Tasks :
              /\ pc[t] = "take" => program[t] = "in"
              /\ pc[t] \in {"truncate_source", "fetch_source", "write_source", "reread", "peek", "rename"}
                    => program[t] = "inout"
              /\ pc[t] \in {"remove_file"} => program[t] \in {"inout", "out"}
              /\ pc[t] = "deserialize" => program[t] \in {"in", "inout"}
              /\ pc[t] \in {"submitted", "queued", "insert", "call"}
                    => program[t] \in {"in", "inout", "out"}
              /\ pc[t] \in {"requested", "sending", "received"} => program[t] = "remote"
<1>1. \A t \in Tasks : StepOf(t, pc[t]) /\ program[t] \in {"in", "inout", "out", "remote"}
  BY TypeFacts, DataTypes DEF BaseInv
<1>. QED  BY <1>1 DEF StepOf, RemoteSteps, OutSteps, InSteps, InoutSteps

\* A step keeps the data invariant if the next values of the variables satisfy its parts.
LEMMA DataNext ==
    ASSUME program' = program, fault' = "none",
           Objects(pc', cache', arg', heap', server', oData'),
           Files(pc', cache', file', preserve', got', server', comm'.cmd)
    PROVE  DataHolds'
<1>1. /\ Tasks' = Tasks /\ Versions' = Versions
      /\ \A t : Source(t)' = Source(t) /\ Dest(t)' = Dest(t) /\ Writer(t)' = Writer(t)
  BY SameProgram
<1>2. \A v : Final(pc, v)' <=> Final(pc', v)
  BY <1>1, Zenon DEF Final
<1>3. Objects(pc, cache, arg, heap, server, oData)'
  <2>1. PublicObjects(pc, cache, arg, server)'
    BY <1>1, Zenon DEF Objects, PublicObjects
  <2>2. CachedObjects(pc, cache, arg, heap)'
    BY <1>1, <1>2, Zenon DEF Objects, CachedObjects
  <2>3. Arguments(pc, cache, arg, heap)'
    BY <1>1, Zenon DEF Objects, Arguments
  <2>4. ServedObject(pc, cache, arg, heap, server)'
    BY <1>1, Zenon DEF Objects, ServedObject
  <2>5. FetchedObjects(pc, cache, arg, heap, server, oData)'
    BY <1>1, Zenon DEF Objects, FetchedObjects, Settled
  <2>. QED  BY <2>1, <2>2, <2>3, <2>4, <2>5, Zenon DEF Objects
<1>4. Files(pc, cache, file, preserve, got, server, comm.cmd)'
  <2>1. FinalFiles(pc, file, server)'
    BY <1>1, <1>2, Zenon DEF Files, FinalFiles
  <2>2. EarlyFiles(pc, file)'
    BY <1>1, Zenon DEF Files, EarlyFiles
  <2>3. Sources(pc, cache, file, preserve, got)'
    BY <1>1, <1>2, Zenon DEF Files, Sources
  <2>4. Serialized(pc, cache, file, server, comm.cmd)'
    BY <1>1, Zenon DEF Files, Serialized
  <2>. QED  BY <2>1, <2>2, <2>3, <2>4, Zenon DEF Files
<1>. QED  BY <1>3, <1>4, Zenon DEF DataHolds, NoFault

\* Tasks that move where nobody can see their objects keep what is known of the objects.
LEMMA ObjectsKept ==
    ASSUME BaseInv, Objects(pc, cache, arg, heap, server, oData), UNCHANGED <<cache, arg, heap>>,
           server'.step \in {"delete", "write"}
              => server.step = server'.step /\ server'.obj = server.obj /\ server'.cmd = server.cmd,
           \A u \in Tasks :
              /\ pc[u] \in Public => pc'[u] \in Public
              /\ pc'[u] \in Holding => pc[u] \in Holding
              /\ Writer(u) => (pc'[u] = "ended" <=> pc[u] = "ended")
              /\ program[u] = "in" /\ pc'[u] = "call" => pc[u] = "call"
              /\ Writer(u) /\ pc'[u] \in {"remove_file", "call"}
                    => pc[u] \in {"remove_file", "call"}
              /\ pc'[u] = "rename" => pc[u] = "rename"
              /\ pc'[u] \in Private => pc[u] \in Private
              /\ pc'[u] = "write_source"
                    => \/ pc[u] = "write_source" /\ oData'[u] = oData[u]
                       \/ Settled(Source(u), oData'[u], pc, cache, arg, heap, server)
    PROVE  Objects(pc', cache', arg', heap', server', oData')
<1>0. /\ cache \in [Versions -> {0} \cup Tasks] /\ arg \in [Tasks -> {0} \cup Tasks]
      /\ server.obj \in {0} \cup Tasks
      /\ \A t \in Tasks : Writer(t) <=> program[t] \in {"inout", "out"}
  BY DataTypes, ServerCommand
<1>1. /\ PublicObjects(pc, cache, arg, server) /\ CachedObjects(pc, cache, arg, heap)
      /\ Arguments(pc, cache, arg, heap) /\ ServedObject(pc, cache, arg, heap, server)
      /\ FetchedObjects(pc, cache, arg, heap, server, oData)
  BY DEF Objects
<1>2. PublicObjects(pc', cache', arg', server')
  BY <1>0, <1>1 DEF PublicObjects
<1>3. \A v : Final(pc', v) => Final(pc, v)
  BY Zenon DEF Final
<1>4. CachedObjects(pc', cache', arg', heap')
  BY <1>0, <1>1, <1>3 DEF CachedObjects
<1>5. Arguments(pc', cache', arg', heap')
  BY <1>0, <1>1 DEF Arguments
<1>6. ServedObject(pc', cache', arg', heap', server')
  BY <1>1 DEF ServedObject
<1>7. FetchedObjects(pc', cache', arg', heap', server', oData')
  <2>1. ASSUME NEW u \in Tasks, pc'[u] = "write_source"
        PROVE  Settled(Source(u), oData'[u], pc, cache, arg, heap, server)
    BY <1>1, <2>1, Zenon DEF FetchedObjects
  <2>. QED  BY <2>1 DEF FetchedObjects, Settled
<1>. QED  BY <1>2, <1>4, <1>5, <1>6, <1>7 DEF Objects

\* A task moves, and finds its argument where it looks for it.
LEMMA FilesKept ==
    ASSUME BaseInv, Files(pc, cache, file, preserve, got, server, comm.cmd),
           UNCHANGED <<file, server>>,
           comm'.cmd = comm.cmd \/ \A v \in Versions : comm'.cmd # <<"serialize", v>>,
           \A v \in Versions : cache[v] # 0 => cache'[v] # 0,
           \A u \in Tasks :
              /\ Writer(u) => (pc'[u] = "ended" <=> pc[u] = "ended")
              /\ pc'[u] \in {"fetch_source", "write_source", "reread"}
                       <=> pc[u] \in {"fetch_source", "write_source", "reread"}
              /\ pc'[u] \in {"fetch_source", "write_source"}
                       <=> pc[u] \in {"fetch_source", "write_source"}
              /\ Writer(u) /\ pc'[u] \in {"waiting", "submitted", "call"}
                    => pc[u] \in {"waiting", "submitted", "call"}
              /\ pc'[u] \in {"waiting", "submitted", "requested"}
                    => pc[u] \in {"waiting", "submitted", "requested"}
              /\ pc'[u] = "queued" => pc[u] = "queued"
              /\ pc'[u] \in {"take", "truncate_source", "fetch_source", "write_source", "reread", "peek"}
                    => cache'[Source(u)] # 0
              /\ pc'[u] = "deserialize" => file[Dest(u)] = Source(u)
              /\ pc'[u] \in {"reread", "sending"} => file[Source(u)] = Source(u)
              /\ pc'[u] \in {"peek", "rename"} => ~ preserve'[u]
              /\ program[u] = "remote" /\ pc'[u] \in {"received", "ended"} => got'[u] = Source(u)
    PROVE  Files(pc', cache', file', preserve', got', server', comm'.cmd)
<1>0. /\ \A t \in Tasks : Writer(t) <=> program[t] \in {"inout", "out"}
      /\ \A t \in Tasks : Source(t) \in Versions /\ Dest(t) \in Versions
  BY DataTypes
<1>1. /\ FinalFiles(pc, file, server) /\ EarlyFiles(pc, file)
      /\ Sources(pc, cache, file, preserve, got)
      /\ Serialized(pc, cache, file, server, comm.cmd)
  BY DEF Files
<1>2. \A v : Final(pc', v) => Final(pc, v)
  BY Zenon DEF Final
<1>3. FinalFiles(pc', file', server')
  BY <1>1, <1>2 DEF FinalFiles
<1>4. EarlyFiles(pc', file')
  BY <1>1 DEF EarlyFiles
<1>5. Sources(pc', cache', file', preserve', got')
  BY <1>0, <1>1, <1>2 DEF Sources
<1>6. Serialized(pc', cache', file', server', comm'.cmd)
  BY <1>0, <1>1 DEF Serialized
<1>. QED  BY <1>3, <1>4, <1>5, <1>6 DEF Files

\* The server goes on without touching the files.
LEMMA FilesServed ==
    ASSUME Files(pc, cache, file, preserve, got, server, comm.cmd),
           UNCHANGED <<pc, file, preserve, got>>, comm'.cmd = comm.cmd,
           \A v \in Versions : comm.cmd = <<"serialize", v>> /\ cache[v] # 0 => cache'[v] # 0,
           \A t \in Tasks : pc[t] # "ended" /\ program[t] # "out" /\ cache[Source(t)] # 0
              => cache'[Source(t)] # 0,
           \/ server.step \in Writing /\ server'.step \in Writing /\ server'.cmd = server.cmd
           \/ server.step \notin Writing \cup {"reply"} /\ server'.step \notin Writing \cup {"reply"},
           \A t \in Tasks :
                 pc[t] \in {"take", "truncate_source", "fetch_source", "write_source", "reread", "peek"}
              => program[t] # "out"
    PROVE  Files(pc', cache', file', preserve', got', server', comm'.cmd)
<1>1. /\ FinalFiles(pc, file, server) /\ EarlyFiles(pc, file)
      /\ Sources(pc, cache, file, preserve, got)
      /\ Serialized(pc, cache, file, server, comm.cmd)
  BY DEF Files
<1>3. FinalFiles(pc', file', server')
  BY <1>1 DEF FinalFiles
<1>4. EarlyFiles(pc', file')
  BY <1>1 DEF EarlyFiles
<1>5. Sources(pc', cache', file', preserve', got')
  BY <1>1 DEF Sources
<1>6. Serialized(pc', cache', file', server', comm'.cmd)
  BY <1>1 DEF Serialized, Writing
<1>. QED  BY <1>3, <1>4, <1>5, <1>6 DEF Files

-----------------------------------------------------------------------------
(* Objects and files: the other nodes and the Java thread *)

\* A task of another node asks, receives and ends.
LEMMA RemoteData ==
    ASSUME BaseInv, DataHolds, NEW t \in Tasks,
           RequestData(t) \/ TransferFile(t) \/ RemoteEnd(t)
    PROVE  DataHolds'
<1>1. /\ Objects(pc, cache, arg, heap, server, oData) /\ fault = "none"
      /\ Files(pc, cache, file, preserve, got, server, comm.cmd)
      /\ Sources(pc, cache, file, preserve, got)
  BY DEF DataHolds, Files, NoFault
<1>2. /\ pc \in [Tasks -> Steps] /\ got \in [Tasks -> Contents]
      /\ \A u \in Tasks : Writer(u) <=> program[u] \in {"inout", "out"}
  BY DataTypes
<1>3. UNCHANGED <<program, fault, cache, arg, oData, heap, server, comm, file, preserve>>
  BY DEF RequestData, TransferFile, RemoteEnd, cVars, javaVars, given
<1>4. PICK x \in {"requested", "received", "ended"} :
         /\ \A u \in Tasks : pc'[u] = IF u = t THEN x ELSE pc[u]
         /\ x = "requested" => pc[t] = "waiting" /\ got' = got
         /\ x = "received" => pc[t] = "sending" /\ got' = [got EXCEPT ![t] = file[Source(t)]]
         /\ x = "ended" => pc[t] = "received" /\ got' = got
  BY <1>2 DEF RequestData, TransferFile, RemoteEnd, Goto, javaVars
<1>5. program[t] = "remote"
  <2>1. StepOf(t, pc[t]) /\ program[t] \in Directions
    BY TypeFacts, VersionFacts DEF BaseInv
  <2>. QED  BY <1>4, <2>1 DEF RequestData, TransferFile, RemoteEnd, Remote, StepOf, OutSteps,
              InSteps, InoutSteps, Directions
<1>6. \A u \in Tasks : program[u] = "remote" /\ pc'[u] \in {"received", "ended"}
         => got'[u] = Source(u)
  BY <1>1, <1>2, <1>4 DEF Sources
<1>7. Objects(pc', cache', arg', heap', server', oData')
  BY <1>1, <1>2, <1>3, <1>4, <1>5, ObjectsKept DEF Public, Holding, Private
<1>8. Files(pc', cache', file', preserve', got', server', comm'.cmd)
  BY <1>1, <1>2, <1>3, <1>4, <1>5, <1>6, FilesKept DEF Sources
<1>. QED  BY <1>1, <1>3, <1>7, <1>8, DataNext

\* A new task arrives.
LEMMA ReceivedData ==
    ASSUME BaseInv, DataHolds, NEW t \in Tasks, ReceivedNewTask(t)
    PROVE  DataHolds'
<1>0. TypeInv /\ CommInv
  BY DEF BaseInv
<1>1. /\ Objects(pc, cache, arg, heap, server, oData) /\ fault = "none"
      /\ Files(pc, cache, file, preserve, got, server, comm.cmd)
      /\ Sources(pc, cache, file, preserve, got)
  BY DEF DataHolds, Files, NoFault
<1>2. /\ pc \in [Tasks -> Steps] /\ preserve \in [Tasks -> BOOLEAN]
  BY DataTypes
<1>3. UNCHANGED <<program, fault, cache, arg, oData, heap, server, file, got>>
  BY DEF ReceivedNewTask, cVars, given
<1>4. /\ pc[t] = "waiting" /\ program[t] # "remote"
      /\ \A u \in Tasks : pc'[u] = IF u = t THEN "submitted" ELSE pc[u]
      /\ \A u \in Tasks : u # t => preserve'[u] = preserve[u]
  BY <1>2 DEF ReceivedNewTask, Goto, Remote
<1>5. \A v \in Versions : comm'.cmd # <<"serialize", v>>
  <2>1. comm'.cmd = Null
    BY <1>0, CommEffects, Zenon DEF NextComm
  <2>2. \A v \in Versions : <<"serialize", v>> \in Commands
    BY DEF Commands
  <2>. QED  BY <1>0, <2>1, <2>2, CommandFacts, Zenon
<1>6. Objects(pc', cache', arg', heap', server', oData')
  BY <1>1, <1>2, <1>3, <1>4, ObjectsKept DEF Public, Holding, Private
<1>7. Files(pc', cache', file', preserve', got', server', comm'.cmd)
  BY <1>1, <1>2, <1>3, <1>4, <1>5, FilesKept DEF Sources
<1>. QED  BY <1>1, <1>3, <1>6, <1>7, DataNext

\* The Java thread uses the pipe.
LEMMA PipeData ==
    ASSUME BaseInv, DataHolds, OpenDataPipe \/ WriteCommand \/ WriteFails \/ CloseDataPipe
    PROVE  DataHolds'
<1>0. TypeInv /\ CommInv
  BY DEF BaseInv
<1>1. /\ Objects(pc, cache, arg, heap, server, oData) /\ fault = "none"
      /\ Files(pc, cache, file, preserve, got, server, comm.cmd)
      /\ Sources(pc, cache, file, preserve, got)
  BY DEF DataHolds, Files, NoFault
<1>2. UNCHANGED <<program, fault, pc, cache, arg, oData, heap, server, file, got, preserve>>
  BY DEF OpenDataPipe, WriteCommand, WriteFails, CloseDataPipe, taskVars, cVars, given
<1>3. comm'.cmd = comm.cmd \/ \A v \in Versions : comm'.cmd # <<"serialize", v>>
  <2>1. comm'.cmd = comm.cmd \/ comm'.cmd = Null
    BY <1>0, CommEffects, Zenon DEF NextComm
  <2>2. \A v \in Versions : <<"serialize", v>> \in Commands
    BY DEF Commands
  <2>. QED  BY <1>0, <2>1, <2>2, CommandFacts, Zenon
<1>4. Objects(pc', cache', arg', heap', server', oData')
  BY <1>1, <1>2, Zenon
<1>5. Files(pc', cache', file', preserve', got', server', comm'.cmd)
  BY <1>1, <1>2, <1>3, FilesKept DEF Sources
<1>. QED  BY <1>1, <1>2, <1>4, <1>5, DataNext

\* The file of an obsolete version is removed: nobody will look for it.
LEMMA RemoveData ==
    ASSUME BaseInv, DataHolds, RemoveObsolete
    PROVE  DataHolds'
<1>0. TypeInv /\ CommInv
  BY DEF BaseInv
<1>1. /\ Objects(pc, cache, arg, heap, server, oData) /\ fault = "none"
      /\ FinalFiles(pc, file, server) /\ EarlyFiles(pc, file)
      /\ Sources(pc, cache, file, preserve, got)
  BY DEF DataHolds, Files, NoFault
<1>2. UNCHANGED <<program, fault, pc, cache, arg, oData, heap, server, got, preserve>>
  BY DEF RemoveObsolete, taskVars, cVars, given
<1>3. PICK x \in comm.ids : /\ file' = [file EXCEPT ![x] = Absent]
                            /\ comm'.cmd = <<"remove", x>>
  BY <1>0, CommEffects, Zenon DEF NextComm
<1>4. x \in told /\ x \in Versions
  BY <1>0, <1>3, DataTypes DEF CommInv
<1>5. /\ file \in [Versions -> Contents]
      /\ \A t \in Tasks : Source(t) \in Versions /\ Dest(t) \in Versions
      /\ \A t \in Tasks : Writer(t) <=> program[t] \in {"inout", "out"}
      /\ \A v \in Versions : file'[v] = IF v = x THEN Absent ELSE file[v]
  BY <1>3, DataTypes
<1>6. \A t \in Tasks : pc[t] # "ended" => Dest(t) # x /\ (program[t] # "out" => Source(t) # x)
  BY <1>4, AccessOrder
<1>7. Objects(pc', cache', arg', heap', server', oData')
  BY <1>1, <1>2, Zenon
<1>8. FinalFiles(pc', file', server')
  BY <1>1, <1>2, <1>5 DEF FinalFiles
<1>9. EarlyFiles(pc', file')
  BY <1>1, <1>2, <1>5 DEF EarlyFiles
<1>10. Sources(pc', cache', file', preserve', got')
  <2>1. \A t \in Tasks : pc[t] \in {"reread", "sending"} => program[t] # "out"
    <3>1. \A t \in Tasks : StepOf(t, pc[t])
      BY <1>0, TypeFacts
    <3>. QED  BY <3>1 DEF StepOf, OutSteps
  <2>. QED  BY <1>1, <1>2, <1>5, <1>6, <2>1 DEF Sources
<1>11. Serialized(pc', cache', file', server', comm'.cmd)
  BY <1>3 DEF Serialized
<1>12. Files(pc', cache', file', preserve', got', server', comm'.cmd)
  BY <1>8, <1>9, <1>10, <1>11 DEF Files
<1>. QED  BY <1>1, <1>2, <1>7, <1>12, DataNext

\* The file of the source becomes the file of the target: it has the value of the source,
\* and is moved only if nobody else will look for it.
LEMMA AskData ==
    ASSUME BaseInv, DataHolds, AskForFile
    PROVE  DataHolds'
<1>0. TypeInv /\ CommInv
  BY DEF BaseInv
<1>1. /\ Objects(pc, cache, arg, heap, server, oData) /\ fault = "none"
      /\ FinalFiles(pc, file, server) /\ EarlyFiles(pc, file)
      /\ Sources(pc, cache, file, preserve, got)
  BY DEF DataHolds, Files, NoFault
<1>2. UNCHANGED <<program, fault, cache, arg, oData, heap, server, got, preserve>>
  BY DEF AskForFile, cVars, given
<1>3. PICK t \in Tasks : t = comm.task /\ pc[t] = "submitted"
  BY <1>0 DEF AskForFile, CommInv
<1>. DEFINE S == Source(t)
            D == Dest(t)
<1>4. /\ pc \in [Tasks -> Steps] /\ file \in [Versions -> Contents]
      /\ \A u \in Tasks : Source(u) \in Versions /\ Dest(u) \in Versions
      /\ \A u \in Tasks : Writer(u) => Dest(u) # Source(u)
      /\ \A u \in Tasks : ~ Writer(u) => Dest(u) = Source(u)
      /\ \A u, w \in Tasks : Writer(u) /\ Writer(w) /\ Dest(u) = Dest(w) => u = w
      /\ \A u, w \in Tasks : Writer(u) /\ Writer(w) /\ Source(u) = Source(w) => u = w
      /\ \A u \in Tasks : program[u] \in {"in", "inout", "out", "remote"}
      /\ \A u \in Tasks : Writer(u) <=> program[u] \in {"inout", "out"}
      /\ Versions \subseteq Nat
  BY DataTypes
<1>5. /\ \A u \in Tasks : pc[u] # "waiting" /\ program[u] # "out" => Final(pc, Source(u))
      /\ \A u, w \in Tasks : pc[u] # "waiting" /\ program[u] # "out" /\ Writer(w)
           /\ Dest(w) = Source(u) => pc[w] = "ended"
      /\ \A u, w \in Tasks : program[u] = "inout" /\ pc[u] # "waiting" /\ ~ preserve[u]
           /\ program[w] # "out" /\ Source(w) = Source(u) /\ w # u => pc[w] = "ended"
  BY AccessOrder
<1>6. \A u \in Tasks :
         /\ pc[u] \in {"fetch_source", "write_source", "reread"} => program[u] = "inout"
         /\ pc[u] \in {"take", "sending"} => program[u] # "out"
  <2>1. \A u \in Tasks : StepOf(u, pc[u])
    BY <1>0, TypeFacts
  <2>. QED  BY <1>4, <2>1 DEF StepOf, RemoteSteps, OutSteps, InSteps
<1>7. \A u \in Tasks : pc'[u] = IF u = t THEN "queued" ELSE pc[u]
  BY <1>3, <1>4 DEF AskForFile, Goto
<1>8. comm'.cmd = Null /\ server.step \notin SerializeSteps
  <2>1. comm.step = "remove"
    BY DEF AskForFile
  <2>. QED  BY <1>0, <2>1, CommEffects, ServerCommand DEF NextComm
<1>9. \/ /\ program[t] = "inout" /\ file[D] = Absent /\ file[S] # Absent
         /\ \A v \in Versions :
               file'[v] = IF v = D THEN file[S]
                          ELSE IF v = S /\ ~ preserve[t] THEN Absent ELSE file[v]
      \/ /\ file' = file
         /\ ~ (program[t] = "inout" /\ file[D] = Absent /\ file[S] # Absent)
  BY <1>3, <1>4 DEF AskForFile
<1>10. Objects(pc', cache', arg', heap', server', oData')
  BY <1>1, <1>2, <1>3, <1>4, <1>7, ObjectsKept DEF Public, Holding, Private
<1>11. S \in Versions /\ D \in Versions
  BY <1>4
<1>12. ASSUME program[t] = "inout" PROVE file[S] \in {Absent, S}
  <2>1. Final(pc, S)
    BY <1>3, <1>5, <1>12
  <2>2. \A u \in Tasks : Source(u) = S => pc[u] \notin {"fetch_source", "write_source"}
    BY <1>3, <1>4, <1>6, <1>12
  <2>. QED  BY <1>1, <1>8, <1>11, <2>1, <2>2 DEF FinalFiles, Writing, SerializeSteps
<1>13. \A v : Final(pc', v) => Final(pc, v)
  BY <1>3, <1>7 DEF Final
<1>14. Writer(t) => ~ Final(pc, D)
  BY <1>3 DEF Final
<1>15. program[t] = "inout" => \A u \in Tasks : Writer(u) /\ Dest(u) = S => pc[u] = "ended"
  BY <1>3, <1>5
<1>16. FinalFiles(pc', file', server')
  <2>1. SUFFICES ASSUME NEW v \in Versions, Final(pc', v)
                 PROVE  \/ file'[v] \in {Absent, v}
                        \/ file'[v] = Partial
                           /\ \E u \in Tasks : Source(u) = v
                                    /\ pc'[u] \in {"fetch_source", "write_source"}
    BY DEF FinalFiles
  <2>2. Final(pc, v) /\ (program[t] = "inout" => v # D)
    BY <1>4, <1>13, <1>14, <2>1
  <2>3. \/ file[v] \in {Absent, v}
        \/ file[v] = Partial /\ \E u \in Tasks : Source(u) = v
                 /\ pc[u] \in {"fetch_source", "write_source"}
    BY <1>1, <1>8, <2>2 DEF FinalFiles, Writing, SerializeSteps
  <2>4. \A u \in Tasks : pc[u] \in {"fetch_source", "write_source"}
              => pc'[u] \in {"fetch_source", "write_source"}
    BY <1>3, <1>7
  <2>. QED  BY <1>9, <2>2, <2>3, <2>4
<1>17. EarlyFiles(pc', file')
  <2>1. SUFFICES ASSUME NEW u \in Tasks, Writer(u), pc'[u] # "ended"
                 PROVE  /\ file'[Dest(u)] \in {Absent, Source(u)}
                        /\ program[u] = "out" \/ pc'[u] \in {"waiting", "submitted", "call"}
                              => file'[Dest(u)] = Absent
    BY DEF EarlyFiles
  <2>2. pc[u] # "ended" /\ Dest(u) \in Versions
    BY <1>3, <1>4, <1>7, <2>1
  <2>3. CASE u = t
    BY <1>1, <1>3, <1>4, <1>7, <1>9, <1>11, <1>12, <2>1, <2>2, <2>3 DEF EarlyFiles
  <2>4. CASE u # t
    <3>1. program[t] = "inout" => Dest(u) # D /\ Dest(u) # S
      BY <1>4, <1>15, <2>1, <2>2, <2>4
    <3>2. file'[Dest(u)] = file[Dest(u)] /\ pc'[u] = pc[u]
      BY <1>7, <1>9, <2>2, <2>4, <3>1
    <3>. QED  BY <1>1, <2>1, <2>2, <3>2 DEF EarlyFiles
  <2>. QED  BY <2>3, <2>4
<1>18. ASSUME NEW u \in Tasks, u # t, pc[u] # "ended",
              program[u] # "out", Final(pc, Source(u))
       PROVE  file'[Source(u)] = file[Source(u)]
  <2>1. program[t] = "inout" => Source(u) # D
    BY <1>4, <1>14, <1>18
  <2>2. program[t] = "inout" /\ ~ preserve[t] => Source(u) # S
    BY <1>3, <1>5, <1>18
  <2>. QED  BY <1>4, <1>9, <2>1, <2>2
<1>19. ASSUME NEW u \in Tasks, u # t, Writer(u), pc[u] # "ended"
       PROVE  file'[Dest(u)] = file[Dest(u)]
  <2>1. program[t] = "inout" => Dest(u) # D /\ Dest(u) # S
    BY <1>4, <1>15, <1>19
  <2>. QED  BY <1>4, <1>9, <2>1
<1>20. Sources(pc', cache', file', preserve', got')
  <2>1. ASSUME NEW u \in Tasks, program[u] # "out", Final(pc', Source(u)),
               pc'[u] \in {"waiting", "submitted", "requested"}
                  \/ (program[u] = "in" /\ pc'[u] = "queued")
        PROVE  cache'[Source(u)] # 0 \/ file'[Source(u)] = Source(u)
    <3>1. /\ Final(pc, Source(u))
          /\ cache[Source(u)] # 0 \/ file[Source(u)] = Source(u)
      BY <1>1, <1>3, <1>7, <1>13, <2>1 DEF Sources
    <3>2. CASE u = t
      BY <1>2, <1>7, <1>9, <2>1, <3>1, <3>2
    <3>3. CASE u # t
      BY <1>2, <1>7, <1>18, <2>1, <3>1, <3>3
    <3>. QED  BY <3>2, <3>3
  <2>2. ASSUME NEW u \in Tasks, program[u] = "inout", pc'[u] = "queued"
        PROVE  cache'[Source(u)] # 0 \/ file'[Dest(u)] = Source(u)
    <3>1. CASE u = t
      <4>1. cache[S] # 0 \/ file[S] = S
        BY <1>1, <1>3, <1>5, <2>2, <3>1 DEF Sources
      <4>2. file[D] = Absent
        BY <1>1, <1>3, <1>4, <2>2, <3>1 DEF EarlyFiles
      <4>3. S # Absent
        BY <1>4, <1>11 DEF Absent
      <4>. QED  BY <1>2, <1>9, <1>11, <1>12, <2>2, <3>1, <4>1, <4>2, <4>3
    <3>2. CASE u # t
      BY <1>1, <1>2, <1>4, <1>7, <1>19, <2>2, <3>2 DEF Sources
    <3>. QED  BY <3>1, <3>2
  <2>3. ASSUME NEW u \in Tasks, pc'[u] = "deserialize"
        PROVE  file'[Dest(u)] = Source(u)
    <3>1. u # t /\ pc[u] = "deserialize" /\ file[Dest(u)] = Source(u)
      BY <1>1, <1>7, <2>3 DEF Sources
    <3>2. CASE Writer(u)
      BY <1>19, <3>1, <3>2
    <3>3. CASE ~ Writer(u)
      BY <1>4, <1>5, <1>18, <3>1, <3>3
    <3>. QED  BY <3>2, <3>3
  <2>4. ASSUME NEW u \in Tasks, pc'[u] \in {"reread", "sending"}
        PROVE  file'[Source(u)] = Source(u)
    <3>1. u # t /\ pc[u] = pc'[u] /\ file[Source(u)] = Source(u)
      BY <1>1, <1>7, <2>4 DEF Sources
    <3>. QED  BY <1>5, <1>6, <1>18, <2>4, <3>1
  <2>5. /\ \A u \in Tasks :
                 pc'[u] \in {"take", "truncate_source", "fetch_source", "write_source", "reread", "peek"}
             => cache'[Source(u)] # 0
        /\ \A u \in Tasks : pc'[u] \in {"peek", "rename"} => ~ preserve'[u]
        /\ \A u \in Tasks : program[u] = "remote" /\ pc'[u] \in {"received", "ended"}
             => got'[u] = Source(u)
    BY <1>1, <1>2, <1>7 DEF Sources
  <2>. QED  BY <2>1, <2>2, <2>3, <2>4, <2>5 DEF Sources
<1>21. Serialized(pc', cache', file', server', comm'.cmd)
  <2>1. \A v \in Versions : <<"serialize", v>> \in Commands
    BY DEF Commands
  <2>2. \A v \in Versions : comm'.cmd # <<"serialize", v>>
    BY <1>0, <1>8, <2>1, CommandFacts, Zenon
  <2>. QED  BY <2>2 DEF Serialized
<1>22. Files(pc', cache', file', preserve', got', server', comm'.cmd)
  BY <1>16, <1>17, <1>20, <1>21 DEF Files
<1>. QED  BY <1>1, <1>2, <1>10, <1>22, DataNext

\* A request is answered with the file, or with a command to serialize the object.
LEMMA SendsData ==
    ASSUME BaseInv, DataHolds, "exclusive_rewrite" \in env, NEW t \in Tasks, SendData(t)
    PROVE  DataHolds'
<1>0. TypeInv /\ CommInv
  BY DEF BaseInv
<1>. DEFINE S == Source(t)
<1>1. /\ Objects(pc, cache, arg, heap, server, oData) /\ fault = "none"
      /\ Files(pc, cache, file, preserve, got, server, comm.cmd)
      /\ FinalFiles(pc, file, server) /\ EarlyFiles(pc, file)
      /\ Sources(pc, cache, file, preserve, got)
  BY DEF DataHolds, Files, NoFault
<1>2. UNCHANGED <<program, fault, cache, arg, oData, heap, server, got, preserve, file>>
  BY DEF SendData, cVars, given
<1>3. /\ comm.step = "idle" /\ pc[t] = "requested" /\ ~ Rewriting(S)
  BY DEF SendData, Exclusive
<1>4. program[t] = "remote"
  <2>1. StepOf(t, pc[t]) /\ program[t] \in Directions
    BY <1>0, TypeFacts, VersionFacts
  <2>. QED  BY <1>3, <2>1 DEF StepOf, OutSteps, InSteps, InoutSteps, Directions
<1>5. /\ pc \in [Tasks -> Steps] /\ S \in Versions
      /\ \A u \in Tasks : Writer(u) <=> program[u] \in {"inout", "out"}
  BY DataTypes
<1>6. Final(pc, S)
  BY <1>3, <1>4, AccessOrder
<1>7. server.step \notin SerializeSteps
  BY <1>3, ServerCommand
<1>8. file[S] \in {Absent, S}
  BY <1>1, <1>3, <1>5, <1>6, <1>7 DEF FinalFiles, Writing, SerializeSteps, Rewriting
<1>9. CASE file[S] # Absent
  <2>1. comm' = comm /\ \A u \in Tasks : pc'[u] = IF u = t THEN "sending" ELSE pc[u]
    BY <1>5, <1>9 DEF SendData, Goto
  <2>2. Objects(pc', cache', arg', heap', server', oData')
    BY <1>1, <1>2, <1>3, <1>5, <2>1, ObjectsKept DEF Public, Holding, Private
  <2>3. Files(pc', cache', file', preserve', got', server', comm'.cmd)
    BY <1>1, <1>2, <1>3, <1>4, <1>5, <1>8, <1>9, <2>1, FilesKept DEF Sources
  <2>. QED  BY <1>1, <1>2, <2>2, <2>3, DataNext
<1>10. CASE file[S] = Absent
  <2>1. comm'.cmd = <<"serialize", S>> /\ pc' = pc
    BY <1>0, <1>10, CommEffects, Zenon DEF NextComm, SendData
  <2>2. Objects(pc', cache', arg', heap', server', oData')
    BY <1>1, <1>2, <2>1, Zenon
  <2>3. S # Absent
    BY <1>5, DataTypes DEF Absent
  <2>4. cache[S] # 0
    BY <1>1, <1>3, <1>4, <1>6, <1>10, <2>3 DEF Sources
  <2>5. \A v \in Versions : comm'.cmd = <<"serialize", v>> => v = S
    BY <2>1
  <2>6. Serialized(pc', cache', file', server', comm'.cmd)
    BY <1>2, <1>3, <1>7, <1>10, <2>1, <2>4, <2>5 DEF Serialized, Rewriting, SerializeSteps, Writing
  <2>7. Files(pc', cache', file', preserve', got', server', comm'.cmd)
    BY <1>1, <1>2, <2>1, <2>6, Zenon DEF Files
  <2>. QED  BY <1>1, <1>2, <2>2, <2>7, DataNext
<1>. QED  BY <1>9, <1>10

\* The answer comes when the file has been written.
LEMMA ReplyData ==
    ASSUME BaseInv, DataHolds, ReadReply
    PROVE  DataHolds'
<1>0. TypeInv /\ CommInv /\ FlightInv
  BY DEF BaseInv
<1>1. /\ Objects(pc, cache, arg, heap, server, oData) /\ fault = "none"
      /\ FinalFiles(pc, file, server) /\ EarlyFiles(pc, file)
      /\ Sources(pc, cache, file, preserve, got)
      /\ Serialized(pc, cache, file, server, comm.cmd)
  BY DEF DataHolds, Files, NoFault
<1>2. UNCHANGED <<program, fault, cache, arg, oData, heap, got, preserve, file>>
  BY DEF ReadReply, given
<1>3. server.step = "reply"
  BY DEF ReadReply
<1>4. PICK v \in Versions : comm.cmd = <<"serialize", v>>
  BY <1>3, ServerCommand DEF SerializeSteps
<1>5. PICK t \in Tasks : t = comm.task /\ pc[t] = "requested" /\ program[t] = "remote" /\ v = Source(t)
  BY <1>4, SerializeFacts
<1>6. /\ pc \in [Tasks -> Steps] /\ \A u \in Tasks : Writer(u) <=> program[u] \in {"inout", "out"}
  BY DataTypes
<1>7. \A u \in Tasks : pc'[u] = IF u = t THEN "sending" ELSE pc[u]
  BY <1>5, <1>6 DEF ReadReply, Goto
<1>8. comm'.cmd = Null /\ server'.step = "open"
  BY <1>0, CommEffects, ServerEffects, Zenon DEF NextComm, NextServer
<1>9. file[Source(t)] = Source(t)
  BY <1>1, <1>3, <1>4, <1>5 DEF Serialized
<1>10. Objects(pc', cache', arg', heap', server', oData')
  BY <1>1, <1>2, <1>5, <1>6, <1>7, <1>8, ObjectsKept DEF Public, Holding, Private
<1>11. \A x : Final(pc', x) => Final(pc, x)
  BY <1>5, <1>7 DEF Final
<1>12. FinalFiles(pc', file', server')
  BY <1>1, <1>2, <1>3, <1>5, <1>7, <1>11 DEF FinalFiles, Writing
<1>13. EarlyFiles(pc', file')
  BY <1>1, <1>2, <1>5, <1>6, <1>7 DEF EarlyFiles
<1>14. Sources(pc', cache', file', preserve', got')
  BY <1>1, <1>2, <1>5, <1>7, <1>9, <1>11 DEF Sources
<1>15. Serialized(pc', cache', file', server', comm'.cmd)
  <2>1. \A x \in Versions : <<"serialize", x>> \in Commands
    BY DEF Commands
  <2>2. \A x \in Versions : comm'.cmd # <<"serialize", x>>
    BY <1>0, <1>8, <2>1, CommandFacts, Zenon
  <2>. QED  BY <2>2 DEF Serialized
<1>16. Files(pc', cache', file', preserve', got', server', comm'.cmd)
  BY <1>12, <1>13, <1>14, <1>15 DEF Files
<1>. QED  BY <1>1, <1>2, <1>10, <1>16, DataNext

-----------------------------------------------------------------------------
(* Objects and files: the server *)

\* The server waits for a command, or goes on with one that it has read.
LEMMA ServerData ==
    ASSUME BaseInv, DataHolds,
           AwaitCommand \/ ReadCommand \/ CloseCommand \/ FindRemoved \/ FindSerialized
    PROVE  DataHolds'
<1>0. TypeInv /\ FlightInv
  BY DEF BaseInv
<1>1. /\ Objects(pc, cache, arg, heap, server, oData) /\ fault = "none"
      /\ Files(pc, cache, file, preserve, got, server, comm.cmd)
      /\ Serialized(pc, cache, file, server, comm.cmd)
  BY DEF DataHolds, Files, NoFault
<1>2. UNCHANGED <<program, fault, pc, cache, arg, oData, heap, file, got, preserve, comm>>
  BY DEF AwaitCommand, ReadCommand, CloseCommand, FindRemoved, FindSerialized, taskVars,
     javaVars, given
<1>3. FindSerialized => server.step = "find_serialized" /\ InCache(server.cmd[2])
  <2>1. FindSerialized => server.step = "find_serialized"
    BY DEF FindSerialized
  <2>2. server.step = "find_serialized" => /\ server.cmd[2] \in Versions
                                           /\ comm.cmd = <<"serialize", server.cmd[2]>>
    BY ServerCommand DEF SerializeSteps
  <2>. QED  BY <1>1, <2>1, <2>2 DEF Serialized, InCache
<1>4. \/ server.step \in Writing /\ server'.step = "take" /\ server'.cmd = server.cmd
      \/ /\ server.step \in {"open", "read", "close", "find_removed"}
         /\ server'.step \in {"open", "read", "close", "find_removed", "erase", "truncate"}
  <2>1. FindSerialized => /\ server.step \in Writing
                          /\ server'.step = "take" /\ server'.cmd = server.cmd
    BY <1>0, <1>3, ServerEffects DEF NextServer, Writing
  <2>2. ~ FindSerialized => /\ server.step \in {"open", "read", "close", "find_removed"}
                            /\ server'.step \in {"open", "read", "close", "find_removed",
                                                 "erase", "truncate"}
    BY <1>0, ServerEffects DEF NextServer, AwaitCommand, ReadCommand, CloseCommand, FindRemoved
  <2>. QED  BY <2>1, <2>2
<1>5. \A t \in Tasks :
            pc[t] \in {"take", "truncate_source", "fetch_source", "write_source", "reread", "peek"}
         => program[t] # "out"
  <2>1. \A t \in Tasks : StepOf(t, pc[t])
    BY <1>0, TypeFacts
  <2>. QED  BY <2>1 DEF StepOf, OutSteps
<1>6. Objects(pc', cache', arg', heap', server', oData')
  BY <1>1, <1>2, <1>4, ObjectsKept
<1>7. Files(pc', cache', file', preserve', got', server', comm'.cmd)
  BY <1>1, <1>2, <1>4, <1>5, FilesServed DEF Writing
<1>. QED  BY <1>1, <1>2, <1>6, <1>7, DataNext

\* The object of an obsolete version leaves the cache: no task holds it.
LEMMA EraseData ==
    ASSUME BaseInv, DataHolds, EraseRemoved
    PROVE  DataHolds'
<1>0. TypeInv /\ FlightInv
  BY DEF BaseInv
<1>1. /\ fault = "none" /\ Files(pc, cache, file, preserve, got, server, comm.cmd)
      /\ PublicObjects(pc, cache, arg, server) /\ CachedObjects(pc, cache, arg, heap)
      /\ Arguments(pc, cache, arg, heap) /\ FetchedObjects(pc, cache, arg, heap, server, oData)
  BY DEF DataHolds, Objects, NoFault
<1>2. UNCHANGED <<program, fault, pc, arg, oData, heap, file, got, preserve, comm>>
  BY DEF EraseRemoved, taskVars, javaVars, given
<1>3. server.step = "erase"
  BY DEF EraseRemoved
<1>4. PICK x \in told : x = server.cmd[2]
  BY <1>3, ServerCommand DEF RemoveSteps
<1>5. server'.step = "delete" /\ server'.cmd = server.cmd /\ server'.obj = cache[x]
  BY <1>0, <1>4, ServerEffects, Zenon DEF NextServer
<1>6. /\ cache \in [Versions -> {0} \cup Tasks] /\ x \in Versions
      /\ \A t \in Tasks : Source(t) \in Versions /\ Dest(t) \in Versions
      /\ \A t \in Tasks : program[t] \in {"in", "inout", "out", "remote"}
      /\ \A t \in Tasks : Writer(t) <=> program[t] \in {"inout", "out"}
      /\ \A t \in Tasks : arg[t] \in {0} \cup Tasks
  BY <1>4, DataTypes
<1>7. \A v \in Versions : cache'[v] = IF v = x THEN 0 ELSE cache[v]
  BY <1>4, <1>6 DEF EraseRemoved
<1>8. \A t \in Tasks : pc[t] # "ended" => Dest(t) # x /\ (program[t] # "out" => Source(t) # x)
  BY <1>4, AccessOrder
<1>9. \A t \in Tasks :
         /\ pc[t] = "rename" => program[t] = "inout"
         /\ pc[t] = "remove_file" => Writer(t)
         /\ pc[t] = "call" => program[t] # "remote"
         /\ pc[t] \in {"take", "truncate_source", "fetch_source", "write_source", "reread", "peek"}
               => program[t] # "out"
  <2>1. \A t \in Tasks : StepOf(t, pc[t])
    BY <1>0, TypeFacts
  <2>. QED  BY <1>6, <2>1 DEF StepOf, RemoteSteps, OutSteps, InSteps
<1>10. PublicObjects(pc', cache', arg', server')
  BY <1>1, <1>2, <1>5, <1>6, <1>7 DEF PublicObjects
<1>11. CachedObjects(pc', cache', arg', heap')
  BY <1>1, <1>2, <1>6, <1>7, <1>8 DEF CachedObjects
<1>12. Arguments(pc', cache', arg', heap')
  <2>1. \A t \in Tasks : program[t] = "in" /\ pc[t] = "call"
          => \A v \in Versions : cache'[v] = arg[t] => v = Source(t)
    <3>1. \A t \in Tasks : pc[t] = "call" => arg[t] # 0
      BY <1>1 DEF PublicObjects, Holding
    <3>. QED  BY <1>1, <1>7, <3>1 DEF Arguments
  <2>2. \A t \in Tasks : pc[t] = "rename" => cache'[Source(t)] = arg[t]
    BY <1>1, <1>6, <1>7, <1>8, <1>9 DEF Arguments
  <2>. QED  BY <1>1, <1>2, <2>1, <2>2 DEF Arguments
<1>13. ASSUME NEW t \in Tasks, pc[t] \in Holding, cache[x] # 0 PROVE arg[t] # cache[x]
  <2>1. CASE pc[t] = "insert"
    BY <1>1, <1>6, <1>13, <2>1 DEF Arguments, Private, PublicObjects, Public
  <2>2. CASE pc[t] = "rename"
    <3>1. Source(t) # x /\ cache[Source(t)] = arg[t]
      BY <1>1, <1>8, <1>9, <2>2 DEF Arguments
    <3>. QED  BY <1>1, <1>6, <1>13, <3>1 DEF CachedObjects
  <2>3. CASE pc[t] \in {"remove_file", "call"} /\ Writer(t)
    <3>1. Dest(t) # x /\ cache[Dest(t)] = arg[t]
      BY <1>1, <1>8, <2>3 DEF CachedObjects
    <3>. QED  BY <1>1, <1>6, <1>13, <3>1 DEF CachedObjects
  <2>4. CASE pc[t] = "call" /\ program[t] = "in"
    <3>1. Source(t) # x
      BY <1>8, <2>4
    <3>. QED  BY <1>1, <1>6, <2>4, <3>1 DEF Arguments
  <2>. QED  BY <1>6, <1>9, <1>13, <2>1, <2>2, <2>3, <2>4 DEF Holding
<1>14. ServedObject(pc', cache', arg', heap', server')
  <2>1. cache[x] # 0 => \A v \in Versions : cache'[v] # cache[x]
    BY <1>1, <1>6, <1>7 DEF CachedObjects
  <2>. QED  BY <1>2, <1>5, <1>13, <2>1 DEF ServedObject
<1>15. FetchedObjects(pc', cache', arg', heap', server', oData')
  <2>1. ASSUME NEW t \in Tasks, pc[t] = "write_source"
        PROVE  oData[t] # cache[x]
    <3>1. Source(t) # x
      BY <1>8, <2>1, StepDirections
    <3>. QED  BY <1>1, <1>6, <2>1, <3>1 DEF FetchedObjects, Settled
  <2>2. 0 \notin Tasks
    BY DataTypes
  <2>. QED  BY <1>1, <1>2, <1>5, <1>7, <2>1, <2>2 DEF FetchedObjects, Settled
<1>16. Objects(pc', cache', arg', heap', server', oData')
  BY <1>10, <1>11, <1>12, <1>14, <1>15 DEF Objects
<1>17. \A v \in Versions : comm.cmd = <<"serialize", v>> /\ cache[v] # 0 => cache'[v] # 0
  <2>1. ASSUME NEW v \in Versions, comm.cmd = <<"serialize", v>> PROVE v # x
    BY <1>8, <2>1, SerializeFacts
  <2>. QED  BY <1>7, <2>1
<1>18. Files(pc', cache', file', preserve', got', server', comm'.cmd)
  <2>1. \A t \in Tasks : pc[t] # "ended" /\ program[t] # "out" /\ cache[Source(t)] # 0
          => cache'[Source(t)] # 0
    BY <1>6, <1>7, <1>8
  <2>2. server.step \notin Writing \cup {"reply"} /\ server'.step \notin Writing \cup {"reply"}
    BY <1>3, <1>5 DEF Writing
  <2>. QED  BY <1>1, <1>2, <1>9, <1>17, <2>1, <2>2, FilesServed
<1>. QED  BY <1>1, <1>2, <1>16, <1>18, DataNext

\* The object that is deleted is neither cached nor an argument.
LEMMA DeleteData ==
    ASSUME BaseInv, DataHolds, DeleteRemoved
    PROVE  DataHolds'
<1>0. TypeInv /\ FlightInv
  BY DEF BaseInv
<1>1. /\ fault = "none" /\ Files(pc, cache, file, preserve, got, server, comm.cmd)
      /\ PublicObjects(pc, cache, arg, server) /\ CachedObjects(pc, cache, arg, heap)
      /\ Arguments(pc, cache, arg, heap) /\ ServedObject(pc, cache, arg, heap, server)
      /\ FetchedObjects(pc, cache, arg, heap, server, oData)
  BY DEF DataHolds, Objects, NoFault
<1>2. UNCHANGED <<program, fault, pc, arg, oData, cache, file, got, preserve, comm>>
  BY DEF DeleteRemoved, taskVars, javaVars, given
<1>3. /\ server.step = "delete"
      /\ \A t \in Tasks : heap'[t] = IF t = server.obj THEN Freed ELSE heap[t]
  BY DEF DeleteRemoved
<1>4. server'.step = "open" /\ server'.cmd = server.cmd
  BY <1>0, ServerEffects, Zenon DEF NextServer
<1>5. /\ cache \in [Versions -> {0} \cup Tasks] /\ 0 \notin Tasks
      /\ \A t \in Tasks : arg[t] \in {0} \cup Tasks
  BY DataTypes
<1>6. PublicObjects(pc', cache', arg', server')
  BY <1>1, <1>2, <1>4 DEF PublicObjects
<1>7. CachedObjects(pc', cache', arg', heap')
  <2>1. \A v \in Versions : cache[v] # 0 => heap'[cache[v]] = heap[cache[v]]
    BY <1>1, <1>3, <1>5 DEF ServedObject
  <2>. QED  BY <1>1, <1>2, <2>1 DEF CachedObjects
<1>8. Arguments(pc', cache', arg', heap')
  <2>1. \A t \in Tasks : pc[t] \in Holding => heap'[arg[t]] = heap[arg[t]]
    BY <1>1, <1>3, <1>5 DEF ServedObject, PublicObjects
  <2>2. \A t \in Tasks : program[t] = "out" /\ pc[t] # "ended" => heap'[t] = heap[t]
    <3>1. SUFFICES ASSUME NEW t \in Tasks, program[t] = "out", pc[t] # "ended", t = server.obj
                   PROVE  FALSE
      BY <1>3
    <3>2. pc[t] \in Holding /\ server.obj # 0
      BY <1>1, <1>3, <1>5, <3>1 DEF PublicObjects, Public, Holding
    <3>3. arg[t] = t
      BY <1>1, <3>1, <3>2 DEF Arguments
    <3>. QED  BY <1>1, <1>3, <3>1, <3>2, <3>3 DEF ServedObject
  <2>. QED  BY <1>1, <1>2, <2>1, <2>2 DEF Arguments
<1>9. ServedObject(pc', cache', arg', heap', server')
  BY <1>4 DEF ServedObject
<1>10. FetchedObjects(pc', cache', arg', heap', server', oData')
  BY <1>1, <1>2, <1>3, <1>4 DEF FetchedObjects, Settled
<1>11. Objects(pc', cache', arg', heap', server', oData')
  BY <1>6, <1>7, <1>8, <1>9, <1>10 DEF Objects
<1>12. Files(pc', cache', file', preserve', got', server', comm'.cmd)
  <2>1. server.step \notin Writing \cup {"reply"} /\ server'.step \notin Writing \cup {"reply"}
    BY <1>3, <1>4 DEF Writing
  <2>2. \A t \in Tasks :
              pc[t] \in {"take", "truncate_source", "fetch_source", "write_source", "reread", "peek"}
          => program[t] # "out"
    <3>1. \A t \in Tasks : StepOf(t, pc[t])
      BY <1>0, TypeFacts
    <3>. QED  BY <3>1 DEF StepOf, OutSteps
  <2>. QED  BY <1>1, <1>2, <2>1, <2>2, FilesServed
<1>. QED  BY <1>1, <1>2, <1>11, <1>12, DataNext

\* The object that is to be serialized has its version, and no task changes it.
LEMMA TakeData ==
    ASSUME BaseInv, DataHolds, TakeSerialized
    PROVE  DataHolds'
<1>0. TypeInv /\ FlightInv
  BY DEF BaseInv
<1>1. /\ fault = "none" /\ Files(pc, cache, file, preserve, got, server, comm.cmd)
      /\ Serialized(pc, cache, file, server, comm.cmd)
      /\ PublicObjects(pc, cache, arg, server) /\ CachedObjects(pc, cache, arg, heap)
      /\ Arguments(pc, cache, arg, heap) /\ FetchedObjects(pc, cache, arg, heap, server, oData)
  BY DEF DataHolds, Objects, Files, NoFault
<1>2. UNCHANGED <<program, fault, pc, arg, oData, cache, heap, file, got, preserve, comm>>
  BY DEF TakeSerialized, taskVars, javaVars, given
<1>3. server.step = "take"
  BY DEF TakeSerialized
<1>4. PICK v \in Versions : v = server.cmd[2] /\ comm.cmd = <<"serialize", v>>
  BY <1>3, ServerCommand DEF SerializeSteps
<1>5. server'.step = "write" /\ server'.cmd = server.cmd /\ server'.obj = cache[v]
  BY <1>0, <1>4, ServerEffects, Zenon DEF NextServer
<1>6. Final(pc, v)
  BY <1>4, SerializeFacts, AccessOrder
<1>7. cache[v] # 0
  BY <1>1, <1>4 DEF Serialized
<1>8. PublicObjects(pc', cache', arg', server')
  BY <1>1, <1>2, <1>4, <1>5 DEF PublicObjects
<1>9. ServedObject(pc', cache', arg', heap', server')
  BY <1>1, <1>2, <1>4, <1>5, <1>6, <1>7 DEF ServedObject, CachedObjects
<1>10. FetchedObjects(pc', cache', arg', heap', server', oData')
  BY <1>1, <1>2, <1>5 DEF FetchedObjects, Settled
<1>11. Objects(pc', cache', arg', heap', server', oData')
  BY <1>1, <1>2, <1>8, <1>9, <1>10, Zenon DEF Objects
<1>12. Files(pc', cache', file', preserve', got', server', comm'.cmd)
  <2>1. server.step \in Writing /\ server'.step \in Writing /\ server'.cmd = server.cmd
    BY <1>3, <1>5 DEF Writing
  <2>2. \A t \in Tasks :
              pc[t] \in {"take", "truncate_source", "fetch_source", "write_source", "reread", "peek"}
          => program[t] # "out"
    <3>1. \A t \in Tasks : StepOf(t, pc[t])
      BY <1>0, TypeFacts
    <3>. QED  BY <3>1 DEF StepOf, OutSteps
  <2>. QED  BY <1>1, <1>2, <2>1, <2>2, FilesServed
<1>. QED  BY <1>1, <1>2, <1>11, <1>12, DataNext

\* The file of the version that is serialized is truncated, which nobody notices, and
\* written.
LEMMA WriteData ==
    ASSUME BaseInv, DataHolds, TruncateFile \/ WriteSerialized
    PROVE  DataHolds'
<1>0. TypeInv /\ FlightInv
  BY DEF BaseInv
<1>1. /\ Objects(pc, cache, arg, heap, server, oData) /\ fault = "none"
      /\ ServedObject(pc, cache, arg, heap, server)
      /\ FinalFiles(pc, file, server) /\ EarlyFiles(pc, file)
      /\ Sources(pc, cache, file, preserve, got)
      /\ Serialized(pc, cache, file, server, comm.cmd)
  BY DEF DataHolds, Objects, Files, NoFault
<1>2. UNCHANGED <<program, pc, arg, oData, cache, heap, got, preserve, comm>>
  BY Zenon DEF TruncateFile, WriteSerialized, taskVars, javaVars, given
<1>3. server.step \in {"truncate", "write"}
  BY Zenon DEF TruncateFile, WriteSerialized
<1>4. PICK v \in Versions : /\ v = server.cmd[2] /\ comm.cmd = <<"serialize", v>>
                            /\ server.cmd = <<"serialize", v>>
  BY <1>3, ServerCommand DEF SerializeSteps
<1>5. Final(pc, v) /\ v \in Nat /\ v \notin {Absent, Partial, Freed}
  BY <1>4, SerializeFacts, AccessOrder, DataTypes DEF Absent, Partial, Freed
<1>6. /\ file \in [Versions -> Contents]
      /\ \A t \in Tasks : Source(t) \in Versions /\ Dest(t) \in Versions
      /\ \A t \in Tasks : ~ Writer(t) => Dest(t) = Source(t)
      /\ \A t \in Tasks : Writer(t) <=> program[t] \in {"inout", "out"}
  BY DataTypes
<1>7. \/ /\ server.step = "truncate" /\ server'.step = "find_serialized"
         /\ server'.cmd = server.cmd /\ fault' = fault
         /\ file' = [file EXCEPT ![v] = Partial]
      \/ /\ server.step = "write" /\ server'.step = "reply"
         /\ server'.cmd = server.cmd /\ fault' = fault
         /\ file' = [file EXCEPT ![v] = v]
  <2>1. CASE TruncateFile
    <3>1. server'.step = "find_serialized" /\ server'.cmd = server.cmd
      BY <1>0, <2>1, ServerEffects, Zenon DEF NextServer
    <3>. QED  BY <1>4, <2>1, <3>1, Zenon DEF TruncateFile
  <2>2. CASE WriteSerialized
    <3>1. server.step = "write"
      BY <2>2, Zenon DEF WriteSerialized
    <3>2. Content(server.obj) = v
      BY <1>1, <1>4, <3>1 DEF ServedObject, Content
    <3>3. server'.step = "reply" /\ server'.cmd = server.cmd
      BY <1>0, <1>5, <2>2, <3>2, ServerEffects DEF NextServer
    <3>4. fault' = fault /\ file' = [file EXCEPT ![v] = v]
      BY <1>4, <1>5, <2>2, <3>2, Zenon DEF WriteSerialized
    <3>. QED  BY <3>1, <3>3, <3>4
  <2>. QED  BY <2>1, <2>2
<1>8. \A x \in Versions :
         file'[x] = IF x # v THEN file[x] ELSE IF server.step = "truncate" THEN Partial ELSE v
  BY <1>6, <1>7
<1>9. \A u \in Tasks : Writer(u) /\ pc[u] # "ended" => Dest(u) # v
  BY <1>5 DEF Final
<1>10. cache[v] # 0 /\ (server.step = "truncate" => file[v] = Absent)
  BY <1>1, <1>4 DEF Serialized, Writing
<1>11. Objects(pc', cache', arg', heap', server', oData')
  BY <1>1, <1>2, <1>7, ObjectsKept
<1>12. FinalFiles(pc', file', server')
  BY <1>1, <1>2, <1>4, <1>7, <1>8 DEF FinalFiles, Writing
<1>13. EarlyFiles(pc', file')
  BY <1>1, <1>2, <1>6, <1>8, <1>9 DEF EarlyFiles
<1>14. Sources(pc', cache', file', preserve', got')
  <2>1. /\ \A t \in Tasks : pc[t] = "deserialize" => file'[Dest(t)] = Source(t)
        /\ \A t \in Tasks : pc[t] \in {"reread", "sending"} => file'[Source(t)] = Source(t)
    BY <1>1, <1>3, <1>5, <1>6, <1>8, <1>9, <1>10 DEF Sources
  <2>2. \A t \in Tasks :
           /\ cache[Source(t)] # 0 \/ file[Source(t)] = Source(t)
                 => cache[Source(t)] # 0 \/ file'[Source(t)] = Source(t)
           /\ pc[t] # "ended" /\ Writer(t) => file'[Dest(t)] = file[Dest(t)]
    BY <1>6, <1>8, <1>9, <1>10
  <2>. QED  BY <1>1, <1>2, <1>6, <2>1, <2>2 DEF Sources
<1>15. Serialized(pc', cache', file', server', comm'.cmd)
  <2>1. \A x \in Versions : comm'.cmd = <<"serialize", x>> => x = v
    BY <1>2, <1>4
  <2>. QED  BY <1>1, <1>2, <1>4, <1>7, <1>8, <2>1 DEF Serialized, Writing
<1>16. Files(pc', cache', file', preserve', got', server', comm'.cmd)
  BY <1>12, <1>13, <1>14, <1>15 DEF Files
<1>17. fault' = "none"
  BY <1>1, <1>7
<1>. QED  BY <1>2, <1>11, <1>16, <1>17, DataNext

-----------------------------------------------------------------------------
(* Objects and files: the compute threads *)

\* The search: what is not in the cache is in the file that will be read.
LEMMA FindData ==
    ASSUME BaseInv, DataHolds, NEW t \in Tasks, FindArgument(t)
    PROVE  DataHolds'
<1>1. /\ fault = "none" /\ Files(pc, cache, file, preserve, got, server, comm.cmd)
      /\ Sources(pc, cache, file, preserve, got)
      /\ PublicObjects(pc, cache, arg, server) /\ CachedObjects(pc, cache, arg, heap)
      /\ Arguments(pc, cache, arg, heap) /\ ServedObject(pc, cache, arg, heap, server)
      /\ FetchedObjects(pc, cache, arg, heap, server, oData)
  BY DEF DataHolds, Objects, Files, NoFault
<1>2. UNCHANGED <<program, fault, cache, heap, server, file, got, preserve, oData, comm>>
  BY DEF FindArgument, cVars, javaVars, given
<1>3. /\ pc \in [Tasks -> Steps] /\ arg \in [Tasks -> {0} \cup Tasks]
      /\ cache \in [Versions -> {0} \cup Tasks] /\ 0 \notin Tasks
      /\ \A u \in Tasks : Source(u) \in Versions /\ Dest(u) \in Versions
      /\ \A u \in Tasks : ~ Writer(u) => Dest(u) = Source(u)
      /\ \A u \in Tasks : Writer(u) <=> program[u] \in {"inout", "out"}
  BY DataTypes
<1>4. pc[t] = "queued" /\ \A u \in Tasks : arg'[u] = IF u = t THEN t ELSE arg[u]
  BY <1>3 DEF FindArgument
<1>5. PICK x \in {"insert", "deserialize", "take", "truncate_source", "peek"} :
         /\ \A u \in Tasks : pc'[u] = IF u = t THEN x ELSE pc[u]
         /\ x = "insert" => program[t] = "out"
         /\ x = "deserialize" => program[t] # "out" /\ cache[Source(t)] = 0
         /\ x \in {"take", "truncate_source", "peek"} => cache[Source(t)] # 0
         /\ x = "peek" => ~ preserve[t]
  <2>. DEFINE y == IF program[t] = "out" THEN "insert"
                   ELSE IF ~ InCache(Source(t)) THEN "deserialize"
                   ELSE IF program[t] = "in" THEN "take"
                   ELSE IF preserve[t] THEN "truncate_source" ELSE "peek"
  <2>1. pc' = [pc EXCEPT ![t] = y]
    BY Zenon DEF FindArgument, Goto
  <2>2. /\ y \in {"insert", "deserialize", "take", "truncate_source", "peek"}
        /\ y = "insert" => program[t] = "out"
        /\ y = "deserialize" => program[t] # "out" /\ ~ InCache(Source(t))
        /\ y \in {"take", "truncate_source", "peek"} => InCache(Source(t))
        /\ y = "peek" => ~ preserve[t]
    OBVIOUS
  <2>. HIDE DEF y
  <2>. QED  BY <1>3, <2>1, <2>2 DEF InCache
<1>6. program[t] \in {"in", "inout", "out"}
  BY <1>4, StepDirections
<1>7. program[t] # "out" => Final(pc, Source(t))
  BY <1>4, AccessOrder
<1>8. x = "deserialize" => file[Dest(t)] = Source(t)
  BY <1>1, <1>3, <1>4, <1>5, <1>6, <1>7 DEF Sources
<1>9. \A u \in Tasks : pc'[u] \in Public <=> pc[u] \in Public
  BY <1>4, <1>5 DEF Public
<1>10. PublicObjects(pc', cache', arg', server')
  BY <1>1, <1>2, <1>3, <1>4, <1>5, <1>9, ServerCommand DEF PublicObjects, Holding
<1>11. \A v : Final(pc', v) => Final(pc, v)
  BY <1>4, <1>5 DEF Final
<1>12. CachedObjects(pc', cache', arg', heap')
  BY <1>1, <1>2, <1>3, <1>4, <1>5, <1>9, <1>11 DEF CachedObjects
<1>13. Arguments(pc', cache', arg', heap')
  BY <1>1, <1>2, <1>4, <1>5 DEF Arguments, Holding, Private
<1>14. ServedObject(pc', cache', arg', heap', server')
  <2>1. server.step = "delete" /\ server.obj # 0 => server.obj # t
    BY <1>1, <1>4 DEF PublicObjects, Public
  <2>. QED  BY <1>1, <1>2, <1>4, <1>5, <2>1 DEF ServedObject, Holding
<1>15. FetchedObjects(pc', cache', arg', heap', server', oData')
  <2>1. \A u \in Tasks : pc'[u] = "write_source" => pc[u] = "write_source" /\ oData[u] # t
    BY <1>1, <1>4, <1>5 DEF FetchedObjects, Settled, Public
  <2>. QED  BY <1>1, <1>2, <1>4, <1>5, <1>9, <2>1 DEF FetchedObjects, Settled, Holding
<1>16. Objects(pc', cache', arg', heap', server', oData')
  BY <1>10, <1>12, <1>13, <1>14, <1>15 DEF Objects
<1>17. Files(pc', cache', file', preserve', got', server', comm'.cmd)
  BY <1>1, <1>2, <1>3, <1>4, <1>5, <1>8, FilesKept DEF Sources
<1>. QED  BY <1>1, <1>2, <1>16, <1>17, DataNext

\* The cached object becomes the argument: of a task that reads it, or of the last one,
\* which will change its name.
LEMMA PointData ==
    ASSUME BaseInv, DataHolds, NEW t \in Tasks, TakeArgument(t) \/ PeekArgument(t)
    PROVE  DataHolds'
<1>. DEFINE S == Source(t)
<1>1. /\ fault = "none" /\ Files(pc, cache, file, preserve, got, server, comm.cmd)
      /\ Sources(pc, cache, file, preserve, got)
      /\ PublicObjects(pc, cache, arg, server) /\ CachedObjects(pc, cache, arg, heap)
      /\ Arguments(pc, cache, arg, heap) /\ ServedObject(pc, cache, arg, heap, server)
      /\ FetchedObjects(pc, cache, arg, heap, server, oData)
  BY DEF DataHolds, Objects, Files, NoFault
<1>2. UNCHANGED <<program, fault, cache, heap, server, file, got, preserve, oData, comm>>
  BY DEF TakeArgument, PeekArgument, cVars, javaVars, given
<1>3. /\ pc \in [Tasks -> Steps] /\ arg \in [Tasks -> {0} \cup Tasks]
      /\ cache \in [Versions -> {0} \cup Tasks] /\ 0 \notin Tasks
      /\ \A u \in Tasks : Source(u) \in Versions /\ Dest(u) \in Versions
      /\ \A u \in Tasks : Writer(u) <=> program[u] \in {"inout", "out"}
      /\ \A u, w \in Tasks : Writer(u) /\ Writer(w) /\ Source(u) = Source(w) => u = w
      /\ server.obj \in {0} \cup Tasks
  BY DataTypes, ServerCommand
<1>4. \A u \in Tasks : arg'[u] = IF u = t THEN cache[S] ELSE arg[u]
  BY <1>3 DEF TakeArgument, PeekArgument
<1>5. PICK x \in {"call", "rename"} :
         /\ \A u \in Tasks : pc'[u] = IF u = t THEN x ELSE pc[u]
         /\ x = "call" => pc[t] = "take" /\ program[t] = "in"
         /\ x = "rename" => pc[t] = "peek" /\ program[t] = "inout"
  BY <1>3, StepDirections DEF TakeArgument, PeekArgument, Goto
<1>6. cache[S] # 0 /\ Final(pc, S) /\ S \in Versions /\ cache[S] \in Tasks
  BY <1>1, <1>3, <1>5, AccessOrder DEF Sources
<1>7. /\ \A u \in Tasks : pc[u] \in Public => pc'[u] \in Public
      /\ \A v : Final(pc', v) => Final(pc, v)
  BY <1>5 DEF Public, Final
<1>8. PublicObjects(pc', cache', arg', server')
  BY <1>1, <1>2, <1>3, <1>4, <1>5, <1>6, <1>7 DEF PublicObjects
<1>9. CachedObjects(pc', cache', arg', heap')
  BY <1>1, <1>2, <1>3, <1>4, <1>5, <1>7 DEF CachedObjects
<1>10. heap[cache[S]] = S /\ \A v \in Versions : cache[v] = cache[S] => v = S
  BY <1>1, <1>6 DEF CachedObjects
<1>11. Arguments(pc', cache', arg', heap')
  BY <1>1, <1>2, <1>4, <1>5, <1>10 DEF Arguments, Private
<1>12. ServedObject(pc', cache', arg', heap', server')
  BY <1>1, <1>2, <1>4, <1>5, <1>6 DEF ServedObject
<1>13. FetchedObjects(pc', cache', arg', heap', server', oData')
  <2>1. SUFFICES ASSUME NEW u \in Tasks, pc'[u] = "write_source"
                 PROVE  Settled(Source(u), oData[u], pc', cache, arg', heap, server)
    BY <1>2 DEF FetchedObjects
  <2>2. /\ u # t /\ pc[u] = "write_source" /\ program[u] = "inout"
        /\ Settled(Source(u), oData[u], pc, cache, arg, heap, server)
    BY <1>1, <1>5, <2>1, StepDirections DEF FetchedObjects
  <2>3. x = "rename" => oData[u] # cache[S]
    BY <1>3, <1>5, <1>6, <2>2 DEF Settled
  <2>. QED  BY <1>4, <1>5, <1>7, <2>2, <2>3 DEF Settled, Holding
<1>14. Objects(pc', cache', arg', heap', server', oData')
  BY <1>8, <1>9, <1>11, <1>12, <1>13 DEF Objects
<1>15. Files(pc', cache', file', preserve', got', server', comm'.cmd)
  BY <1>1, <1>2, <1>3, <1>4, <1>5, FilesKept DEF Sources
<1>. QED  BY <1>1, <1>2, <1>14, <1>15, DataNext

\* The file that is read has the version of the source, and nobody knows the new object.
LEMMA ReadData ==
    ASSUME BaseInv, DataHolds, NEW t \in Tasks, Deserialize(t) \/ RereadSource(t)
    PROVE  DataHolds'
<1>. DEFINE S == Source(t)
<1>1. /\ fault = "none" /\ Files(pc, cache, file, preserve, got, server, comm.cmd)
      /\ Sources(pc, cache, file, preserve, got)
      /\ Serialized(pc, cache, file, server, comm.cmd)
      /\ FinalFiles(pc, file, server) /\ EarlyFiles(pc, file)
      /\ PublicObjects(pc, cache, arg, server) /\ CachedObjects(pc, cache, arg, heap)
      /\ Arguments(pc, cache, arg, heap) /\ ServedObject(pc, cache, arg, heap, server)
      /\ FetchedObjects(pc, cache, arg, heap, server, oData)
  BY DEF DataHolds, Objects, Files, NoFault
<1>2. UNCHANGED <<program, arg, oData, cache, server, file, got, preserve, comm>>
  BY DEF Deserialize, RereadSource, javaVars, given
<1>3. /\ pc \in [Tasks -> Steps] /\ heap \in [Tasks -> Contents]
      /\ arg \in [Tasks -> {0} \cup Tasks]
      /\ cache \in [Versions -> {0} \cup Tasks] /\ 0 \notin Tasks /\ Versions \subseteq Nat
      /\ \A u \in Tasks : Source(u) \in Versions /\ Dest(u) \in Versions
      /\ \A u \in Tasks : Writer(u) <=> program[u] \in {"inout", "out"}
      /\ server.obj \in {0} \cup Tasks
  BY DataTypes, ServerCommand
<1>4. pc[t] \in {"deserialize", "reread"} /\ program[t] \in {"in", "inout"}
  BY StepDirections DEF Deserialize, RereadSource
<1>5. PICK v \in Versions : ReadObject(t, v) /\ file[v] = S
  BY <1>1, <1>3 DEF Deserialize, RereadSource, Sources
<1>6. file[v] \notin {Absent, Partial}
  BY <1>3, <1>5 DEF Absent, Partial
<1>7. /\ fault' = fault
      /\ \A u \in Tasks : pc'[u] = IF u = t THEN "insert" ELSE pc[u]
      /\ \A u \in Tasks : heap'[u] = IF u = t THEN S ELSE heap[u]
  BY <1>3, <1>5, <1>6 DEF ReadObject, Goto
<1>8. /\ \A u \in Tasks : pc'[u] \in Public <=> pc[u] \in Public
      /\ pc[t] \notin Public /\ pc[t] \notin Holding /\ pc[t] \in Private
      /\ \A x : Final(pc', x) => Final(pc, x)
  BY <1>4, <1>7 DEF Public, Holding, Private, Final
<1>9. arg[t] = t
  BY <1>1, <1>8 DEF Arguments
<1>10. PublicObjects(pc', cache', arg', server')
  BY <1>1, <1>2, <1>3, <1>7, <1>8, <1>9 DEF PublicObjects
<1>11. CachedObjects(pc', cache', arg', heap')
  <2>1. \A x \in Versions : cache[x] # 0 => heap'[cache[x]] = heap[cache[x]]
    BY <1>1, <1>3, <1>7, <1>8 DEF PublicObjects
  <2>2. \A u \in Tasks : pc'[u] \in {"remove_file", "call"} => pc[u] \in {"remove_file", "call"}
    BY <1>7
  <2>. QED  BY <1>1, <1>2, <1>3, <1>8, <2>1, <2>2 DEF CachedObjects
<1>12. Arguments(pc', cache', arg', heap')
  <2>1. \A u \in Tasks : u # t /\ pc[u] \in Holding => heap'[arg[u]] = heap[arg[u]]
    BY <1>1, <1>3, <1>7, <1>8 DEF PublicObjects
  <2>. QED  BY <1>1, <1>2, <1>4, <1>7, <1>9, <2>1 DEF Arguments, Private
<1>13. ServedObject(pc', cache', arg', heap', server')
  <2>1. server.step \in {"delete", "write"} /\ server.obj # 0 => server.obj # t
    BY <1>1, <1>8 DEF PublicObjects
  <2>. QED  BY <1>1, <1>2, <1>3, <1>7, <1>9, <2>1 DEF ServedObject
<1>14. FetchedObjects(pc', cache', arg', heap', server', oData')
  <2>1. \A u \in Tasks : pc'[u] = "write_source" => pc[u] = "write_source" /\ oData[u] # t
    BY <1>1, <1>7, <1>8 DEF FetchedObjects, Settled, Public
  <2>. QED  BY <1>1, <1>2, <1>7, <1>8, <1>9, <2>1 DEF FetchedObjects, Settled
<1>15. Objects(pc', cache', arg', heap', server', oData')
  BY <1>10, <1>11, <1>12, <1>13, <1>14 DEF Objects
<1>16. FinalFiles(pc', file', server')
  BY <1>1, <1>2, <1>4, <1>7, <1>8 DEF FinalFiles
<1>17. EarlyFiles(pc', file')
  BY <1>1, <1>2, <1>4, <1>7 DEF EarlyFiles
<1>18. Sources(pc', cache', file', preserve', got')
  BY <1>1, <1>2, <1>7, <1>8 DEF Sources
<1>19. Serialized(pc', cache', file', server', comm'.cmd)
  BY <1>1, <1>2, <1>7 DEF Serialized
<1>20. Files(pc', cache', file', preserve', got', server', comm'.cmd)
  BY <1>16, <1>17, <1>18, <1>19 DEF Files
<1>. QED  BY <1>1, <1>2, <1>7, <1>15, <1>20, DataNext

\* The own object of a task enters the cache.
LEMMA InsertData ==
    ASSUME BaseInv, DataHolds, NEW t \in Tasks, InsertArgument(t)
    PROVE  DataHolds'
<1>. DEFINE S == Source(t)
            D == Dest(t)
<1>1. /\ fault = "none" /\ Files(pc, cache, file, preserve, got, server, comm.cmd)
      /\ Sources(pc, cache, file, preserve, got)
      /\ PublicObjects(pc, cache, arg, server) /\ CachedObjects(pc, cache, arg, heap)
      /\ Arguments(pc, cache, arg, heap) /\ ServedObject(pc, cache, arg, heap, server)
      /\ FetchedObjects(pc, cache, arg, heap, server, oData)
  BY DEF DataHolds, Objects, Files, NoFault
<1>2. UNCHANGED <<program, fault, arg, oData, heap, server, file, got, preserve, comm>>
  BY DEF InsertArgument, javaVars, given
<1>3. /\ pc \in [Tasks -> Steps] /\ arg \in [Tasks -> {0} \cup Tasks]
      /\ cache \in [Versions -> {0} \cup Tasks] /\ 0 \notin Tasks
      /\ \A u \in Tasks : Source(u) \in Versions /\ Dest(u) \in Versions
      /\ \A u \in Tasks : ~ Writer(u) => Dest(u) = Source(u)
      /\ \A u, w \in Tasks : Writer(u) /\ Writer(w) /\ Dest(u) = Dest(w) => u = w
      /\ \A u \in Tasks : Writer(u) <=> program[u] \in {"inout", "out"}
      /\ server.obj \in {0} \cup Tasks
  BY DataTypes, ServerCommand
<1>4. pc[t] = "insert" /\ program[t] \in {"in", "inout", "out"} /\ arg[t] = t
  BY <1>1, StepDirections DEF InsertArgument, Arguments, Private
<1>5. \A v \in Versions : cache'[v] = IF v = D THEN t ELSE cache[v]
  BY <1>3, <1>4 DEF InsertArgument
<1>6. PICK x \in {"call", "remove_file"} :
         /\ \A u \in Tasks : pc'[u] = IF u = t THEN x ELSE pc[u]
         /\ x = "call" => program[t] = "in"
         /\ x = "remove_file" => program[t] # "in"
  <2>. DEFINE y == IF program[t] = "in" THEN "call" ELSE "remove_file"
  <2>1. pc' = [pc EXCEPT ![t] = y]
    BY Zenon DEF InsertArgument, Goto
  <2>2. /\ y \in {"call", "remove_file"} /\ (y = "call" => program[t] = "in")
        /\ y = "remove_file" => program[t] # "in"
    OBVIOUS
  <2>. HIDE DEF y
  <2>. QED  BY <1>3, <2>1, <2>2
<1>7. /\ \A u \in Tasks : pc[u] \in Public => pc'[u] \in Public
      /\ pc[t] \notin Public /\ pc[t] \in Holding /\ pc'[t] \in Public
      /\ \A u \in Tasks : pc'[u] \in Holding => pc[u] \in Holding
      /\ \A v : Final(pc', v) => Final(pc, v)
  BY <1>4, <1>6 DEF Public, Holding, Final
<1>8. \A v \in Versions : cache[v] # t
  BY <1>1, <1>3, <1>7 DEF PublicObjects
<1>9. program[t] = "in" => \A u \in Tasks : Writer(u) /\ Dest(u) = D => pc[u] = "ended"
  BY <1>3, <1>4, AccessOrder
<1>10. PublicObjects(pc', cache', arg', server')
  BY <1>1, <1>2, <1>3, <1>4, <1>5, <1>7 DEF PublicObjects
<1>11. CachedObjects(pc', cache', arg', heap')
  <2>1. \A v, y \in Versions : cache'[v] = cache'[y] /\ cache'[v] # 0 => v = y
    BY <1>1, <1>5, <1>8 DEF CachedObjects
  <2>2. \A v \in Versions : cache'[v] # 0 /\ Final(pc', v) => heap'[cache'[v]] = v
    <3>1. Writer(t) => ~ Final(pc', D)
      BY <1>6 DEF Final
    <3>2. ~ Writer(t) => heap[t] = D
      BY <1>1, <1>3, <1>4, <1>7 DEF Arguments
    <3>. QED  BY <1>1, <1>2, <1>5, <1>7, <3>1, <3>2 DEF CachedObjects
  <2>3. \A u \in Tasks : Writer(u) /\ cache'[Dest(u)] # 0 => pc'[u] \in Public
    <3>1. SUFFICES ASSUME NEW u \in Tasks, Writer(u), cache'[Dest(u)] # 0, u # t
                   PROVE  pc[u] \in Public
      BY <1>7
    <3>2. CASE Dest(u) = D
      <4>1. ~ Writer(t)
        BY <1>3, <3>1, <3>2
      <4>2. pc[u] = "ended"
        BY <1>3, <1>4, <1>9, <3>1, <3>2, <4>1
      <4>. QED  BY <4>2 DEF Public
    <3>3. CASE Dest(u) # D
      BY <1>1, <1>3, <1>5, <3>1, <3>3 DEF CachedObjects
    <3>. QED  BY <3>2, <3>3
  <2>4. \A u \in Tasks : Writer(u) /\ pc'[u] \in {"remove_file", "call"}
          => cache'[Dest(u)] = arg'[u]
    <3>1. SUFFICES ASSUME NEW u \in Tasks, Writer(u), pc'[u] \in {"remove_file", "call"}
                   PROVE  cache'[Dest(u)] = arg'[u]
      OBVIOUS
    <3>2. CASE u = t
      BY <1>2, <1>3, <1>4, <1>5, <3>2
    <3>3. CASE u # t
      <4>1. Dest(u) # D
        BY <1>3, <1>4, <1>6, <1>9, <3>1, <3>3
      <4>. QED  BY <1>1, <1>2, <1>3, <1>5, <1>6, <3>1, <3>3, <4>1 DEF CachedObjects
    <3>. QED  BY <3>2, <3>3
  <2>. QED  BY <2>1, <2>2, <2>3, <2>4 DEF CachedObjects
<1>12. Arguments(pc', cache', arg', heap')
  <2>1. \A u \in Tasks : program[u] = "in" /\ pc'[u] = "call"
          => \A v \in Versions : cache'[v] = arg'[u] => v = Source(u)
    <3>1. SUFFICES ASSUME NEW u \in Tasks, program[u] = "in", pc'[u] = "call",
                          NEW v \in Versions, cache'[v] = arg'[u]
                   PROVE  v = Source(u)
      OBVIOUS
    <3>2. CASE u = t
      BY <1>2, <1>3, <1>4, <1>5, <1>8, <3>1, <3>2
    <3>3. CASE u # t
      <4>1. pc[u] = "call" /\ arg[u] # t
        BY <1>1, <1>6, <1>7, <3>1, <3>3 DEF PublicObjects, Holding
      <4>. QED  BY <1>1, <1>2, <1>5, <3>1, <4>1 DEF Arguments
    <3>. QED  BY <3>2, <3>3
  <2>2. \A u \in Tasks : pc'[u] = "rename" => cache'[Source(u)] = arg'[u]
    <3>1. SUFFICES ASSUME NEW u \in Tasks, pc'[u] = "rename"
                   PROVE  cache'[Source(u)] = arg'[u]
      OBVIOUS
    <3>2. u # t /\ pc[u] = "rename" /\ program[u] = "inout" /\ ~ preserve[u]
      BY <1>1, <1>6, <3>1, StepDirections DEF Sources
    <3>3. Writer(t) => Source(u) # D
      BY <1>4, <3>2, AccessOrder
    <3>4. ~ Writer(t) => Source(u) # D
      BY <1>3, <1>4, <3>2, AccessOrder
    <3>. QED  BY <1>1, <1>2, <1>3, <1>5, <3>2, <3>3, <3>4 DEF Arguments
  <2>3. \A u \in Tasks : pc'[u] \in Private => pc[u] \in Private
    BY <1>6 DEF Private
  <2>4. \A u \in Tasks : /\ pc'[u] \in Holding => pc[u] \in Holding
                         /\ pc'[u] # "ended" => pc[u] # "ended"
    BY <1>4, <1>6, <1>7
  <2>5. /\ \A u \in Tasks : program[u] # "out" /\ pc'[u] \in Holding => heap'[arg'[u]] = Source(u)
        /\ \A u \in Tasks : program[u] = "out" /\ pc'[u] # "ended" => heap'[u] = Fresh
        /\ \A u \in Tasks : program[u] = "out" /\ pc'[u] \in Holding => arg'[u] = u
        /\ \A u \in Tasks : pc'[u] \in Private => arg'[u] = u
    BY <1>1, <1>2, <2>3, <2>4 DEF Arguments
  <2>. QED  BY <2>1, <2>2, <2>5, Zenon DEF Arguments
<1>13. ServedObject(pc', cache', arg', heap', server')
  <2>1. server.step \in {"delete", "write"} /\ server.obj # 0 => server.obj # t
    BY <1>1, <1>7 DEF PublicObjects
  <2>. QED  BY <1>1, <1>2, <1>5, <1>7, <2>1 DEF ServedObject
<1>14. FetchedObjects(pc', cache', arg', heap', server', oData')
  <2>1. \A u \in Tasks : pc'[u] = "write_source" => pc[u] = "write_source" /\ oData[u] # t
    BY <1>1, <1>6, <1>7 DEF FetchedObjects, Settled, Public
  <2>. QED  BY <1>1, <1>2, <1>5, <1>7, <2>1 DEF FetchedObjects, Settled
<1>15. Objects(pc', cache', arg', heap', server', oData')
  BY <1>10, <1>11, <1>12, <1>13, <1>14 DEF Objects
<1>16. Files(pc', cache', file', preserve', got', server', comm'.cmd)
  <2>1. \A v \in Versions : cache[v] # 0 => cache'[v] # 0
    BY <1>3, <1>5
  <2>. QED  BY <1>1, <1>2, <1>3, <1>4, <1>6, <2>1, FilesKept DEF Sources
<1>. QED  BY <1>1, <1>2, <1>15, <1>16, DataNext

\* The file of the source is truncated while nobody else uses it, and written again.
LEMMA RewriteData ==
    ASSUME BaseInv, DataHolds, "exclusive_rewrite" \in env, NEW t \in Tasks,
           TruncateSource(t) \/ WriteSource(t)
    PROVE  DataHolds'
<1>. DEFINE S == Source(t)
<1>1. /\ Objects(pc, cache, arg, heap, server, oData) /\ fault = "none"
      /\ CachedObjects(pc, cache, arg, heap)
      /\ FetchedObjects(pc, cache, arg, heap, server, oData)
      /\ FinalFiles(pc, file, server) /\ EarlyFiles(pc, file)
      /\ Sources(pc, cache, file, preserve, got)
      /\ Serialized(pc, cache, file, server, comm.cmd)
  BY DEF DataHolds, Objects, Files, NoFault
<1>2. /\ UNCHANGED <<program, cache, arg, heap, server, got, preserve, comm>>
      /\ \A u \in Tasks : u # t => oData'[u] = oData[u]
  <2>1. UNCHANGED <<program, cache, arg, heap, server, got, preserve, comm>>
    BY Zenon DEF TruncateSource, WriteSource, cVars, javaVars, given
  <2>2. oData' = oData \/ oData' = [oData EXCEPT ![t] = 0]
    BY Zenon DEF TruncateSource, WriteSource
  <2>. QED  BY <2>1, <2>2, DataTypes
<1>3. /\ pc \in [Tasks -> Steps] /\ file \in [Versions -> Contents]
      /\ cache \in [Versions -> {0} \cup Tasks] /\ 0 \notin Tasks /\ Versions \subseteq Nat
      /\ \A u \in Tasks : Source(u) \in Versions /\ Dest(u) \in Versions
      /\ \A u \in Tasks : ~ Writer(u) => Dest(u) = Source(u)
      /\ \A u, w \in Tasks : Writer(u) /\ Writer(w) /\ Source(u) = Source(w) => u = w
      /\ \A u \in Tasks : Writer(u) <=> program[u] \in {"inout", "out"}
  BY DataTypes
<1>4. pc[t] \in {"truncate_source", "write_source"} /\ program[t] = "inout" /\ S \in Versions
  <2>1. pc[t] \in {"truncate_source", "write_source"}
    BY Zenon DEF TruncateSource, WriteSource
  <2>. QED  BY <1>3, <2>1, StepDirections
<1>5. Final(pc, S) /\ \A u \in Tasks : Writer(u) /\ Dest(u) = S => pc[u] = "ended"
  BY <1>4, AccessOrder
<1>6. cache[S] # 0 /\ heap[cache[S]] = S
  BY <1>1, <1>4, <1>5 DEF Sources, CachedObjects
<1>7. \/ /\ pc[t] = "truncate_source" /\ fault' = fault
         /\ \A u \in Tasks : pc'[u] = IF u = t THEN "fetch_source" ELSE pc[u]
         /\ \A v \in Versions : file'[v] = IF v = S THEN Partial ELSE file[v]
      \/ /\ pc[t] = "write_source" /\ fault' = fault
         /\ \A u \in Tasks : pc'[u] = IF u = t THEN "reread" ELSE pc[u]
         /\ \A v \in Versions : file'[v] = IF v = S THEN S ELSE file[v]
  <2>1. CASE TruncateSource(t)
    BY <1>3, <2>1 DEF TruncateSource, Goto
  <2>2. CASE WriteSource(t)
    <3>0. pc[t] = "write_source"
      BY <2>2, Zenon DEF WriteSource
    <3>1. Content(oData[t]) = S /\ S # Freed
      BY <1>1, <1>3, <1>4, <3>0 DEF FetchedObjects, Settled, Content, Freed
    <3>2. /\ pc[t] = "write_source" /\ fault' = fault /\ pc' = [pc EXCEPT ![t] = "reread"]
          /\ file' = [file EXCEPT ![S] = S]
      BY <2>2, <3>1, Zenon DEF WriteSource, Goto
    <3>. QED  BY <1>3, <3>2
  <2>. QED  BY <2>1, <2>2
<1>8. TruncateSource(t) => ~ OthersUse(S, t)
  BY DEF TruncateSource, Exclusive
<1>9. /\ \A u \in Tasks : u # t /\ Source(u) = S /\ pc[t] = "truncate_source"
           => pc[u] \notin {"deserialize", "sending"}
      /\ comm.cmd # <<"serialize", S>>
  <2>1. TruncateSource(t) => \A u \in Tasks : u # t /\ Source(u) = S
          => pc[u] \notin {"deserialize", "sending"}
    BY <1>8 DEF OthersUse
  <2>2. TruncateSource(t) => comm.cmd # <<"serialize", S>>
    BY <1>4, <1>8, SerializeFacts DEF OthersUse
  <2>3. WriteSource(t) => pc[t] = "write_source"
    BY Zenon DEF WriteSource
  <2>4. WriteSource(t) => comm.cmd # <<"serialize", S>>
    BY <1>1, <1>4, <2>3 DEF Serialized
  <2>5. TruncateSource(t) \/ pc[t] = "write_source"
    BY <2>3
  <2>. QED  BY <2>1, <2>2, <2>4, <2>5
<1>10. \A u \in Tasks : pc[u] \in {"fetch_source", "write_source", "reread"} /\ Source(u) = S
             => u = t
  BY <1>3, <1>4, StepDirections
<1>11. Objects(pc', cache', arg', heap', server', oData')
  BY <1>1, <1>2, <1>3, <1>4, <1>7, ObjectsKept DEF Public, Holding, Private
<1>12. \A v : Final(pc', v) => Final(pc, v)
  BY <1>4, <1>7 DEF Final
<1>13. FinalFiles(pc', file', server')
  <2>1. SUFFICES ASSUME NEW v \in Versions, Final(pc', v)
                 PROVE  \/ file'[v] \in {Absent, v}
                        \/ file'[v] = Partial
                           /\ \E u \in Tasks : Source(u) = v
                                    /\ pc'[u] \in {"fetch_source", "write_source"}
                        \/ /\ file'[v] = Partial /\ server.cmd = <<"serialize", v>>
                           /\ server.step \in Writing
    BY <1>2 DEF FinalFiles
  <2>2. CASE v = S
    BY <1>4, <1>7, <2>2
  <2>3. CASE v # S
    <3>1. file'[v] = file[v] /\ Final(pc, v)
      BY <1>7, <1>12, <2>1, <2>3
    <3>2. \A u \in Tasks : Source(u) = v => pc'[u] = pc[u]
      BY <1>7, <2>3
    <3>. QED  BY <1>1, <3>1, <3>2 DEF FinalFiles
  <2>. QED  BY <2>2, <2>3
<1>14. EarlyFiles(pc', file')
  <2>1. \A u \in Tasks : Writer(u) /\ pc[u] # "ended" => file'[Dest(u)] = file[Dest(u)]
    BY <1>3, <1>5, <1>7
  <2>2. \A u \in Tasks : /\ pc'[u] # "ended" => pc[u] # "ended"
                         /\ pc'[u] \in {"waiting", "submitted", "call"} => pc'[u] = pc[u]
    BY <1>4, <1>7
  <2>. QED  BY <1>1, <2>1, <2>2 DEF EarlyFiles
<1>15. Sources(pc', cache', file', preserve', got')
  <2>1. \A u \in Tasks : cache[Source(u)] # 0 \/ file[Source(u)] = Source(u)
          => cache[Source(u)] # 0 \/ file'[Source(u)] = Source(u)
    BY <1>3, <1>6, <1>7
  <2>2. \A u \in Tasks : program[u] = "inout" /\ pc[u] = "queued" => file'[Dest(u)] = file[Dest(u)]
    BY <1>3, <1>5, <1>7
  <2>3. \A u \in Tasks : pc'[u] = "deserialize" => file'[Dest(u)] = Source(u)
    <3>1. SUFFICES ASSUME NEW u \in Tasks, pc'[u] = "deserialize"
                   PROVE  file'[Dest(u)] = Source(u)
      OBVIOUS
    <3>2. u # t /\ pc[u] = "deserialize" /\ file[Dest(u)] = Source(u)
      BY <1>1, <1>7, <3>1 DEF Sources
    <3>3. Dest(u) # S \/ file'[S] = S
      <4>1. CASE Writer(u)
        BY <1>5, <3>2, <4>1
      <4>2. CASE ~ Writer(u)
        <5>1. Dest(u) = Source(u)
          BY <1>3, <4>2
        <5>. QED  BY <1>4, <1>7, <1>9, <3>2, <5>1
      <4>. QED  BY <4>1, <4>2
    <3>4. CASE Dest(u) # S
      BY <1>3, <1>7, <3>2, <3>4
    <3>5. CASE Dest(u) = S
      <4>1. ~ Writer(u) /\ Dest(u) = Source(u)
        BY <1>3, <1>5, <3>2, <3>5
      <4>. QED  BY <3>3, <3>5, <4>1
    <3>. QED  BY <3>4, <3>5
  <2>4. \A u \in Tasks : pc'[u] \in {"reread", "sending"} => file'[Source(u)] = Source(u)
    <3>1. SUFFICES ASSUME NEW u \in Tasks, pc'[u] \in {"reread", "sending"}
                   PROVE  file'[Source(u)] = Source(u)
      OBVIOUS
    <3>2. CASE u = t
      BY <1>3, <1>7, <3>1, <3>2
    <3>3. CASE u # t
      <4>1. pc[u] \in {"reread", "sending"} /\ file[Source(u)] = Source(u)
        BY <1>1, <1>7, <3>1, <3>3 DEF Sources
      <4>. QED  BY <1>3, <1>7, <1>9, <1>10, <3>3, <4>1
    <3>. QED  BY <3>2, <3>3
  <2>5. \A u \in Tasks :
          pc'[u] \in {"take", "truncate_source", "fetch_source", "write_source", "reread", "peek"}
            => cache'[Source(u)] # 0
    BY <1>1, <1>2, <1>6, <1>7 DEF Sources
  <2>. QED  BY <1>1, <1>2, <1>4, <1>7, <1>12, <2>1, <2>2, <2>3, <2>4, <2>5 DEF Sources
<1>16. Serialized(pc', cache', file', server', comm'.cmd)
  <2>1. SUFFICES ASSUME NEW v \in Versions, comm.cmd = <<"serialize", v>>
                 PROVE  /\ cache[v] # 0
                        /\ \A u \in Tasks : Source(u) = v
                              => pc'[u] \notin {"fetch_source", "write_source", "reread"}
                        /\ server.step \in Writing \/ file'[v] \in {Absent, v}
                        /\ server.step \notin Writing \cup {"reply"} => file'[v] = Absent
                        /\ server.step = "reply" => file'[v] = v
    BY <1>2 DEF Serialized
  <2>2. v # S
    BY <1>9, <2>1
  <2>3. file'[v] = file[v] /\ \A u \in Tasks : Source(u) = v => pc'[u] = pc[u]
    BY <1>7, <2>2
  <2>. QED  BY <1>1, <2>1, <2>3 DEF Serialized
<1>17. Files(pc', cache', file', preserve', got', server', comm'.cmd)
  BY <1>13, <1>14, <1>15, <1>16 DEF Files
<1>18. fault' = "none"
  BY <1>1, <1>7
<1>. QED  BY <1>2, <1>11, <1>17, <1>18, DataNext

\* The object that is fetched stays as it is: its task is a reader that has not ended.
LEMMA FetchData ==
    ASSUME BaseInv, DataHolds, NEW t \in Tasks, FetchSource(t)
    PROVE  DataHolds'
<1>. DEFINE S == Source(t)
            o == cache[S]
<1>0. TypeInv
  BY DEF BaseInv
<1>1. /\ Objects(pc, cache, arg, heap, server, oData) /\ fault = "none"
      /\ Files(pc, cache, file, preserve, got, server, comm.cmd)
      /\ Sources(pc, cache, file, preserve, got)
      /\ PublicObjects(pc, cache, arg, server) /\ CachedObjects(pc, cache, arg, heap)
      /\ Arguments(pc, cache, arg, heap) /\ ServedObject(pc, cache, arg, heap, server)
  BY DEF DataHolds, Objects, Files, NoFault
<1>2. UNCHANGED <<program, fault, cache, arg, heap, server, file, got, preserve, comm>>
  BY DEF FetchSource, cVars, javaVars, given
<1>3. /\ pc \in [Tasks -> Steps] /\ oData \in [Tasks -> {0} \cup Tasks]
      /\ cache \in [Versions -> {0} \cup Tasks] /\ 0 \notin Tasks
      /\ \A u \in Tasks : Source(u) \in Versions /\ Dest(u) \in Versions
      /\ \A u \in Tasks : ~ Writer(u) => Dest(u) = Source(u)
      /\ \A u, w \in Tasks : Writer(u) /\ Writer(w) /\ Source(u) = Source(w) => u = w
      /\ \A u \in Tasks : Writer(u) <=> program[u] \in {"inout", "out"}
      /\ \A u \in Tasks : program[u] \in {"in", "inout", "out", "remote"}
  BY DataTypes
<1>4. pc[t] = "fetch_source" /\ program[t] = "inout" /\ S \in Versions
  BY <1>3, StepDirections DEF FetchSource
<1>5. /\ \A u \in Tasks : pc'[u] = IF u = t THEN "write_source" ELSE pc[u]
      /\ \A u \in Tasks : oData'[u] = IF u = t THEN o ELSE oData[u]
  BY <1>3 DEF FetchSource, Goto
<1>6. Final(pc, S) /\ \A u \in Tasks : Writer(u) /\ Dest(u) = S => pc[u] = "ended"
  BY <1>4, AccessOrder
<1>7. /\ o \in Tasks /\ heap[o] = S /\ pc[o] \in Public
      /\ \A v \in Versions : cache[v] = o => v = S
  BY <1>1, <1>3, <1>4, <1>6 DEF Sources, CachedObjects, PublicObjects
<1>8. ASSUME NEW u \in Tasks, pc[u] \in Holding, arg[u] = o
      PROVE  program[u] = "in"
  <2>1. SUFFICES ASSUME program[u] # "in" PROVE FALSE
    OBVIOUS
  <2>2. CASE pc[u] = "insert"
    BY <1>1, <1>7, <1>8, <2>2 DEF Arguments, Private, Public
  <2>3. CASE pc[u] = "rename"
    <3>1. cache[Source(u)] = o /\ program[u] = "inout"
      BY <1>1, <1>8, <2>3, StepDirections DEF Arguments
    <3>2. Source(u) = S
      BY <1>3, <1>7, <3>1
    <3>3. u = t
      BY <1>3, <1>4, <3>1, <3>2
    <3>. QED  BY <1>4, <2>3, <3>3
  <2>4. CASE pc[u] \in {"remove_file", "call"}
    <3>1. Writer(u)
      BY <1>3, <2>1, <2>4, StepDirections
    <3>2. cache[Dest(u)] = o
      BY <1>1, <1>8, <2>4, <3>1 DEF CachedObjects
    <3>3. Dest(u) = S
      BY <1>3, <1>7, <3>2
    <3>. QED  BY <1>6, <2>4, <3>1, <3>3
  <2>. QED  BY <1>8, <2>2, <2>3, <2>4 DEF Holding
<1>9. server.step = "delete" => server.obj # o
  BY <1>1, <1>3, <1>4, <1>7 DEF ServedObject
<1>10. Settled(S, o, pc, cache, arg, heap, server)
  BY <1>7, <1>8, <1>9 DEF Settled
<1>11. Objects(pc', cache', arg', heap', server', oData')
  <2>1. \A u \in Tasks : pc'[u] = "write_source"
          => \/ pc[u] = "write_source" /\ oData'[u] = oData[u]
             \/ Settled(Source(u), oData'[u], pc, cache, arg, heap, server)
    BY <1>5, <1>10
  <2>. QED  BY <1>1, <1>2, <1>4, <1>5, <2>1, ObjectsKept DEF Public, Holding, Private
<1>12. Files(pc', cache', file', preserve', got', server', comm'.cmd)
  BY <1>1, <1>2, <1>3, <1>4, <1>5, FilesKept DEF Sources
<1>. QED  BY <1>1, <1>2, <1>11, <1>12, DataNext

\* The object of the source becomes the object of the version to be produced.
LEMMA RenameData ==
    ASSUME BaseInv, DataHolds, NEW t \in Tasks, RenameArgument(t)
    PROVE  DataHolds'
<1>. DEFINE S == Source(t)
            D == Dest(t)
<1>1. /\ fault = "none" /\ FinalFiles(pc, file, server) /\ EarlyFiles(pc, file)
      /\ Sources(pc, cache, file, preserve, got)
      /\ Serialized(pc, cache, file, server, comm.cmd)
      /\ PublicObjects(pc, cache, arg, server) /\ CachedObjects(pc, cache, arg, heap)
      /\ Arguments(pc, cache, arg, heap) /\ ServedObject(pc, cache, arg, heap, server)
      /\ FetchedObjects(pc, cache, arg, heap, server, oData)
  BY DEF DataHolds, Objects, Files, NoFault
<1>2. UNCHANGED <<program, fault, arg, oData, heap, server, file, got, preserve, comm>>
  BY DEF RenameArgument, javaVars, given
<1>3. /\ pc \in [Tasks -> Steps] /\ arg \in [Tasks -> {0} \cup Tasks]
      /\ cache \in [Versions -> {0} \cup Tasks] /\ 0 \notin Tasks
      /\ \A u \in Tasks : Source(u) \in Versions /\ Dest(u) \in Versions
      /\ \A u \in Tasks : Writer(u) => Dest(u) # Source(u)
      /\ \A u, w \in Tasks : Writer(u) /\ Writer(w) /\ Dest(u) = Dest(w) => u = w
      /\ \A u \in Tasks : Writer(u) <=> program[u] \in {"inout", "out"}
      /\ server.obj \in {0} \cup Tasks
  BY DataTypes, ServerCommand
<1>4. /\ pc[t] = "rename" /\ program[t] = "inout" /\ ~ preserve[t] /\ Writer(t)
      /\ arg[t] = cache[S] /\ cache[S] # 0 /\ D # S
  BY <1>1, <1>3, StepDirections DEF RenameArgument, Sources, Arguments, PublicObjects, Holding
<1>5. \A v \in Versions : cache'[v] = IF v = D THEN arg[t] ELSE IF v = S THEN 0 ELSE cache[v]
  BY <1>3, <1>4 DEF RenameArgument
<1>6. \A u \in Tasks : pc'[u] = IF u = t THEN "remove_file" ELSE pc[u]
  BY <1>3 DEF RenameArgument, Goto
<1>7. /\ \A u \in Tasks : program[u] # "out" /\ Source(u) = S /\ u # t => pc[u] = "ended"
      /\ \A u \in Tasks : Writer(u) /\ Dest(u) = S => pc[u] = "ended"
      /\ \A u \in Tasks : pc[u] # "waiting" /\ program[u] # "out" => Source(u) # D
  BY <1>4, AccessOrder
<1>8. comm.cmd # <<"serialize", S>>
  BY <1>3, <1>4, <1>7, SerializeFacts
<1>9. /\ \A u \in Tasks : pc[u] \in Public => pc'[u] \in Public
      /\ \A u \in Tasks : pc'[u] \in Holding => pc[u] \in Holding
      /\ \A v : Final(pc', v) => Final(pc, v)
      /\ ~ Final(pc', D)
  BY <1>4, <1>6 DEF Public, Holding, Final
<1>10. \A v \in Versions : v # S /\ cache[v] # 0 => cache'[v] # 0
  BY <1>4, <1>5
<1>11. PublicObjects(pc', cache', arg', server')
  BY <1>1, <1>2, <1>3, <1>4, <1>5, <1>9 DEF PublicObjects
<1>12. CachedObjects(pc', cache', arg', heap')
  <2>1. \A v, x \in Versions : cache'[v] = cache'[x] /\ cache'[v] # 0 => v = x
    BY <1>1, <1>3, <1>4, <1>5 DEF CachedObjects
  <2>2. \A v \in Versions : cache'[v] # 0 /\ Final(pc', v) => heap'[cache'[v]] = v
    BY <1>1, <1>2, <1>5, <1>9 DEF CachedObjects
  <2>3. \A u \in Tasks : Writer(u) /\ cache'[Dest(u)] # 0 => pc'[u] \in Public
    <3>1. SUFFICES ASSUME NEW u \in Tasks, Writer(u), cache'[Dest(u)] # 0
                   PROVE  pc'[u] \in Public
      OBVIOUS
    <3>2. CASE u = t
      BY <1>6, <3>2 DEF Public
    <3>3. CASE u # t
      <4>1. Dest(u) # D
        BY <1>3, <1>4, <3>1, <3>3
      <4>2. cache[Dest(u)] # 0
        BY <1>3, <1>5, <3>1, <4>1
      <4>. QED  BY <1>1, <1>9, <3>1, <4>2 DEF CachedObjects
    <3>. QED  BY <3>2, <3>3
  <2>4. \A u \in Tasks : Writer(u) /\ pc'[u] \in {"remove_file", "call"}
          => cache'[Dest(u)] = arg'[u]
    <3>1. SUFFICES ASSUME NEW u \in Tasks, Writer(u), pc'[u] \in {"remove_file", "call"}
                   PROVE  cache'[Dest(u)] = arg'[u]
      OBVIOUS
    <3>2. CASE u = t
      BY <1>2, <1>3, <1>5, <3>2
    <3>3. CASE u # t
      <4>1. Dest(u) # D /\ Dest(u) # S
        BY <1>3, <1>4, <1>6, <1>7, <3>1, <3>3
      <4>. QED  BY <1>1, <1>2, <1>3, <1>5, <1>6, <3>1, <3>3, <4>1 DEF CachedObjects
    <3>. QED  BY <3>2, <3>3
  <2>. QED  BY <2>1, <2>2, <2>3, <2>4 DEF CachedObjects
<1>13. Arguments(pc', cache', arg', heap')
  <2>1. \A u \in Tasks : program[u] = "in" /\ pc'[u] = "call"
          => \A v \in Versions : cache'[v] = arg'[u] => v = Source(u)
    <3>1. SUFFICES ASSUME NEW u \in Tasks, program[u] = "in", pc'[u] = "call",
                          NEW v \in Versions, cache'[v] = arg'[u]
                   PROVE  v = Source(u)
      OBVIOUS
    <3>2. u # t /\ pc[u] = "call" /\ arg[u] # 0 /\ Source(u) # S
      BY <1>1, <1>4, <1>6, <1>7, <3>1 DEF PublicObjects, Holding
    <3>3. arg[u] # cache[S]
      BY <1>1, <1>3, <3>1, <3>2 DEF Arguments
    <3>. QED  BY <1>1, <1>2, <1>4, <1>5, <3>1, <3>2, <3>3 DEF Arguments
  <2>2. \A u \in Tasks : pc'[u] = "rename" => cache'[Source(u)] = arg'[u]
    <3>1. SUFFICES ASSUME NEW u \in Tasks, pc'[u] = "rename"
                   PROVE  cache'[Source(u)] = arg'[u]
      OBVIOUS
    <3>2. u # t /\ pc[u] = "rename" /\ program[u] = "inout"
      BY <1>6, <3>1, StepDirections
    <3>3. Source(u) # D /\ Source(u) # S
      BY <1>7, <3>2
    <3>. QED  BY <1>1, <1>2, <1>3, <1>5, <3>2, <3>3 DEF Arguments
  <2>3. \A u \in Tasks : /\ pc'[u] \in Holding => pc[u] \in Holding
                         /\ pc'[u] # "ended" => pc[u] # "ended"
                         /\ pc'[u] \in Private => pc[u] \in Private
    BY <1>4, <1>6, <1>9 DEF Private
  <2>4. /\ \A u \in Tasks : program[u] # "out" /\ pc'[u] \in Holding => heap'[arg'[u]] = Source(u)
        /\ \A u \in Tasks : program[u] = "out" /\ pc'[u] # "ended" => heap'[u] = Fresh
        /\ \A u \in Tasks : program[u] = "out" /\ pc'[u] \in Holding => arg'[u] = u
        /\ \A u \in Tasks : pc'[u] \in Private => arg'[u] = u
    BY <1>1, <1>2, <2>3 DEF Arguments
  <2>. QED  BY <2>1, <2>2, <2>4, Zenon DEF Arguments
<1>14. ServedObject(pc', cache', arg', heap', server')
  <2>1. server.step = "write" => server.obj # cache[S]
    <3>1. SUFFICES ASSUME server.step = "write", server.obj = cache[S]
                   PROVE  FALSE
      OBVIOUS
    <3>2. S = server.cmd[2]
      BY <1>1, <1>3, <3>1 DEF ServedObject
    <3>3. comm.cmd = <<"serialize", S>>
      BY <3>1, <3>2, ServerCommand DEF SerializeSteps
    <3>. QED  BY <1>8, <3>3
  <2>. QED  BY <1>1, <1>2, <1>3, <1>4, <1>5, <1>9, <2>1 DEF ServedObject
<1>15. FetchedObjects(pc', cache', arg', heap', server', oData')
  <2>1. SUFFICES ASSUME NEW u \in Tasks, pc'[u] = "write_source"
                 PROVE  Settled(Source(u), oData[u], pc', cache', arg, heap, server)
    BY <1>2 DEF FetchedObjects
  <2>2. /\ u # t /\ pc[u] = "write_source" /\ program[u] = "inout"
        /\ Settled(Source(u), oData[u], pc, cache, arg, heap, server)
    BY <1>1, <1>4, <1>6, <2>1, StepDirections DEF FetchedObjects
  <2>3. arg[t] # oData[u] /\ 0 \notin Tasks
    BY <1>4, <2>2, DataTypes DEF Settled, Holding
  <2>. QED  BY <1>5, <1>9, <2>2, <2>3 DEF Settled
<1>16. Objects(pc', cache', arg', heap', server', oData')
  BY <1>11, <1>12, <1>13, <1>14, <1>15 DEF Objects
<1>17. FinalFiles(pc', file', server')
  BY <1>1, <1>2, <1>4, <1>6, <1>9 DEF FinalFiles
<1>18. EarlyFiles(pc', file')
  BY <1>1, <1>2, <1>4, <1>6 DEF EarlyFiles
<1>19. Sources(pc', cache', file', preserve', got')
  <2>1. \A u \in Tasks : program[u] # "out" /\ pc'[u] \notin {"ended", "remove_file"}
          /\ cache[Source(u)] # 0 => cache'[Source(u)] # 0
    BY <1>3, <1>6, <1>7, <1>10
  <2>2. \A u \in Tasks : pc'[u] # "remove_file" => pc'[u] = pc[u]
    BY <1>6
  <2>3. \A u \in Tasks :
              pc[u] \in {"take", "truncate_source", "fetch_source", "write_source", "reread", "peek"}
          => program[u] # "out"
    BY StepDirections
  <2>. QED  BY <1>1, <1>2, <1>9, <2>1, <2>2, <2>3 DEF Sources
<1>20. Serialized(pc', cache', file', server', comm'.cmd)
  <2>1. \A u \in Tasks : pc'[u] \in {"fetch_source", "write_source", "reread"}
              => pc[u] \in {"fetch_source", "write_source", "reread"}
    BY <1>6
  <2>. QED  BY <1>1, <1>2, <1>8, <1>10, <2>1 DEF Serialized
<1>21. Files(pc', cache', file', preserve', got', server', comm'.cmd)
  BY <1>17, <1>18, <1>19, <1>20 DEF Files
<1>. QED  BY <1>1, <1>2, <1>16, <1>21, DataNext

\* The file of the version to be produced, which nobody reads yet, is removed.
LEMMA RemoveDestData ==
    ASSUME BaseInv, DataHolds, NEW t \in Tasks, RemoveDestFile(t)
    PROVE  DataHolds'
<1>. DEFINE D == Dest(t)
<1>1. /\ Objects(pc, cache, arg, heap, server, oData) /\ fault = "none"
      /\ FinalFiles(pc, file, server) /\ EarlyFiles(pc, file)
      /\ Sources(pc, cache, file, preserve, got)
      /\ Serialized(pc, cache, file, server, comm.cmd)
  BY DEF DataHolds, Files, NoFault
<1>2. UNCHANGED <<program, fault, cache, arg, oData, heap, server, got, preserve, comm>>
  BY DEF RemoveDestFile, cVars, javaVars, given
<1>3. /\ pc \in [Tasks -> Steps] /\ file \in [Versions -> Contents]
      /\ \A u \in Tasks : Source(u) \in Versions /\ Dest(u) \in Versions
      /\ \A u \in Tasks : ~ Writer(u) => Dest(u) = Source(u)
      /\ \A u, w \in Tasks : Writer(u) /\ Writer(w) /\ Dest(u) = Dest(w) => u = w
      /\ \A u \in Tasks : Writer(u) <=> program[u] \in {"inout", "out"}
  BY DataTypes
<1>4. pc[t] = "remove_file" /\ program[t] \in {"inout", "out"} /\ Writer(t)
  BY <1>3, StepDirections DEF RemoveDestFile
<1>5. \A v \in Versions : file'[v] = IF v = D THEN Absent ELSE file[v]
  BY <1>3 DEF RemoveDestFile
<1>6. \A u \in Tasks : pc'[u] = IF u = t THEN "call" ELSE pc[u]
  BY <1>3 DEF RemoveDestFile, Goto
<1>7. \A u \in Tasks : pc[u] # "waiting" /\ program[u] # "out" => Source(u) # D
  BY <1>4, AccessOrder
<1>8. comm.cmd # <<"serialize", D>>
  BY <1>3, <1>7, SerializeFacts
<1>9. Objects(pc', cache', arg', heap', server', oData')
  <2>1. \A u \in Tasks : /\ pc[u] \in Public => pc'[u] \in Public
                         /\ pc'[u] \in Holding => pc[u] \in Holding
                         /\ pc'[u] \in Private => pc[u] \in Private
    BY <1>4, <1>6 DEF Public, Holding, Private
  <2>. QED  BY <1>1, <1>2, <1>4, <1>6, <2>1, ObjectsKept
<1>10. \A v : Final(pc', v) => Final(pc, v)
  BY <1>4, <1>6 DEF Final
<1>11. ~ Final(pc, D)
  BY <1>4 DEF Final
<1>12. FinalFiles(pc', file', server')
  <2>1. \A u \in Tasks : pc[u] \in {"fetch_source", "write_source"}
              => pc'[u] \in {"fetch_source", "write_source"}
    BY <1>4, <1>6
  <2>. QED  BY <1>1, <1>2, <1>5, <1>10, <1>11, <2>1 DEF FinalFiles
<1>13. EarlyFiles(pc', file')
  <2>1. SUFFICES ASSUME NEW u \in Tasks, Writer(u), pc'[u] # "ended"
                 PROVE  /\ file'[Dest(u)] \in {Absent, Source(u)}
                        /\ program[u] = "out" \/ pc'[u] \in {"waiting", "submitted", "call"}
                              => file'[Dest(u)] = Absent
    BY DEF EarlyFiles
  <2>2. CASE u = t
    BY <1>3, <1>5, <2>2
  <2>3. CASE u # t
    BY <1>1, <1>3, <1>4, <1>5, <1>6, <2>1, <2>3 DEF EarlyFiles
  <2>. QED  BY <2>2, <2>3
<1>14. Sources(pc', cache', file', preserve', got')
  <2>1. \A u \in Tasks : pc'[u] # "call" => pc'[u] = pc[u] /\ u # t
    BY <1>6
  <2>2. \A u \in Tasks : program[u] # "out" /\ Final(pc, Source(u)) => file'[Source(u)] = file[Source(u)]
    BY <1>3, <1>5, <1>11
  <2>3. \A u \in Tasks : u # t /\ pc[u] # "waiting" /\ program[u] # "out"
          => file'[Dest(u)] = file[Dest(u)] /\ file'[Source(u)] = file[Source(u)]
    BY <1>3, <1>4, <1>5, <1>7
  <2>4. \A u \in Tasks : pc[u] \in {"deserialize", "reread", "sending"} => program[u] # "out"
    BY StepDirections
  <2>. QED  BY <1>1, <1>2, <1>10, <2>1, <2>2, <2>3, <2>4 DEF Sources
<1>15. Serialized(pc', cache', file', server', comm'.cmd)
  <2>1. \A u \in Tasks : pc'[u] \in {"fetch_source", "write_source", "reread"}
              => pc[u] \in {"fetch_source", "write_source", "reread"}
    BY <1>6
  <2>. QED  BY <1>1, <1>2, <1>5, <1>8, <2>1 DEF Serialized
<1>16. Files(pc', cache', file', preserve', got', server', comm'.cmd)
  BY <1>12, <1>13, <1>14, <1>15 DEF Files
<1>. QED  BY <1>1, <1>2, <1>9, <1>16, DataNext

\* The method of the user: its object is the one of its source, or is new, and nobody else
\* uses the object that it changes.
LEMMA CallData ==
    ASSUME BaseInv, DataHolds, NEW t \in Tasks, Call(t)
    PROVE  DataHolds'
<1>. DEFINE D == Dest(t)
            o == arg[t]
<1>1. /\ Objects(pc, cache, arg, heap, server, oData)
      /\ Files(pc, cache, file, preserve, got, server, comm.cmd)
      /\ fault = "none" /\ FinalFiles(pc, file, server) /\ EarlyFiles(pc, file)
      /\ Sources(pc, cache, file, preserve, got)
      /\ Serialized(pc, cache, file, server, comm.cmd)
      /\ PublicObjects(pc, cache, arg, server) /\ CachedObjects(pc, cache, arg, heap)
      /\ Arguments(pc, cache, arg, heap) /\ ServedObject(pc, cache, arg, heap, server)
      /\ FetchedObjects(pc, cache, arg, heap, server, oData)
  BY DEF DataHolds, Objects, Files, NoFault
<1>2. UNCHANGED <<program, cache, arg, oData, server, file, got, preserve, comm>> /\ pc[t] = "call"
  BY Zenon DEF Call, javaVars, given
<1>3. /\ pc \in [Tasks -> Steps] /\ arg \in [Tasks -> {0} \cup Tasks]
      /\ cache \in [Versions -> {0} \cup Tasks] /\ 0 \notin Tasks /\ Versions \subseteq Nat
      /\ heap \in [Tasks -> Contents]
      /\ \A u \in Tasks : Source(u) \in Versions /\ Dest(u) \in Versions
      /\ \A u, w \in Tasks : Writer(u) /\ Writer(w) /\ Dest(u) = Dest(w) => u = w
      /\ \A u \in Tasks : Writer(u) <=> program[u] \in {"inout", "out"}
      /\ server.obj \in {0} \cup Tasks
  BY DataTypes, ServerCommand
<1>4. program[t] \in {"in", "inout", "out"} /\ o # 0 /\ o \in Tasks
  BY <1>1, <1>2, <1>3, StepDirections DEF PublicObjects, Holding
<1>5. Content(o) # Freed
  <2>1. heap[o] = Source(t) \/ heap[o] = Fresh
    BY <1>1, <1>2 DEF Arguments, Holding
  <2>2. Source(t) \in Nat
    BY <1>3
  <2>. QED  BY <1>4, <2>1, <2>2 DEF Content, Freed, Fresh
<1>6. /\ heap' = IF program[t] = "in" THEN heap ELSE [heap EXCEPT ![o] = D]
      /\ pc' = [pc EXCEPT ![t] = "ended"] /\ fault' = "none"
  BY <1>1, <1>5, Zenon DEF Call, Goto
<1>7. \A u \in Tasks : pc'[u] = IF u = t THEN "ended" ELSE pc[u]
  BY <1>3, <1>6
<1>8. \A u \in Tasks : /\ pc[u] \in Public => pc'[u] \in Public
                       /\ pc'[u] \in Holding => pc[u] \in Holding /\ u # t
                       /\ pc'[u] \in Private => pc[u] \in Private
                       /\ pc'[u] # "ended" => pc'[u] = pc[u] /\ u # t
  BY <1>2, <1>7 DEF Public, Holding, Private
<1>9. CASE program[t] = "in"
  <2>1. ~ Writer(t) /\ heap' = heap
    BY <1>3, <1>6, <1>9
  <2>2. Objects(pc', cache', arg', heap', server', oData')
    BY <1>1, <1>2, <1>7, <1>8, <2>1, ObjectsKept
  <2>3. Files(pc', cache', file', preserve', got', server', comm'.cmd)
    BY <1>1, <1>2, <1>7, <1>9, <2>1, FilesKept DEF Sources
  <2>. QED  BY <1>2, <1>6, <2>2, <2>3, DataNext
<1>10. CASE program[t] # "in"
  <2>1. Writer(t) /\ D \in Versions /\ cache[D] = o
    BY <1>1, <1>2, <1>3, <1>4, <1>10 DEF CachedObjects
  <2>2. \A u \in Tasks : heap'[u] = IF u = o THEN D ELSE heap[u]
    BY <1>3, <1>4, <1>6, <1>10
  <2>3. \A u \in Tasks : pc[u] # "waiting" /\ program[u] # "out" => Source(u) # D
    BY <1>2, <2>1, AccessOrder
  <2>4. pc[o] \in Public
    BY <1>1, <1>4, <2>1 DEF PublicObjects
  <2>5. ASSUME NEW u \in Tasks, u # t, pc[u] \in Holding
        PROVE  arg[u] # o
    <3>1. CASE pc[u] = "insert"
      <4>1. arg[u] = u /\ pc[u] \notin Public
        BY <1>1, <3>1 DEF Arguments, Private, Public
      <4>. QED  BY <2>4, <4>1
    <3>2. CASE pc[u] = "rename"
      <4>1. cache[Source(u)] = arg[u] /\ Source(u) # D
        BY <1>1, <2>3, <3>2, StepDirections DEF Arguments
      <4>. QED  BY <1>1, <1>3, <1>4, <2>1, <4>1 DEF CachedObjects
    <3>3. CASE pc[u] \in {"remove_file", "call"} /\ Writer(u)
      <4>1. cache[Dest(u)] = arg[u] /\ Dest(u) # D
        BY <1>1, <1>3, <2>1, <2>5, <3>3 DEF CachedObjects
      <4>. QED  BY <1>1, <1>3, <1>4, <2>1, <4>1 DEF CachedObjects
    <3>4. CASE pc[u] \in {"remove_file", "call"} /\ ~ Writer(u)
      <4>1. pc[u] = "call" /\ program[u] = "in"
        BY <1>3, <3>4, StepDirections
      <4>2. Source(u) # D
        BY <2>3, <4>1
      <4>. QED  BY <1>1, <2>1, <4>1, <4>2 DEF Arguments
    <3>. QED  BY <2>5, <3>1, <3>2, <3>3, <3>4 DEF Holding
  <2>6. \A v : v # D /\ Final(pc', v) => Final(pc, v)
    BY <1>7 DEF Final
  <2>7. \A v \in Versions : cache[v] # 0 /\ v # D => cache[v] # o /\ cache[v] \in Tasks
    BY <1>1, <1>3, <2>1 DEF CachedObjects
  <2>8. PublicObjects(pc', cache', arg', server')
    BY <1>1, <1>2, <1>3, <1>8 DEF PublicObjects
  <2>9. CachedObjects(pc', cache', arg', heap')
    <3>1. \A v \in Versions : cache'[v] # 0 /\ Final(pc', v) => heap'[cache'[v]] = v
      BY <1>1, <1>2, <1>4, <2>1, <2>2, <2>6, <2>7 DEF CachedObjects
    <3>2. /\ \A v, x \in Versions : cache'[v] = cache'[x] /\ cache'[v] # 0 => v = x
          /\ \A u \in Tasks : Writer(u) /\ cache'[Dest(u)] # 0 => pc'[u] \in Public
          /\ \A u \in Tasks : Writer(u) /\ pc'[u] \in {"remove_file", "call"}
                => cache'[Dest(u)] = arg'[u]
      BY <1>1, <1>2, <1>8 DEF CachedObjects
    <3>. QED  BY <3>1, <3>2, Zenon DEF CachedObjects
  <2>10. Arguments(pc', cache', arg', heap')
    <3>1. \A u \in Tasks : program[u] # "out" /\ pc'[u] \in Holding => heap'[arg'[u]] = Source(u)
      <4>1. SUFFICES ASSUME NEW u \in Tasks, program[u] # "out", pc'[u] \in Holding
                     PROVE  heap'[arg[u]] = Source(u)
        BY <1>2
      <4>2. pc[u] \in Holding /\ u # t /\ arg[u] # 0
        BY <1>1, <1>8, <4>1 DEF PublicObjects
      <4>3. arg[u] # o /\ arg[u] \in Tasks
        BY <1>3, <2>5, <4>2
      <4>. QED  BY <1>1, <2>2, <4>1, <4>2, <4>3 DEF Arguments
    <3>2. \A u \in Tasks : program[u] = "out" /\ pc'[u] # "ended" => heap'[u] = Fresh
      <4>1. SUFFICES ASSUME NEW u \in Tasks, program[u] = "out", pc'[u] # "ended"
                     PROVE  heap'[u] = Fresh
        OBVIOUS
      <4>2. u # t /\ pc[u] # "ended" /\ heap[u] = Fresh
        BY <1>1, <1>8, <4>1 DEF Arguments
      <4>3. u # o
        <5>1. SUFFICES ASSUME u = o PROVE FALSE
          OBVIOUS
        <5>2. pc[u] \in Holding
          BY <2>4, <4>2, <5>1 DEF Public, Holding
        <5>3. arg[u] = u
          BY <1>1, <4>1, <5>2 DEF Arguments
        <5>. QED  BY <2>5, <4>2, <5>1, <5>2, <5>3
      <4>. QED  BY <2>2, <4>2, <4>3
    <3>3. /\ \A u \in Tasks : program[u] = "out" /\ pc'[u] \in Holding => arg'[u] = u
          /\ \A u \in Tasks : program[u] = "in" /\ pc'[u] = "call"
                => \A v \in Versions : cache'[v] = arg'[u] => v = Source(u)
          /\ \A u \in Tasks : pc'[u] = "rename" => cache'[Source(u)] = arg'[u]
          /\ \A u \in Tasks : pc'[u] \in Private => arg'[u] = u
      BY <1>1, <1>2, <1>8 DEF Arguments
    <3>. QED  BY <3>1, <3>2, <3>3, Zenon DEF Arguments
  <2>11. ServedObject(pc', cache', arg', heap', server')
    <3>1. ASSUME server.step = "write" PROVE server.obj # o
      <4>1. SUFFICES ASSUME server.obj = o PROVE FALSE
        OBVIOUS
      <4>2. D = server.cmd[2]
        BY <1>1, <2>1, <3>1, <4>1 DEF ServedObject
      <4>3. comm.cmd = <<"serialize", D>>
        BY <3>1, <4>2, ServerCommand DEF SerializeSteps
      <4>. QED  BY <2>1, <2>3, <4>3, SerializeFacts
    <3>2. server.step = "write" => server.obj \in Tasks /\ heap'[server.obj] = heap[server.obj]
      BY <1>1, <1>3, <2>2, <3>1 DEF ServedObject
    <3>. QED  BY <1>1, <1>2, <1>8, <3>2 DEF ServedObject
  <2>12. FetchedObjects(pc', cache', arg', heap', server', oData')
    <3>1. \A u \in Tasks : pc[u] = "write_source" => oData[u] # o
      BY <1>1, <1>2, <1>10 DEF FetchedObjects, Settled, Holding
    <3>. QED  BY <1>1, <1>2, <1>8, <2>2, <3>1 DEF FetchedObjects, Settled
  <2>13. Objects(pc', cache', arg', heap', server', oData')
    BY <2>8, <2>9, <2>10, <2>11, <2>12 DEF Objects
  <2>14. file[D] = Absent
    BY <1>1, <1>2, <2>1 DEF EarlyFiles
  <2>15. FinalFiles(pc', file', server')
    <3>1. \A u \in Tasks : pc[u] \in {"fetch_source", "write_source"}
                => pc'[u] \in {"fetch_source", "write_source"}
      BY <1>2, <1>7
    <3>. QED  BY <1>1, <1>2, <2>6, <2>14, <3>1 DEF FinalFiles
  <2>16. EarlyFiles(pc', file')
    BY <1>1, <1>2, <1>8 DEF EarlyFiles
  <2>17. Sources(pc', cache', file', preserve', got')
    <3>1. \A u \in Tasks : program[u] = "remote" => pc'[u] = pc[u]
      BY <1>4, <1>7
    <3>2. \A u \in Tasks : Final(pc', Source(u)) => Final(pc, Source(u)) \/ cache[Source(u)] # 0
      BY <1>4, <2>1, <2>6
    <3>. QED  BY <1>1, <1>2, <1>8, <3>1, <3>2 DEF Sources
  <2>18. Serialized(pc', cache', file', server', comm'.cmd)
    BY <1>1, <1>2, <1>8 DEF Serialized
  <2>19. Files(pc', cache', file', preserve', got', server', comm'.cmd)
    BY <2>15, <2>16, <2>17, <2>18 DEF Files
  <2>. QED  BY <1>2, <1>6, <2>13, <2>19, DataNext
<1>. QED  BY <1>9, <1>10

-----------------------------------------------------------------------------
(* Objects and files: the theorems *)

\* At the start there is the file of the value that the main program gave.
LEMMA DataInit == Init => DataInv
<1>. SUFFICES ASSUME Init PROVE DataHolds
  BY DEF DataInv
<1>1. program \in Seq(Directions)
  BY ProgramsAssumption DEF Init
<1>2. /\ \A t \in Tasks : pc[t] = "waiting" /\ arg[t] = 0 /\ heap[t] = Fresh
      /\ \A v \in Versions : cache[v] = 0 /\ file[v] = IF v = 0 THEN 0 ELSE Absent
      /\ server.step = "read" /\ comm.cmd = Null /\ fault = "none"
  BY DEF Init, Waiting, Idle
<1>3. /\ Versions \subseteq Nat /\ 0 \in Versions
      /\ \A t \in Tasks :
            /\ Source(t) \in Versions /\ Dest(t) \in Versions
            /\ Writer(t) => Dest(t) = Source(t) + 1
            /\ Source(t) = 0 \/ \E u \in Tasks : Writer(u) /\ Dest(u) = Source(t)
  BY <1>1, VersionFacts
<1>4. Objects(pc, cache, arg, heap, server, oData)
  BY <1>2, <1>3 DEF Objects, PublicObjects, CachedObjects, Arguments, ServedObject,
                    FetchedObjects, Public, Holding, Private
<1>5. FinalFiles(pc, file, server)
  BY <1>2 DEF FinalFiles
<1>6. EarlyFiles(pc, file)
  <2>1. ASSUME NEW t \in Tasks, Writer(t) PROVE Dest(t) # 0
    <3>1. Source(t) \in Nat /\ Dest(t) = Source(t) + 1
      BY <1>3, <2>1
    <3>. QED  BY <3>1
  <2>. QED  BY <1>2, <1>3, <2>1 DEF EarlyFiles
<1>7. Sources(pc, cache, file, preserve, got)
  <2>1. \A t \in Tasks : Final(pc, Source(t)) => Source(t) = 0
    BY <1>2, <1>3 DEF Final
  <2>. QED  BY <1>2, <1>3, <2>1 DEF Sources
<1>8. Serialized(pc, cache, file, server, comm.cmd)
  <2>1. \A v \in Versions : <<"serialize", v>> \in {"remove", "serialize"} \X Nat
    BY <1>3
  <2>. QED  BY <1>2, <2>1, NullAssumption DEF Serialized
<1>. QED  BY <1>2, <1>4, <1>5, <1>6, <1>7, <1>8 DEF DataHolds, Files, NoFault

\* The assumptions on the timing are those of the whole behaviour.
LEMMA SameGiven ==
    ASSUME [Next]_vars
    PROVE  env' = env
<1>1. CASE CommStep
  <2>1. ASSUME NEW t \in Tasks, ReceivedNewTask(t) \/ SendData(t)
        PROVE  env' = env
    BY <2>1, Zenon DEF ReceivedNewTask, SendData, given
  <2>2. ASSUME RemoveObsolete \/ AskForFile \/ OpenDataPipe \/ WriteCommand \/ WriteFails
               \/ CloseDataPipe \/ ReadReply
        PROVE  env' = env
    BY <2>2, Zenon DEF RemoveObsolete, AskForFile, OpenDataPipe, WriteCommand, WriteFails,
                       CloseDataPipe, ReadReply, given
  <2>. QED  BY <1>1, <2>1, <2>2, Zenon DEF CommStep
<1>2. CASE ServerStep
  BY <1>2, Zenon DEF ServerStep, AwaitCommand, ReadCommand, CloseCommand, FindRemoved,
        EraseRemoved, DeleteRemoved, TruncateFile, FindSerialized, TakeSerialized,
        WriteSerialized, given
<1>3. CASE RemoteStep
  BY <1>3, Zenon DEF RemoteStep, RequestData, TransferFile, RemoteEnd, given
<1>4. ASSUME NEW t \in Tasks, ComputeStep(t)
      PROVE  env' = env
  BY <1>4, Zenon DEF ComputeStep, FindArgument, TakeArgument, Deserialize, InsertArgument,
        TruncateSource, FetchSource, WriteSource, RereadSource, PeekArgument,
        RenameArgument, RemoveDestFile, Call, given
<1>5. CASE DeleteObject \/ UNCHANGED vars
  BY <1>5 DEF DeleteObject, vars, given
<1>. QED  BY <1>1, <1>2, <1>3, <1>4, <1>5 DEF Next, ThreadStep

\* The data invariant is inductive, with the base invariant.
LEMMA DataStep == BaseInv /\ DataInv /\ [Next]_vars => DataInv'
<1>. SUFFICES ASSUME BaseInv, DataInv, [Next]_vars, "exclusive_rewrite" \in env' PROVE DataHolds'
  BY DEF DataInv
<1>1. env' = env
  BY SameGiven
<1>2. DataHolds /\ "exclusive_rewrite" \in env
  BY <1>1 DEF DataInv
<1>3. CASE CommStep
  BY <1>2, <1>3, ReceivedData, PipeData, RemoveData, AskData, SendsData, ReplyData, Zenon
  DEF CommStep
<1>4. CASE ServerStep
  BY <1>2, <1>4, ServerData, EraseData, DeleteData, TakeData, WriteData, Zenon DEF ServerStep
<1>5. CASE RemoteStep
  BY <1>2, <1>5, RemoteData, Zenon DEF RemoteStep
<1>6. CASE \E t \in Tasks : ComputeStep(t)
  BY <1>2, <1>6, FindData, PointData, ReadData, InsertData, RewriteData, FetchData,
     RenameData, RemoveDestData, CallData, Zenon DEF ComputeStep
<1>7. CASE DeleteObject \/ UNCHANGED vars
  <2>1. UNCHANGED <<program, pc, preserve, arg, oData, heap, cache, server, file, comm, got,
                      fault>>
    BY <1>7 DEF DeleteObject, vars, taskVars, cVars, given
  <2>2. /\ Objects(pc, cache, arg, heap, server, oData) /\ fault = "none"
        /\ Files(pc, cache, file, preserve, got, server, comm.cmd)
    BY <1>2 DEF DataHolds, NoFault
  <2>. QED  BY <2>1, <2>2, DataNext
<1>. QED  BY <1>3, <1>4, <1>5, <1>6, <1>7 DEF Next, ThreadStep

\* The two invariants, in every state.
LEMMA DataAlways == Spec => [](BaseInv /\ DataInv)
BY BaseInit, BaseStep, DataInit, DataStep, PTL DEF Spec

\* When the file of a source is rewritten exclusively, the C process is never aborted by its
\* cache: no thread deserializes a broken file or follows a pointer to a deleted object
\* (the argument treatment of c-backend.c, removeData and serializeData), whatever the
\* program, the number of compute threads and the order of their steps.
THEOREM NeverFaults == Spec => []("exclusive_rewrite" \in env => NoFault)
<1>1. DataInv => ("exclusive_rewrite" \in env => NoFault)
  BY DEF DataInv, DataHolds
<1>. QED  BY <1>1, DataAlways, PTL

\* Under the same assumption, the code of the user sees the version that the access of its
\* task registered until it returns, and another node receives the version it asked for.
THEOREM ArgumentsAreRight == Spec => []("exclusive_rewrite" \in env => RightArguments)
<1>1. BaseInv /\ DataInv => ("exclusive_rewrite" \in env => RightArguments)
  <2>. SUFFICES ASSUME BaseInv, DataHolds, NEW t \in Tasks
                PROVE  /\ pc[t] = "call" /\ program[t] # "out" => Content(arg[t]) = Source(t)
                       /\ Remote(t) /\ pc[t] \in {"received", "ended"} => got[t] = Source(t)
    BY DEF DataInv, RightArguments
  <2>1. PublicObjects(pc, cache, arg, server) /\ Arguments(pc, cache, arg, heap)
        /\ Sources(pc, cache, file, preserve, got)
    BY DEF DataHolds, Objects, Files
  <2>2. pc[t] = "call" /\ program[t] # "out" => Content(arg[t]) = Source(t)
    BY <2>1 DEF PublicObjects, Arguments, Holding, Content
  <2>3. Remote(t) /\ pc[t] \in {"received", "ended"} => got[t] = Source(t)
    BY <2>1 DEF Sources, Remote
  <2>. QED  BY <2>2, <2>3
<1>. QED  BY <1>1, DataAlways, PTL

\* Under the same assumption, a version that was produced has a copy in the cache or in a
\* file for every reader whose job has not reached this worker, and for every transfer that
\* has not started.
THEOREM VersionsAreKept == Spec => []("exclusive_rewrite" \in env => VersionKept)
<1>1. BaseInv /\ DataInv => ("exclusive_rewrite" \in env => VersionKept)
  <2>. SUFFICES ASSUME BaseInv, DataHolds, NEW t \in Tasks,
                       pc[t] \in {"waiting", "requested"}, program[t] # "out", Ready(t)
                PROVE  HasCopy(Source(t))
    BY DEF DataInv, VersionKept
  <2>1. CachedObjects(pc, cache, arg, heap) /\ Sources(pc, cache, file, preserve, got)
    BY DEF DataHolds, Objects, Files
  <2>2. Final(pc, Source(t)) /\ Source(t) \in Versions
    BY ReadyMeans, FinalMeans, DataTypes
  <2>3. cache[Source(t)] # 0 \/ file[Source(t)] = Source(t)
    BY <2>1, <2>2 DEF Sources
  <2>. QED  BY <2>1, <2>2, <2>3 DEF CachedObjects, HasCopy, InCache
<1>. QED  BY <1>1, DataAlways, PTL
=============================================================================
