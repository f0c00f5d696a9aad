---------------------------- MODULE WorkerCache ----------------------------
(***************************************************************************)
(* The object cache of the persistent C worker. The versions of an object  *)
(* live in a map of the C process, shared by its compute threads (the      *)
(* argument treatment that c-backend.c generates for each task) and by its *)
(* main thread, which serves the data commands (removeData, serializeData; *)
(* persistent_worker_c.cc). The Java worker sends these commands through   *)
(* the data pipe, and copies, moves, removes and sends the files of the    *)
(* same directory (NIOWorker, CThreadPool).                                *)
(*                                                                         *)
(* The program is a list of tasks that access one object, in the order in  *)
(* which the main program creates them. Each section between the lock and  *)
(* the unlock of the map is one action, and so is every access to a file.  *)
(* The maps cache and types always change together and are one map here.   *)
(***************************************************************************)
EXTENDS Integers, Sequences, FiniteSets, Fifo

CONSTANTS
    Programs,     \* the programs to consider
    Slots,        \* number of compute threads
    MAX_RETRIES,  \* attempts to write a data command
    Null,
    Environments  \* sets of assumptions on the timing, subsets of AllAssumptions

\* exclusive_rewrite: a file that an inout task rewrites to keep its source is not read or
\*   written by anybody else meanwhile.
\* paced_commands: a data command is sent when the C process is back at the data pipe.
AllAssumptions == {"exclusive_rewrite", "paced_commands"}

\* The direction of the parameter of a task; a remote task runs in another node and gets
\* the object from this one, to read it.
Directions == {"in", "inout", "out", "remote"}

ASSUME ProgramsAssumption == Programs \subseteq Seq(Directions)
ASSUME BoundsAssumption == Slots \in Nat \ {0} /\ MAX_RETRIES \in Nat \ {0}
ASSUME EnvironmentsAssumption == Environments \subseteq SUBSET AllAssumptions
ASSUME NullAssumption == Null \notin {"remove", "serialize"} \X Nat

VARIABLES
    program,   \* the direction of each task, in the order of the main program
    pc,        \* step of each task
    preserve,  \* preserveSourceData of each task, fixed when its job is prepared
    arg,       \* pointer of each task to its argument
    oData,     \* o_data: pointer of a task to the object that it copies through the file
    heap,      \* the object that each task constructs: the version it holds, or a mark
    cache,     \* object of each version in the cache, or 0
    file,      \* version that the file of each version holds, or a mark
    comm,      \* the Java thread that treats the messages
    told,      \* obsolete versions that the master has told this worker
    deleted,   \* the main program has deleted the object
    pipe,      \* the data pipe
    server,    \* the main thread of the C process
    got,       \* what each remote task received
    fault,     \* what aborted the C process, or "none"
    env        \* the assumptions that hold in this behaviour

vars == <<program, pc, preserve, arg, oData, heap, cache, file, comm, told, deleted, pipe,
          server, got, fault, env>>
taskVars == <<pc, preserve, arg, oData>>
javaVars == <<comm, told, deleted, got>>
cVars    == <<heap, cache, server>>
given    == <<program, env>>

\* Marks for the contents of an object or a file.
Fresh   == -1   \* an object as its constructor leaves it
Freed   == -2   \* an object that was deleted
Absent  == -3   \* no file
Partial == -4   \* a file that is empty or half written

Tasks     == 1 .. Len(program)
Remote(t) == program[t] = "remote"
Writer(t) == program[t] \in {"inout", "out"}

\* Version 0 is the value that the main program gave the object.
Source(t)   == Cardinality({u \in 1 .. t - 1 : Writer(u)})
Dest(t)     == IF Writer(t) THEN Source(t) + 1 ELSE Source(t)
Versions    == 0 .. Cardinality({t \in Tasks : Writer(t)})
Reads(t, v) == program[t] # "out" /\ Source(t) = v
Writes(t, v) == Writer(t) /\ Dest(t) = v

-----------------------------------------------------------------------------
(* The master, as this worker sees it *)

Ended(t) == pc[t] = "ended"

\* The data dependencies of a task have been released.
Ready(t) == \A u \in Tasks : program[t] # "out" /\ Writes(u, Source(t)) => Ended(u)

\* DataVersion.readers: the registered reads of a version that have not ended.
Readers(v) == Cardinality({t \in Tasks : Reads(t, v) /\ ~ Ended(t)})

\* A mutant: the reader itself is not discounted from the readers that are left.
PreservesForTwo(t) == program[t] = "in" \/ Readers(Source(t)) > 2

\* isPreserveSourceData, evaluated by NIOJob.addParams: another read of the source is left.
IsPreserveSourceData(t) == program[t] = "in" \/ Readers(Source(t)) > 1

\* A mutant: the accesses that are left are not waited for.
ObsoleteAtOnce == {v \in Versions : deleted}

\* Versions that the master removes: the object is deleted and no access is left.
Obsolete ==
    {v \in Versions :
        deleted /\ \A t \in Tasks : Reads(t, v) \/ Writes(t, v) => Ended(t)}

Idle == [step |-> "idle", task |-> 0, ids |-> {}, cmd |-> Null, retries |-> 0]
Waiting == [step |-> "read", cmd |-> Null, obj |-> 0]

Init ==
    /\ program \in Programs /\ env \in Environments
    /\ pc = [t \in Tasks |-> "waiting"]
    /\ preserve = [t \in Tasks |-> FALSE]
    /\ arg = [t \in Tasks |-> 0] /\ oData = [t \in Tasks |-> 0]
    /\ heap = [t \in Tasks |-> Fresh]
    /\ cache = [v \in Versions |-> 0]
    /\ file = [v \in Versions |-> IF v = 0 THEN 0 ELSE Absent]
    /\ comm = Idle /\ told = {} /\ deleted = FALSE
    /\ pipe = OpenRead(EmptyFifo) /\ server = Waiting
    /\ got = [t \in Tasks |-> Absent]
    /\ fault = "none"

\* The object 0 is the null pointer.
InCache(v) == cache[v] # 0
Goto(t, step) == pc' = [pc EXCEPT ![t] = step]

DeleteObject ==
    /\ ~ deleted /\ deleted' = TRUE
    /\ UNCHANGED <<taskVars, cVars, file, comm, told, pipe, got, fault, given>>

\* Who is using the file of version v, apart from task t.
OthersUse(v, t) ==
    \/ \E u \in Tasks \ {t} : Source(u) = v /\ pc[u] \in {"deserialize", "sending"}
    \/ comm.step # "idle" /\ comm.cmd = <<"serialize", v>>
Rewriting(v) ==
    \E t \in Tasks : Source(t) = v /\ pc[t] \in {"fetch_source", "write_source", "reread"}
Exclusive(cond) == "exclusive_rewrite" \in env => cond

-----------------------------------------------------------------------------
(* The thread of the Java worker that treats the messages *)

\* receivedNewTask, with the versions that became obsolete since the last message.
ReceivedNewTask(t) ==
    /\ comm.step = "idle" /\ ~ Remote(t)
    /\ pc[t] = "waiting" /\ Ready(t)
    /\ preserve' = [preserve EXCEPT ![t] = IsPreserveSourceData(t)]
    /\ comm' = [Idle EXCEPT !.step = "remove", !.task = t, !.ids = Obsolete \ told]
    /\ told' = told \cup Obsolete
    /\ Goto(t, "submitted")
    /\ UNCHANGED <<arg, oData, cVars, file, deleted, pipe, got, fault, given>>

\* removeObsolete: the file, and a remove command for the cache, one version at a time.
RemoveObsolete ==
    /\ comm.step = "remove" /\ comm.ids # {}
    /\ \E v \in comm.ids :
          /\ file' = [file EXCEPT ![v] = Absent]
          /\ comm' = [comm EXCEPT !.step = "open", !.ids = @ \ {v}, !.cmd = <<"remove", v>>,
                                  !.retries = 0]
    /\ UNCHANGED <<taskVars, cVars, told, deleted, pipe, got, fault, given>>

\* askForFile: the file of the source, if there is one, is copied to the file of the
\* target, or moved when the source is not preserved. Then the job goes to the executors.
\* The request to another node is left out: the source was produced or is present here.
AskForFile ==
    /\ comm.step = "remove" /\ comm.ids = {}
    /\ LET t == comm.task
           s == Source(t)
           renamed == program[t] = "inout" /\ file[Dest(t)] = Absent /\ file[s] # Absent
       IN  /\ file' = IF renamed
                      THEN [file EXCEPT ![Dest(t)] = file[s],
                                        ![s] = IF preserve[t] THEN @ ELSE Absent]
                      ELSE file
           /\ Goto(t, "queued")
    /\ comm' = Idle
    /\ UNCHANGED <<preserve, arg, oData, cVars, told, deleted, pipe, got, fault, given>>

\* A task of another node asks for the object.
RequestData(t) ==
    /\ Remote(t) /\ pc[t] = "waiting" /\ Ready(t)
    /\ Goto(t, "requested")
    /\ UNCHANGED <<preserve, arg, oData, cVars, file, javaVars, pipe, fault, given>>

\* sendData: an existing file is sent as it is, otherwise the object is serialized first.
SendData(t) ==
    /\ comm.step = "idle" /\ pc[t] = "requested"
    /\ LET v == Source(t)
       IN  /\ Exclusive(~ Rewriting(v))
           /\ IF file[v] # Absent
              THEN Goto(t, "sending") /\ UNCHANGED comm
              ELSE /\ comm' = [Idle EXCEPT !.step = "open", !.task = t,
                                           !.cmd = <<"serialize", v>>]
                   /\ UNCHANGED pc
    /\ UNCHANGED <<preserve, arg, oData, cVars, file, told, deleted, pipe, got, fault, given>>

\* The content of the file is read when it is sent; then the remote task runs and ends.
TransferFile(t) ==
    /\ pc[t] = "sending"
    /\ got' = [got EXCEPT ![t] = file[Source(t)]]
    /\ Goto(t, "received")
    /\ UNCHANGED <<preserve, arg, oData, cVars, file, comm, told, deleted, pipe, fault, given>>

RemoteEnd(t) ==
    /\ pc[t] = "received"
    /\ Goto(t, "ended")
    /\ UNCHANGED <<preserve, arg, oData, cVars, file, javaVars, pipe, fault, given>>

\* removeExternalData and serializeExternalData: open, write and close the data pipe.
OpenDataPipe ==
    /\ comm.step = "open" /\ CanOpenWrite(pipe)
    /\ "paced_commands" \in env => ~ pipe.met
    /\ pipe' = OpenWrite(pipe, "java")
    /\ comm' = [comm EXCEPT !.step = "write"]
    /\ UNCHANGED <<taskVars, cVars, file, told, deleted, got, fault, given>>

WriteCommand ==
    /\ comm.step = "write" /\ CanWrite(pipe)
    /\ pipe' = Write(pipe, comm.cmd)
    /\ comm' = [comm EXCEPT !.step = "close"]
    /\ UNCHANGED <<taskVars, cVars, file, told, deleted, got, fault, given>>

\* After the last failed attempt a removal is forgotten, and a serialization fails: the
\* connection is closed and the other node asks again.
WriteFails ==
    /\ comm.step = "write" /\ ~ CanWrite(pipe)
    /\ pipe' = CloseWrite(pipe, "java")
    /\ comm' = IF comm.retries + 1 < MAX_RETRIES
               THEN [comm EXCEPT !.step = "open", !.retries = @ + 1]
               ELSE IF comm.cmd[1] = "remove"
               THEN [comm EXCEPT !.step = "remove", !.cmd = Null]
               ELSE Idle
    /\ UNCHANGED <<taskVars, cVars, file, told, deleted, got, fault, given>>

CloseDataPipe ==
    /\ comm.step = "close"
    /\ pipe' = CloseWrite(pipe, "java")
    /\ comm' = IF comm.cmd[1] = "remove" THEN [comm EXCEPT !.step = "remove", !.cmd = Null]
                                         ELSE [comm EXCEPT !.step = "reply"]
    /\ UNCHANGED <<taskVars, cVars, file, told, deleted, got, fault, given>>

\* The answer of serializeData is read and not looked at: the file is sent.
ReadReply ==
    /\ comm.step = "reply" /\ server.step = "reply"
    /\ Goto(comm.task, "sending")
    /\ comm' = Idle
    /\ server' = [server EXCEPT !.step = "open"]
    /\ UNCHANGED <<preserve, arg, oData, heap, cache, file, told, deleted, pipe, got, fault,
                   given>>

-----------------------------------------------------------------------------
(* The main thread of the C process, which serves the data commands *)

Serve(step) == server' = [server EXCEPT !.step = step]

\* readline: open the pipe, take the first line of what is there, and close it.
AwaitCommand ==
    /\ server.step = "open"
    /\ pipe' = OpenRead(pipe) /\ server' = Waiting
    /\ UNCHANGED <<taskVars, heap, cache, file, javaVars, fault, given>>

ReadCommand ==
    /\ server.step = "read" /\ CanRead(pipe)
    /\ pipe' = ReadAll(pipe)
    /\ server' = [server EXCEPT !.step = "close", !.cmd = FirstLine(pipe, Null)]
    /\ UNCHANGED <<taskVars, heap, cache, file, javaVars, fault, given>>

CloseCommand ==
    /\ server.step = "close"
    /\ pipe' = CloseRead(pipe)
    /\ Serve(IF server.cmd = Null THEN "open"
             ELSE IF server.cmd[1] = "remove" THEN "find_removed" ELSE "truncate")
    /\ UNCHANGED <<taskVars, heap, cache, file, javaVars, fault, given>>

\* removeData: find, erase and delete; only the first two are under the lock.
FindRemoved ==
    /\ server.step = "find_removed"
    /\ Serve(IF InCache(server.cmd[2]) THEN "erase" ELSE "open")
    /\ UNCHANGED <<taskVars, heap, cache, file, javaVars, pipe, fault, given>>

\* A mutant: the object is deleted but stays in the cache.
TakeRemoved ==
    /\ server.step = "erase"
    /\ server' = [server EXCEPT !.step = "delete", !.obj = cache[server.cmd[2]]]
    /\ UNCHANGED <<taskVars, heap, cache, file, javaVars, pipe, fault, given>>

EraseRemoved ==
    /\ server.step = "erase"
    /\ server' = [server EXCEPT !.step = "delete", !.obj = cache[server.cmd[2]]]
    /\ cache' = [cache EXCEPT ![server.cmd[2]] = 0]
    /\ UNCHANGED <<taskVars, heap, file, javaVars, pipe, fault, given>>

\* Deleting the null pointer does nothing.
DeleteRemoved ==
    /\ server.step = "delete"
    /\ heap' = [t \in Tasks |-> IF t = server.obj THEN Freed ELSE heap[t]]
    /\ Serve("open")
    /\ UNCHANGED <<taskVars, cache, file, javaVars, pipe, fault, given>>

\* serializeData: the file is truncated before the cache is looked at, and an object that
\* is not there leaves it so; the answer does not tell.
TruncateFile ==
    /\ server.step = "truncate"
    /\ file' = [file EXCEPT ![server.cmd[2]] = Partial]
    /\ Serve("find_serialized")
    /\ UNCHANGED <<taskVars, heap, cache, javaVars, pipe, fault, given>>

FindSerialized ==
    /\ server.step = "find_serialized"
    /\ Serve(IF InCache(server.cmd[2]) THEN "take" ELSE "reply")
    /\ UNCHANGED <<taskVars, heap, cache, file, javaVars, pipe, fault, given>>

TakeSerialized ==
    /\ server.step = "take"
    /\ server' = [server EXCEPT !.step = "write", !.obj = cache[server.cmd[2]]]
    /\ UNCHANGED <<taskVars, heap, cache, file, javaVars, pipe, fault, given>>

\* What a pointer leads to; a null pointer leads to a deleted object.
Content(p) == IF p = 0 THEN Freed ELSE heap[p]

\* A mutant: no answer is written to the data result pipe.
WriteSerializedSilently ==
    /\ server.step = "write"
    /\ file' = [file EXCEPT ![server.cmd[2]] = Content(server.obj)]
    /\ Serve("open")
    /\ UNCHANGED <<taskVars, heap, cache, javaVars, pipe, fault, given>>

WriteSerialized ==
    /\ server.step = "write"
    /\ IF Content(server.obj) = Freed
       THEN fault' = "serialized a deleted object" /\ UNCHANGED <<file, server>>
       ELSE /\ file' = [file EXCEPT ![server.cmd[2]] = Content(server.obj)]
            /\ Serve("reply")
            /\ UNCHANGED fault
    /\ UNCHANGED <<taskVars, heap, cache, javaVars, pipe, given>>

-----------------------------------------------------------------------------
(* The compute threads: the treatment of the argument, and the call of the task *)

Running == {t \in Tasks : pc[t] \notin {"waiting", "submitted", "queued", "requested",
                                        "sending", "received", "ended"}}

\* A mutant: a cached object is changed in place although its source must be preserved.
FindArgumentInPlace(t) ==
    /\ pc[t] = "queued" /\ Cardinality(Running) < Slots
    /\ arg' = [arg EXCEPT ![t] = t]
    /\ Goto(t, IF program[t] = "out" THEN "insert"
               ELSE IF ~ InCache(Source(t)) THEN "deserialize"
               ELSE IF program[t] = "in" THEN "take" ELSE "peek")
    /\ UNCHANGED <<preserve, oData, cVars, file, javaVars, pipe, fault, given>>

\* The search in the cache, under the lock, decides how the argument is obtained.
FindArgument(t) ==
    /\ pc[t] = "queued" /\ Cardinality(Running) < Slots
    /\ arg' = [arg EXCEPT ![t] = t]
    /\ Goto(t, IF program[t] = "out" THEN "insert"
               ELSE IF ~ InCache(Source(t)) THEN "deserialize"
               ELSE IF program[t] = "in" THEN "take"
               ELSE IF preserve[t] THEN "truncate_source" ELSE "peek")
    /\ UNCHANGED <<preserve, oData, cVars, file, javaVars, pipe, fault, given>>

\* in: the cached object itself is the argument.
TakeArgument(t) ==
    /\ pc[t] = "take"
    /\ arg' = [arg EXCEPT ![t] = cache[Source(t)]]
    /\ Goto(t, "call")
    /\ UNCHANGED <<preserve, oData, cVars, file, javaVars, pipe, fault, given>>

\* Deserializing a file that is not there or not complete throws an exception, which
\* nobody catches.
ReadObject(t, v) ==
    IF file[v] \in {Absent, Partial}
    THEN fault' = "deserialized a broken file" /\ UNCHANGED <<pc, heap>>
    ELSE heap' = [heap EXCEPT ![t] = file[v]] /\ Goto(t, "insert") /\ UNCHANGED fault

Deserialize(t) ==
    /\ pc[t] = "deserialize"
    /\ ReadObject(t, Dest(t))
    /\ UNCHANGED <<preserve, arg, oData, cache, server, file, javaVars, pipe, given>>

\* A mutant: the value of the object is put into the cache, not its address.
InsertValue(t) ==
    /\ pc[t] = "insert"
    /\ cache' = [cache EXCEPT ![Dest(t)] = heap[arg[t]]]
    /\ Goto(t, IF program[t] = "in" THEN "call" ELSE "remove_file")
    /\ UNCHANGED <<preserve, arg, oData, heap, server, file, javaVars, pipe, fault, given>>

\* The new object enters the cache as the version that the task produces (or reads).
InsertArgument(t) ==
    /\ pc[t] = "insert"
    /\ cache' = [cache EXCEPT ![Dest(t)] = arg[t]]
    /\ Goto(t, IF program[t] = "in" THEN "call" ELSE "remove_file")
    /\ UNCHANGED <<preserve, arg, oData, heap, server, file, javaVars, pipe, fault, given>>

\* inout that preserves its source: the cached object is copied through its file.
TruncateSource(t) ==
    /\ pc[t] = "truncate_source" /\ Exclusive(~ OthersUse(Source(t), t))
    /\ file' = [file EXCEPT ![Source(t)] = Partial]
    /\ Goto(t, "fetch_source")
    /\ UNCHANGED <<preserve, arg, oData, cVars, javaVars, pipe, fault, given>>

\* The pointer is read under the lock, the object that it leads to is written without it.
FetchSource(t) ==
    /\ pc[t] = "fetch_source"
    /\ oData' = [oData EXCEPT ![t] = cache[Source(t)]]
    /\ Goto(t, "write_source")
    /\ UNCHANGED <<preserve, arg, cVars, file, javaVars, pipe, fault, given>>

WriteSource(t) ==
    /\ pc[t] = "write_source"
    /\ IF Content(oData[t]) = Freed
       THEN fault' = "serialized a deleted object" /\ UNCHANGED <<oData, file, pc>>
       ELSE /\ file' = [file EXCEPT ![Source(t)] = Content(oData[t])]
            /\ oData' = [oData EXCEPT ![t] = 0]
            /\ Goto(t, "reread")
            /\ UNCHANGED fault
    /\ UNCHANGED <<preserve, arg, cVars, javaVars, pipe, given>>

RereadSource(t) ==
    /\ pc[t] = "reread"
    /\ ReadObject(t, Source(t))
    /\ UNCHANGED <<preserve, arg, oData, cache, server, file, javaVars, pipe, given>>

\* inout that does not preserve its source: the object changes its name. The pointer is
\* read without the lock.
PeekArgument(t) ==
    /\ pc[t] = "peek"
    /\ arg' = [arg EXCEPT ![t] = cache[Source(t)]]
    /\ Goto(t, "rename")
    /\ UNCHANGED <<preserve, oData, cVars, file, javaVars, pipe, fault, given>>

RenameArgument(t) ==
    /\ pc[t] = "rename"
    /\ cache' = [cache EXCEPT ![Source(t)] = 0, ![Dest(t)] = arg[t]]
    /\ Goto(t, "remove_file")
    /\ UNCHANGED <<preserve, arg, oData, heap, server, file, javaVars, pipe, fault, given>>

\* The file of the version to be produced is removed: its value will be in the cache.
RemoveDestFile(t) ==
    /\ pc[t] = "remove_file"
    /\ file' = [file EXCEPT ![Dest(t)] = Absent]
    /\ Goto(t, "call")
    /\ UNCHANGED <<preserve, arg, oData, cVars, javaVars, pipe, fault, given>>

\* The method of the user returns; a task that writes has changed the object in place.
Call(t) ==
    /\ pc[t] = "call"
    /\ IF Content(arg[t]) = Freed
       THEN fault' = "used a deleted object" /\ UNCHANGED <<pc, heap>>
       ELSE /\ heap' = IF program[t] = "in" THEN heap ELSE [heap EXCEPT ![arg[t]] = Dest(t)]
            /\ Goto(t, "ended")
            /\ UNCHANGED fault
    /\ UNCHANGED <<preserve, arg, oData, cache, server, file, javaVars, pipe, given>>

-----------------------------------------------------------------------------
ComputeStep(t) ==
    \/ FindArgument(t) \/ TakeArgument(t) \/ Deserialize(t) \/ InsertArgument(t)
    \/ TruncateSource(t) \/ FetchSource(t) \/ WriteSource(t) \/ RereadSource(t)
    \/ PeekArgument(t) \/ RenameArgument(t) \/ RemoveDestFile(t) \/ Call(t)

CommStep ==
    \/ \E t \in Tasks : ReceivedNewTask(t) \/ SendData(t)
    \/ RemoveObsolete \/ AskForFile
    \/ OpenDataPipe \/ WriteCommand \/ WriteFails \/ CloseDataPipe \/ ReadReply

ServerStep ==
    \/ AwaitCommand \/ ReadCommand \/ CloseCommand
    \/ FindRemoved \/ EraseRemoved \/ DeleteRemoved
    \/ TruncateFile \/ FindSerialized \/ TakeSerialized \/ WriteSerialized

RemoteStep == \E t \in Tasks : RequestData(t) \/ TransferFile(t) \/ RemoteEnd(t)

ThreadStep ==
    /\ fault = "none"
    /\ CommStep \/ ServerStep \/ RemoteStep \/ \E t \in Tasks : ComputeStep(t)

Next == ThreadStep \/ (fault = "none" /\ DeleteObject)

Spec == Init /\ [][Next]_vars

\* Every thread goes on while it is not blocked; that the main program deletes the object
\* is not assumed.
FairSpec == Spec /\ WF_vars(ThreadStep)

-----------------------------------------------------------------------------
(* Properties *)

Contents == Versions \cup {Fresh, Freed, Absent, Partial}

\* The steps of a task, by the direction of its parameter.
RemoteSteps == {"waiting", "requested", "sending", "received", "ended"}
OutSteps    == {"waiting", "submitted", "queued", "insert", "remove_file", "call", "ended"}
InSteps     == {"waiting", "submitted", "queued", "take", "deserialize", "insert", "call",
                "ended"}
InoutSteps  == {"waiting", "submitted", "queued", "deserialize", "insert",
                "truncate_source", "fetch_source", "write_source", "reread", "peek",
                "rename", "remove_file", "call", "ended"}

Steps == RemoteSteps \cup OutSteps \cup InSteps \cup InoutSteps

\* The steps that task t may be at.
StepOf(t, x) ==
    /\ program[t] = "remote" => x \in RemoteSteps
    /\ program[t] = "out" => x \in OutSteps
    /\ program[t] = "in" => x \in InSteps
    /\ program[t] = "inout" => x \in InoutSteps

\* Every variable holds a value of its domain, and a task takes the steps of its direction
\* only.
TypeOK ==
    /\ pc \in [Tasks -> Steps] /\ \A t \in Tasks : StepOf(t, pc[t])
    /\ preserve \in [Tasks -> BOOLEAN] /\ arg \in [Tasks -> {0} \cup Tasks]
    /\ oData \in [Tasks -> {0} \cup Tasks]
    /\ heap \in [Tasks -> Contents] /\ cache \in [Versions -> {0} \cup Tasks]
    /\ file \in [Versions -> Contents] /\ got \in [Tasks -> Contents]
    /\ told \subseteq Versions /\ deleted \in BOOLEAN /\ env \subseteq AllAssumptions

\* The C process is never aborted by its cache: no thread deserializes a file that is
\* missing or half written, and none follows a pointer to an object that removeData has
\* deleted or that an inout task has taken out of the cache.
NoFault == fault = "none"

\* A task that is in the code of the user sees the version that its access registered,
\* until it returns, although the cache gives the same object to several tasks and an
\* inout task changes the object in place (c-backend.c, inout_dir). What another node
\* receives is the version that it asked for, whether the file was there or serializeData
\* wrote it first.
RightArguments ==
    \A t \in Tasks :
        /\ pc[t] = "call" /\ program[t] # "out" => Content(arg[t]) = Source(t)
        /\ Remote(t) /\ pc[t] \in {"received", "ended"} => got[t] = Source(t)

HasCopy(v) == (InCache(v) /\ heap[cache[v]] = v) \/ file[v] = v

\* A version that was produced has a copy, in the cache or in a file, for every reader whose
\* job has not reached this worker and for every transfer that has not started: renaming in
\* the cache, moving files and dropping obsolete data never take the last one. What happens
\* to a version while a reader obtains it is the matter of NoFault and RightArguments.
VersionKept ==
    \A t \in Tasks :
        pc[t] \in {"waiting", "requested"} /\ program[t] # "out" /\ Ready(t)
            => HasCopy(Source(t))

\* The versions that the master has reported as obsolete are gone from the cache and from
\* the directory once the Java worker is idle and the C process is back at the data pipe.
ObsoleteDropped ==
    /\ "paced_commands" \in env
    /\ comm.step = "idle" /\ server.step = "read" /\ pipe.lines = <<>>
    => \A v \in told : ~ InCache(v) /\ file[v] = Absent

\* Every task ends, also those of other nodes: no thread waits for ever for a command, an
\* answer or a slot.
TasksEnd == "paced_commands" \in env => <>(\A t \in Tasks : Ended(t))
=============================================================================
