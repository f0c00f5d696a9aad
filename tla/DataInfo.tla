------------------------------ MODULE DataInfo ------------------------------
(***************************************************************************)
(* The versions of one file in the Access Processor of the COMPSs runtime: *)
(* DataInfo and DataVersion (reference counts of the versions), and the    *)
(* parts of DataInfoProvider and TaskAnalyser.endTask that drive them.     *)
(* Every action is one request handled by the Access Processor thread,     *)
(* which handles them one at a time; the interleaving of task parameters,  *)
(* of the main program and of the result transfers of several applications *)
(* is the order in which their requests reach its queue.                   *)
(*                                                                         *)
(* The Java object is the record di and its methods are operators from     *)
(* such a record to the next one, so that a handler that calls several     *)
(* methods is their composition. di.exc says that the handler was left by  *)
(* an exception (AccessProcessor.run logs it and goes on): what follows    *)
(* the throwing call in the handler is then not executed.                  *)
(***************************************************************************)
EXTENDS Integers, Sequences, FiniteSets

CONSTANTS
    Params,      \* parameters of tasks that access the file, one access each
    Main,        \* the main program, which opens and closes the file
    Apps,        \* applications that retrieve their result files
    MaxVersion,  \* bound: highest version identifier
    MaxPending,  \* bound: deletion batches deferred by a block
    Rules        \* usage rules that the programs respect, a subset of AllRules

\* exclusive_open: while the main program has the file open, a task may only read it, and
\* only if the main program has registered an access. Otherwise the close ends an access
\* of another version, or one that was never registered.
\* no_read_after_delete: a deleted file is written before it is read again.
\* deferred_delete_is_last: a file that is deleted while a block defers the deletion is neither
\* used nor deleted again.
\* no_delete_of_pending_result: the last writer of a file, when the application has no more
\* tasks to generate, ends before the file is deleted.
AllRules == {"exclusive_open", "no_read_after_delete",
             "deferred_delete_is_last", "no_delete_of_pending_result"}

ASSUME MaxVersionAssumption == MaxVersion \in Nat \ {0}
ASSUME MaxPendingAssumption == MaxPending \in Nat
ASSUME UsersAssumption == IsFiniteSet(Params) /\ Main \notin Params
ASSUME AppsAssumption == IsFiniteSet(Apps)
ASSUME RulesAssumption == Rules \subseteq AllRules

VARIABLES
    di,        \* the DataInfo object
    known,     \* the file is in nameToId: some access was registered
    held,      \* the DataAccessId that each parameter, or the main, holds
    open,      \* mode in which the main has the file open, or "none"
    transfer,  \* version that the result transfer of an application copies, or 0
    deleted,   \* the program deleted the file and has not written it since
    lastWritten  \* version that TaskAnalyser.writers stands for: the task in it writes
                 \* (wrote) this version; 0 for no task

vars == <<di, known, held, open, transfer, deleted, lastWritten>>

Versions == 1 .. MaxVersion
Users    == Params \cup {Main}
Modes    == {"R", "W", "RW"}
Reads(m)  == m \in {"R", "RW"}
Writes(m) == m \in {"W", "RW"}

\* A DataAccessId: the versions it reads and writes, 0 for none.
Access   == [r : 0 .. MaxVersion, w : 0 .. MaxVersion]
NoAccess == [r |-> 0, w |-> 0]

-----------------------------------------------------------------------------
(* DataVersion and DataInfo *)

NewDataInfo ==
    [readers  |-> [v \in Versions |-> 0],
     writters |-> [v \in Versions |-> 0],
     toDelete |-> [v \in Versions |-> FALSE],
     live     |-> {1},     \* the keys of DataInfo.versions, registered in Comm
     current  |-> 1,
     blocks   |-> 0,       \* deletionBlocks
     pending  |-> << >>,   \* pendingDeletions: one set of versions per addAll
     exc      |-> FALSE]

Idle(d, v) == d.readers[v] = 0 /\ d.writters[v] = 0

\* Mutants: a version that is still being written is dropped; a version is dropped
\* as soon as it is idle, deleted or not.
DropIfUnread(d, v) ==
    IF d.toDelete[v] /\ d.readers[v] = 0 THEN [d EXCEPT !.live = @ \ {v}] ELSE d
DropIfIdle(d, v) ==
    IF Idle(d, v) THEN [d EXCEPT !.live = @ \ {v}] ELSE d

\* DataVersion.checkDeletion on a live version, with the removal its callers do.
DropIfDeletable(d, v) ==
    IF d.toDelete[v] /\ Idle(d, v) THEN [d EXCEPT !.live = @ \ {v}] ELSE d

WillBeRead(d) == [d EXCEPT !.readers[d.current] = @ + 1]

WillBeWritten(d) ==
    [d EXCEPT !.current = d.current + 1,
              !.live = @ \cup {d.current + 1},
              !.writters[d.current + 1] = 1]

\* versions.get(v) is null, and dereferenced, when v is no longer live.
VersionHasBeenRead(d, v) ==
    IF v \in d.live
    THEN DropIfDeletable([d EXCEPT !.readers[v] = @ - 1], v)
    ELSE [d EXCEPT !.exc = TRUE]

\* Mutant: the end of a write does not check the deletion.
WrittenWithoutDrop(d, v) ==
    IF v \in d.live
    THEN [d EXCEPT !.writters[v] = @ - 1]
    ELSE [d EXCEPT !.exc = TRUE]

VersionHasBeenWritten(d, v) ==
    IF v \in d.live
    THEN DropIfDeletable([d EXCEPT !.writters[v] = @ - 1], v)
    ELSE [d EXCEPT !.exc = TRUE]

BlockDeletions(d) == [d EXCEPT !.blocks = @ + 1]

Delete(d) ==
    IF d.blocks > 0
    THEN [d EXCEPT !.pending = Append(@, d.live)]
    ELSE [d EXCEPT !.toDelete = [v \in Versions |-> @[v] \/ v \in d.live],
                   !.live = {v \in @ : ~ Idle(d, v)}]

\* The list pendingDeletions: batches in the order of the deletions, and the
\* versions of a batch in ascending order.
PendingItems(d) == {x \in (1 .. Len(d.pending)) \X Versions : x[2] \in d.pending[x[1]]}
Before(x, y) == x[1] < y[1] \/ (x[1] = y[1] /\ x[2] < y[2])

\* Comm.removeData dereferences null when the version was removed before: in an
\* earlier deletion, or by an earlier entry of this very list.
RemovedTwice(d, x) ==
    /\ Idle(d, x[2])
    /\ \/ x[2] \notin d.live
       \/ \E y \in PendingItems(d) : Before(y, x) /\ y[2] = x[2]

\* The loop over the list stops at the first entry that throws; the list itself
\* is never cleared.
ReachedItems(d) ==
    {x \in PendingItems(d) :
        \A y \in PendingItems(d) : Before(y, x) => ~ RemovedTwice(d, y)}

DeletePending(d) ==
    LET reached == {x[2] : x \in ReachedItems(d)}
    IN  [d EXCEPT !.toDelete = [v \in Versions |-> @[v] \/ v \in reached],
                  !.live = {v \in @ : ~ (v \in reached /\ Idle(d, v))},
                  !.exc = \E x \in PendingItems(d) : RemovedTwice(d, x)]

UnblockDeletions(d) ==
    LET e == [d EXCEPT !.blocks = @ - 1]
    IN  IF e.blocks = 0 THEN DeletePending(e) ELSE e

-----------------------------------------------------------------------------
(* DataInfoProvider *)

WillAccess(d, m) ==
    LET e == IF Reads(m) THEN WillBeRead(d) ELSE d
    IN  IF Writes(m) THEN WillBeWritten(e) ELSE e

\* Mutant: the identifier is made after the access has created its version.
AccessIdAfter(d, m) ==
    [r |-> IF Reads(m) THEN d.current ELSE 0,
     w |-> IF Writes(m) THEN d.current + 2 ELSE 0]

AccessId(d, m) ==
    [r |-> IF Reads(m) THEN d.current ELSE 0,
     w |-> IF Writes(m) THEN d.current + 1 ELSE 0]

\* Mutant: an access in mode RW is ended on the version that it created only.
GetAccessCurrent(d, m) ==
    [r |-> IF Reads(m) THEN d.current ELSE 0, w |-> IF Writes(m) THEN d.current ELSE 0]

\* The access that finishFileAccess assumes the main program registered: it is
\* computed from the version that is current when the file is closed.
GetAccess(d, m) ==
    CASE m = "R"  -> [r |-> d.current, w |-> 0]
      [] m = "W"  -> [r |-> 0, w |-> d.current]
      [] m = "RW" -> IF d.current - 1 \in d.live
                     THEN [r |-> d.current - 1, w |-> d.current]
                     ELSE NoAccess

DataHasBeenAccessed(d, acc) ==
    LET e == IF acc.r = 0 THEN d ELSE VersionHasBeenRead(d, acc.r)
    IN  IF e.exc \/ acc.w = 0 THEN e ELSE VersionHasBeenWritten(e, acc.w)

\* blockDataAndGetResultFile blocks the file unless its current version is to be
\* deleted, and then deletes it (again) instead.
Retrievable(d) == ~ d.toDelete[d.current]
BlockDataAndGetResultFile(d) ==
    IF Retrievable(d) THEN BlockDeletions(d) ELSE Delete(d)

\* The last version that Comm still knows, the one that is transferred.
LastAvailable(d) == {v \in d.live : v <= d.current /\ \A u \in d.live : u <= v \/ u > d.current}

\* TaskAnalyser.checkResultFileTransfer: the unblock is unconditional.
CheckResultFileTransfer(d) == UnblockDeletions(BlockDataAndGetResultFile(d))

-----------------------------------------------------------------------------
\* The object as the next request finds it: no exception is in flight.
DI == [di EXCEPT !.exc = FALSE]

Respects(rule, cond) == rule \in Rules => cond

Init ==
    /\ di = NewDataInfo
    /\ known = FALSE
    /\ held = [u \in Users |-> NoAccess]
    /\ open = "none"
    /\ transfer = [a \in Apps |-> 0]
    /\ deleted = FALSE
    /\ lastWritten = 0

RegisterAccess(u, m) ==
    /\ Writes(m) => di.current < MaxVersion
    /\ Respects("no_read_after_delete", Reads(m) => ~ deleted)
    /\ Respects("deferred_delete_is_last", di.pending = << >>)
    /\ di' = WillAccess(DI, m)
    /\ held' = [held EXCEPT ![u] = AccessId(di, m)]
    /\ known' = TRUE
    /\ deleted' = (deleted /\ ~ Writes(m))

\* TaskAnalyser.processTask registers the access of a parameter, and registerOutputValues
\* the task as the last writer.
ProcessParam(p, m) ==
    /\ held[p] = NoAccess
    /\ Respects("exclusive_open", open = "none" \/ (m = "R" /\ held[Main] # NoAccess))
    /\ RegisterAccess(p, m)
    /\ lastWritten' = IF Writes(m) THEN di.current + 1 ELSE lastWritten
    /\ UNCHANGED <<open, transfer>>

\* TaskAnalyser.endTask: the access has been done and, when the application has
\* no more tasks to generate and this task is the last writer, the result is fetched. The
\* file is unblocked as soon as the copy is ordered, so that nothing protects the copy
\* while it runs, and it is not in transfer.
EndTask(p, noMoreTasks) ==
    LET acc == held[p]
        d   == DataHasBeenAccessed(DI, acc)
    IN  /\ acc # NoAccess
        /\ noMoreTasks =>
              /\ acc.w # 0 /\ acc.w = lastWritten
              /\ Respects("no_delete_of_pending_result", Retrievable(di))
        /\ di' = IF noMoreTasks /\ ~ d.exc
                 THEN [CheckResultFileTransfer(d) EXCEPT !.exc = FALSE] \* caught
                 ELSE d
        /\ held' = [held EXCEPT ![p] = NoAccess]
        /\ UNCHANGED <<known, open, transfer, deleted, lastWritten>>

\* AccessProcessor.mainAccessToFile: a file that no task has accessed is not
\* registered, the main uses it in place. If it waits for the last writer, it does so in
\* mode R whatever it opens the file for, and findWaitedTask leaves writers alone.
OpenFile(m) ==
    /\ open = "none"
    /\ open' = m
    /\ IF known
       THEN RegisterAccess(Main, m)
       ELSE di' = DI /\ UNCHANGED <<held, known, deleted>>
    /\ UNCHANGED <<transfer, lastWritten>>

CloseFile ==
    /\ open # "none"
    /\ di' = IF known
             THEN DataHasBeenAccessed(DI, GetAccess(di, open))
             ELSE DI
    /\ held' = [held EXCEPT ![Main] = NoAccess]
    /\ open' = "none"
    /\ UNCHANGED <<known, transfer, deleted, lastWritten>>

\* DeleteFileRequest on a file that tasks have accessed.
DeleteFile ==
    /\ known
    /\ Len(di.pending) < MaxPending
    /\ Respects("deferred_delete_is_last",
                di.blocks > 0 => ~ deleted /\ \A v \in di.live : ~ di.toDelete[v])
    /\ di' = Delete(DI)
    /\ deleted' = TRUE
    /\ UNCHANGED <<known, held, open, transfer, lastWritten>>

\* GetResultFilesRequest of an application that wrote the file.
GetResultFile(a) ==
    /\ known
    /\ transfer[a] = 0
    /\ di' = BlockDataAndGetResultFile(DI)
    /\ IF Retrievable(di)
       THEN \E v \in LastAvailable(di) : transfer' = [transfer EXCEPT ![a] = v]
       ELSE UNCHANGED transfer
    /\ UNCHANGED <<known, held, open, deleted, lastWritten>>

\* The transfer has ended and UnblockResultFilesRequest is handled.
UnblockResultFile(a) ==
    /\ transfer[a] # 0
    /\ di' = UnblockDeletions(DI)
    /\ transfer' = [transfer EXCEPT ![a] = 0]
    /\ UNCHANGED <<known, held, open, deleted, lastWritten>>

Next ==
    \/ \E p \in Params, m \in Modes : ProcessParam(p, m)
    \/ \E p \in Params, b \in BOOLEAN : EndTask(p, b)
    \/ \E m \in Modes : OpenFile(m)
    \/ CloseFile
    \/ DeleteFile
    \/ \E a \in Apps : GetResultFile(a)
    \/ \E a \in Apps : UnblockResultFile(a)

Spec == Init /\ [][Next]_vars

-----------------------------------------------------------------------------
(* Properties *)

\* The types of the DataInfo object and of what its users hold. The versions stay
\* below the bound: an access identifier never names a version willBeWritten has not
\* created.
TypeOK ==
    /\ di \in [readers : [Versions -> Int], writters : [Versions -> Int],
               toDelete : [Versions -> BOOLEAN], live : SUBSET Versions,
               current : Versions, blocks : Int,
               pending : Seq(SUBSET Versions), exc : BOOLEAN]
    /\ known \in BOOLEAN
    /\ held \in [Users -> Access]
    /\ open \in Modes \cup {"none"}
    /\ transfer \in [Apps -> 0 .. MaxVersion]
    /\ deleted \in BOOLEAN
    /\ lastWritten \in 0 .. MaxVersion

Readers(v)  == {u \in Users : held[u].r = v}
Writters(v) == {u \in Users : held[u].w = v}

\* The reference counts of DataVersion are the accesses that are registered and
\* not yet ended: every end is charged to the version that was accessed.
CountsExact ==
    \A v \in Versions :
        /\ di.readers[v] = Cardinality(Readers(v))
        /\ di.writters[v] = Cardinality(Writters(v))

\* A version is removed only once it has been generated and read
\* (DataVersion.checkDeletion), and blockDataAndGetResultFile protects the one that is
\* being copied back until the application unblocks the file: as long as an access to it
\* or a transfer is pending it stays in DataInfo.versions and in Comm.
UsedVersionsLive ==
    /\ \A u \in Users : {held[u].r, held[u].w} \ {0} \subseteq di.live
    /\ \A a \in Apps : transfer[a] # 0 => transfer[a] \in di.live

\* No version outlives its deletion: once delete() has marked it, the end of its last
\* access removes it, and a deletion that a block deferred is carried out by the last
\* unblock, whatever the order of marks, blocks and ends.
DeletedVersionsDropped ==
    /\ \A v \in di.live : di.toDelete[v] => ~ Idle(di, v)
    /\ di.blocks = 0 => \A x \in PendingItems(di) : di.toDelete[x[2]]

\* No request of the Access Processor is cut short by a null dereference, and the
\* search of blockDataAndGetResultFile for a version to copy, which walks down the
\* version numbers without a lower limit, always finds one.
HandlersComplete ==
    /\ ~ di.exc
    /\ Retrievable(di) => LastAvailable(di) # {}
=============================================================================
