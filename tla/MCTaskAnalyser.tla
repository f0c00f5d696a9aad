--------------------------- MODULE MCTaskAnalyser ---------------------------
(* Instances of TaskAnalyser for TLC. *)
EXTENDS TaskAnalyserRefinement, TLC

CONSTANTS h1, h2, f, o

\* Each thread has its own application.
OwnApp == [h \in Threads |-> h]

\* A task that writes the object, one that reads it and updates the file, and one
\* that updates the file.
Sig(fm, om) == f :> fm @@ o :> om
SomeSignatures == {Sig("none", "W"), Sig("RW", "R"), Sig("RW", "none")}

\* The tasks of both threads update the file f, that no main program accesses; the
\* object o belongs to the first thread.
FileShared == [h \in Threads |-> IF h = h1 THEN {f, o} ELSE {f}]
OwnObject  == [h \in Threads |-> IF h = h1 THEN {o} ELSE {}]

\* The file and the object belong to the first thread.
AllOfFirst == [h \in Threads |-> IF h = h1 THEN {f, o} ELSE {}]

NoData == [h \in Threads |-> {}]

\* Ordinary tasks, and tasks replicated on two workers.
Single == [t \in Tasks |-> 1]
Double == [t \in Tasks |-> 2]

\* No thread accesses an object of the tasks of another one.
ASSUME ObjectsArePrivate == PrivateObjects
=============================================================================
