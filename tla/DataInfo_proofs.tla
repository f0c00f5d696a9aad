-------------------------- MODULE DataInfo_proofs --------------------------
(***************************************************************************)
(* Proofs about DataInfo: type correctness, and, for programs that respect *)
(* the usage rules, that the reference counts of the versions are exact,   *)
(* that a version in use is never dropped, that a deleted one is dropped   *)
(* when its last use ends, and that no handler is cut short.               *)
(*                                                                         *)
(* A handler composes methods of the object, so the invariant is stated of *)
(* an object d and of the accesses h and transfers tr that go with it, and *)
(* one lemma per method says what it preserves: none of them mentions the  *)
(* variables. No usage rule can be left out: without any of them TLC finds *)
(* one of the properties below violated.                                   *)
(***************************************************************************)
EXTENDS DataInfo, FiniteSetTheorems, TLAPS

\* The programs respect the usage rules, all of them.
RulesRespected == AllRules \subseteq Rules

ObjectType ==
    [readers : [Versions -> Int], writters : [Versions -> Int],
     toDelete : [Versions -> BOOLEAN], live : SUBSET Versions,
     current : Versions, blocks : Int,
     pending : Seq(SUBSET Versions), exc : BOOLEAN]
HeldType     == [Users -> Access]
TransferType == [Apps -> 0 .. MaxVersion]

ReadBy(h, v)    == {u \in Users : h[u].r = v}
WrittenBy(h, v) == {u \in Users : h[u].w = v}

\* CountsExact, of an object and of the accesses to it.
Counts(d, h) ==
    \A v \in Versions :
        /\ d.readers[v] = Cardinality(ReadBy(h, v))
        /\ d.writters[v] = Cardinality(WrittenBy(h, v))

\* The versions up to the current one are live or have been deleted, the later ones
\* do not exist; a deleted version is kept only while it is in use.
VersionsOK(d) ==
    /\ \A v \in d.live : v <= d.current /\ (d.toDelete[v] => ~ Idle(d, v))
    /\ \A v \in Versions : v <= d.current => v \in d.live \/ d.toDelete[v]
    /\ \A v \in Versions : v > d.current => ~ d.toDelete[v]

\* An access holds live versions, and writes another version than the one it reads.
HeldOK(d, h) ==
    \A u \in Users :
        /\ h[u].r # 0 => h[u].r \in d.live
        /\ h[u].w # 0 => h[u].w \in d.live /\ h[u].w # h[u].r

ObjectInv(d, h) ==
    /\ d \in ObjectType /\ h \in HeldType
    /\ ~ d.exc
    /\ Counts(d, h) /\ VersionsOK(d) /\ HeldOK(d, h)

Transferring(tr) == {a \in Apps : tr[a] # 0}

\* A deletion that was deferred: it is the last one, it was of the current version too,
\* and it has been done as soon as nobody blocks it.
PendingOK(d, del) ==
    \/ d.pending = << >>
    \/ /\ Len(d.pending) = 1 /\ d.current \in d.pending[1] /\ del
       /\ d.blocks > 0 => d.pending[1] \subseteq d.live /\ \A v \in d.live : ~ d.toDelete[v]
       /\ d.blocks = 0 => \A v \in d.pending[1] : d.toDelete[v]

\* The blocks are the transfers; what is being transferred is live and not deleted.
BlocksOK(d, tr) ==
    /\ tr \in TransferType
    /\ d.blocks = Cardinality(Transferring(tr))
    /\ d.blocks > 0 => ~ d.toDelete[d.current]
    /\ \A a \in Apps : tr[a] # 0 => tr[a] \in d.live /\ ~ d.toDelete[tr[a]]

DeletionInv(d, tr, del) ==
    /\ BlocksOK(d, tr)
    /\ PendingOK(d, del)
    /\ del \in BOOLEAN
    /\ ~ del => ~ d.toDelete[d.current]

\* The access of the main program is the one that finishFileAccess will compute.
MainOK ==
    /\ open \in Modes \cup {"none"} /\ known \in BOOLEAN
    /\ open = "none" \/ ~ known => held[Main] = NoAccess
    /\ open # "none" /\ known =>
          held[Main] = [r |-> IF open = "R" THEN di.current
                              ELSE IF open = "RW" THEN di.current - 1 ELSE 0,
                        w |-> IF open = "R" THEN 0 ELSE di.current]
    /\ open = "RW" /\ known => di.current > 1

DataInv == ObjectInv(di, held) /\ DeletionInv(di, transfer, deleted) /\ MainOK

-----------------------------------------------------------------------------
(* The methods of the object *)

\* Everything but the counts of the readers and of the writers, and the live versions.
SameRest(d, e) ==
    /\ e.toDelete = d.toDelete /\ e.current = d.current
    /\ e.blocks = d.blocks /\ e.pending = d.pending /\ e.exc = d.exc

\* Nothing but the exception and the live versions, of an object whose version v was
\* looked at by DropIfDeletable: it is dropped exactly when it is deleted and idle.
LEMMA DropIfDeletableFields ==
    ASSUME NEW d \in ObjectType, NEW v \in Versions
    PROVE  LET e == DropIfDeletable(d, v)
           IN  /\ e \in ObjectType /\ SameRest(d, e)
               /\ e.readers = d.readers /\ e.writters = d.writters
               /\ e.live = IF d.toDelete[v] /\ Idle(d, v) THEN d.live \ {v} ELSE d.live
<1>1. CASE d.toDelete[v] /\ Idle(d, v)
  BY <1>1 DEF DropIfDeletable, ObjectType, SameRest
<1>2. CASE ~ (d.toDelete[v] /\ Idle(d, v))
  BY <1>2 DEF DropIfDeletable, ObjectType, SameRest
<1>. QED  BY <1>1, <1>2

\* A read is registered on the current version.
LEMMA WillBeReadFields ==
    ASSUME NEW d \in ObjectType
    PROVE  LET e == WillBeRead(d)
           IN  /\ e \in ObjectType /\ SameRest(d, e)
               /\ e.readers = [d.readers EXCEPT ![d.current] = @ + 1]
               /\ e.writters = d.writters /\ e.live = d.live
<1> DEFINE f == [d.readers EXCEPT ![d.current] = @ + 1]
<1>1. f \in [Versions -> Int]
  BY DEF ObjectType
<1>2. WillBeRead(d) = [d EXCEPT !.readers = f]
  BY DEF WillBeRead, ObjectType
<1> HIDE DEF f
<1>3. LET e == WillBeRead(d)
      IN  /\ e \in ObjectType /\ SameRest(d, e)
          /\ e.readers = f /\ e.writters = d.writters /\ e.live = d.live
  BY <1>1, <1>2 DEF ObjectType, SameRest
<1>. QED  BY <1>3 DEF f

\* A write creates the next version, live and with one writer.
LEMMA WillBeWrittenFields ==
    ASSUME NEW d \in ObjectType, d.current < MaxVersion
    PROVE  LET e == WillBeWritten(d)
           IN  /\ e \in ObjectType
               /\ e.current = d.current + 1 /\ e.live = d.live \cup {d.current + 1}
               /\ e.writters = [d.writters EXCEPT ![d.current + 1] = 1]
               /\ e.readers = d.readers /\ e.toDelete = d.toDelete
               /\ e.blocks = d.blocks /\ e.pending = d.pending /\ e.exc = d.exc
<1>1. d.current + 1 \in Versions
  BY MaxVersionAssumption DEF ObjectType, Versions
<1> DEFINE f == [d.writters EXCEPT ![d.current + 1] = 1]
<1>2. f \in [Versions -> Int] /\ d.live \cup {d.current + 1} \in SUBSET Versions
  BY <1>1 DEF ObjectType
<1>3. WillBeWritten(d) = [d EXCEPT !.current = d.current + 1,
                                   !.live = d.live \cup {d.current + 1}, !.writters = f]
  BY DEF WillBeWritten, ObjectType
<1> HIDE DEF f
<1>4. LET e == WillBeWritten(d)
      IN  /\ e \in ObjectType
          /\ e.current = d.current + 1 /\ e.live = d.live \cup {d.current + 1}
          /\ e.writters = f /\ e.readers = d.readers /\ e.toDelete = d.toDelete
          /\ e.blocks = d.blocks /\ e.pending = d.pending /\ e.exc = d.exc
  BY <1>1, <1>2, <1>3 DEF ObjectType
<1>. QED  BY <1>4 DEF f

\* The end of a read of a live version.
LEMMA VersionHasBeenReadFields ==
    ASSUME NEW d \in ObjectType, NEW v \in d.live
    PROVE  LET e == VersionHasBeenRead(d, v)
           IN  /\ e \in ObjectType /\ SameRest(d, e)
               /\ e.readers = [d.readers EXCEPT ![v] = @ - 1] /\ e.writters = d.writters
               /\ e.live = IF d.toDelete[v] /\ d.readers[v] = 1 /\ d.writters[v] = 0
                           THEN d.live \ {v} ELSE d.live
<1> DEFINE c == [d EXCEPT !.readers[v] = @ - 1]
<1>1. v \in Versions
  BY DEF ObjectType
<1>2. /\ c \in ObjectType /\ SameRest(d, c) /\ c.live = d.live
      /\ c.readers = [d.readers EXCEPT ![v] = @ - 1] /\ c.writters = d.writters
  <2> DEFINE f == [d.readers EXCEPT ![v] = @ - 1]
  <2>1. f \in [Versions -> Int]
    BY <1>1 DEF ObjectType
  <2>2. c = [d EXCEPT !.readers = f]
    BY DEF ObjectType
  <2> HIDE DEF f
  <2>3. /\ c \in ObjectType /\ SameRest(d, c) /\ c.live = d.live
        /\ c.readers = f /\ c.writters = d.writters
    BY <2>1, <2>2 DEF ObjectType, SameRest
  <2>. QED  BY <2>3 DEF f
<1>3. Idle(c, v) <=> d.readers[v] = 1 /\ d.writters[v] = 0
  BY <1>1, <1>2 DEF Idle, ObjectType
<1>4. VersionHasBeenRead(d, v) = DropIfDeletable(c, v)
  BY DEF VersionHasBeenRead
<1> HIDE DEF c
<1>. QED  BY <1>1, <1>2, <1>3, <1>4, DropIfDeletableFields DEF SameRest

\* The end of a write of a live version.
LEMMA VersionHasBeenWrittenFields ==
    ASSUME NEW d \in ObjectType, NEW v \in d.live
    PROVE  LET e == VersionHasBeenWritten(d, v)
           IN  /\ e \in ObjectType /\ SameRest(d, e)
               /\ e.writters = [d.writters EXCEPT ![v] = @ - 1] /\ e.readers = d.readers
               /\ e.live = IF d.toDelete[v] /\ d.readers[v] = 0 /\ d.writters[v] = 1
                           THEN d.live \ {v} ELSE d.live
<1> DEFINE c == [d EXCEPT !.writters[v] = @ - 1]
<1>1. v \in Versions
  BY DEF ObjectType
<1>2. /\ c \in ObjectType /\ SameRest(d, c) /\ c.live = d.live
      /\ c.writters = [d.writters EXCEPT ![v] = @ - 1] /\ c.readers = d.readers
  <2> DEFINE f == [d.writters EXCEPT ![v] = @ - 1]
  <2>1. f \in [Versions -> Int]
    BY <1>1 DEF ObjectType
  <2>2. c = [d EXCEPT !.writters = f]
    BY DEF ObjectType
  <2> HIDE DEF f
  <2>3. /\ c \in ObjectType /\ SameRest(d, c) /\ c.live = d.live
        /\ c.writters = f /\ c.readers = d.readers
    BY <2>1, <2>2 DEF ObjectType, SameRest
  <2>. QED  BY <2>3 DEF f
<1>3. Idle(c, v) <=> d.readers[v] = 0 /\ d.writters[v] = 1
  BY <1>1, <1>2 DEF Idle, ObjectType
<1>4. VersionHasBeenWritten(d, v) = DropIfDeletable(c, v)
  BY DEF VersionHasBeenWritten
<1> HIDE DEF c
<1>. QED  BY <1>1, <1>2, <1>3, <1>4, DropIfDeletableFields DEF SameRest

\* A deletion that nobody blocks marks the live versions and drops the idle ones.
LEMMA DeleteFields ==
    ASSUME NEW d \in ObjectType
    PROVE  LET e == Delete(d)
           IN  /\ e \in ObjectType
               /\ e.readers = d.readers /\ e.writters = d.writters
               /\ e.current = d.current /\ e.blocks = d.blocks /\ e.exc = d.exc
               /\ d.blocks > 0 => /\ e.pending = Append(d.pending, d.live)
                                  /\ e.toDelete = d.toDelete /\ e.live = d.live
               /\ ~ (d.blocks > 0) =>
                     /\ e.pending = d.pending
                     /\ e.toDelete = [v \in Versions |-> d.toDelete[v] \/ v \in d.live]
                     /\ e.live = {v \in d.live : ~ Idle(d, v)}
<1>1. CASE d.blocks > 0
  <2>1. d.pending \in Seq(SUBSET Versions) /\ d.live \in SUBSET Versions
    BY DEF ObjectType
  <2>2. Append(d.pending, d.live) \in Seq(SUBSET Versions)
    BY <2>1
  <2>. QED  BY <1>1, <2>2 DEF Delete, ObjectType
<1>2. CASE ~ (d.blocks > 0)
  <2>1. [v \in Versions |-> d.toDelete[v] \/ v \in d.live] \in [Versions -> BOOLEAN]
    BY DEF ObjectType
  <2>2. {v \in d.live : ~ Idle(d, v)} \in SUBSET Versions
    BY DEF ObjectType
  <2>3. Delete(d) = [d EXCEPT !.toDelete = [v \in Versions |-> d.toDelete[v] \/ v \in d.live],
                              !.live = {v \in d.live : ~ Idle(d, v)}]
    BY <1>2 DEF Delete, ObjectType
  <2>. QED  BY <1>2, <2>1, <2>2, <2>3 DEF ObjectType
<1>. QED  BY <1>1, <1>2

\* The versions that deletePending reaches.
Reached(d) == {x[2] : x \in ReachedItems(d)}

\* deletePending marks the versions that it reaches and drops the idle ones.
LEMMA DeletePendingFields ==
    ASSUME NEW d \in ObjectType
    PROVE  LET e == DeletePending(d)
           IN  /\ e \in ObjectType
               /\ e.readers = d.readers /\ e.writters = d.writters
               /\ e.current = d.current /\ e.blocks = d.blocks /\ e.pending = d.pending
               /\ e.toDelete = [v \in Versions |-> d.toDelete[v] \/ v \in Reached(d)]
               /\ e.live = {v \in d.live : ~ (v \in Reached(d) /\ Idle(d, v))}
               /\ e.exc = \E x \in PendingItems(d) : RemovedTwice(d, x)
<1> DEFINE mark == [v \in Versions |-> d.toDelete[v] \/ v \in Reached(d)]
           left == {v \in d.live : ~ (v \in Reached(d) /\ Idle(d, v))}
           twice == \E x \in PendingItems(d) : RemovedTwice(d, x)
<1>1. mark \in [Versions -> BOOLEAN] /\ left \in SUBSET Versions /\ twice \in BOOLEAN
  BY DEF ObjectType
<1>2. DeletePending(d) = [d EXCEPT !.toDelete = mark, !.live = left, !.exc = twice]
  BY DEF DeletePending, Reached, ObjectType
<1> HIDE DEF mark, left, twice
<1>3. LET e == DeletePending(d)
      IN  /\ e \in ObjectType
          /\ e.readers = d.readers /\ e.writters = d.writters
          /\ e.current = d.current /\ e.blocks = d.blocks /\ e.pending = d.pending
          /\ e.toDelete = mark /\ e.live = left /\ e.exc = twice
  BY <1>1, <1>2 DEF ObjectType
<1>. QED  BY <1>3 DEF mark, left, twice

-----------------------------------------------------------------------------
(* The accesses *)

\* Versions are numbered from 1: 0 stands for no version.
LEMMA VersionsPositive == \A v \in Versions : v \in Nat /\ v # 0 /\ v <= MaxVersion
BY MaxVersionAssumption DEF Versions

\* The users of the file are finitely many.
LEMMA UsersFinite == IsFiniteSet(Users)
BY UsersAssumption, FS_AddElement DEF Users

\* An access adds its user to the readers of the version that it reads and to the writers
\* of the version that it writes.
LEMMA CountsOfAccess ==
    ASSUME NEW h \in HeldType, NEW u \in Users, h[u] = NoAccess, NEW acc \in Access,
           NEW v \in Versions
    PROVE  LET g == [h EXCEPT ![u] = acc]
           IN  /\ Cardinality(ReadBy(h, v)) \in Nat /\ Cardinality(WrittenBy(h, v)) \in Nat
               /\ Cardinality(ReadBy(g, v))
                    = Cardinality(ReadBy(h, v)) + (IF acc.r = v THEN 1 ELSE 0)
               /\ Cardinality(WrittenBy(g, v))
                    = Cardinality(WrittenBy(h, v)) + (IF acc.w = v THEN 1 ELSE 0)
<1> DEFINE g == [h EXCEPT ![u] = acc]
<1>1. v # 0 /\ h[u].r = 0 /\ h[u].w = 0 /\ g[u] = acc /\ \A x \in Users \ {u} : g[x] = h[x]
  BY DEF NoAccess, Versions, HeldType
<1>2. IsFiniteSet(ReadBy(h, v)) /\ IsFiniteSet(WrittenBy(h, v))
  BY UsersFinite, FS_Subset DEF ReadBy, WrittenBy
<1>3. Cardinality(ReadBy(h, v)) \in Nat /\ Cardinality(WrittenBy(h, v)) \in Nat
  BY <1>2, FS_CardinalityType
<1>4. u \notin ReadBy(h, v) /\ u \notin WrittenBy(h, v)
  BY <1>1 DEF ReadBy, WrittenBy
<1>5. ReadBy(g, v) = IF acc.r = v THEN ReadBy(h, v) \cup {u} ELSE ReadBy(h, v)
  BY <1>1 DEF ReadBy
<1>6. WrittenBy(g, v) = IF acc.w = v THEN WrittenBy(h, v) \cup {u} ELSE WrittenBy(h, v)
  BY <1>1 DEF WrittenBy
<1> HIDE DEF g
<1>7. Cardinality(ReadBy(g, v)) = Cardinality(ReadBy(h, v)) + (IF acc.r = v THEN 1 ELSE 0)
  <2>1. Cardinality(ReadBy(h, v) \cup {u}) = Cardinality(ReadBy(h, v)) + 1
    BY <1>2, <1>4, FS_AddElement
  <2>. QED  BY <1>3, <1>5, <2>1
<1>8. Cardinality(WrittenBy(g, v))
         = Cardinality(WrittenBy(h, v)) + (IF acc.w = v THEN 1 ELSE 0)
  <2>1. Cardinality(WrittenBy(h, v) \cup {u}) = Cardinality(WrittenBy(h, v)) + 1
    BY <1>2, <1>4, FS_AddElement
  <2>. QED  BY <1>3, <1>6, <2>1
<1>. QED  BY <1>3, <1>7, <1>8 DEF g

\* Nobody reads or writes a version whose counts are zero.
LEMMA IdleIsUnused ==
    ASSUME NEW d, NEW h \in HeldType, Counts(d, h), NEW v \in Versions, Idle(d, v),
           NEW u \in Users
    PROVE  h[u].r # v /\ h[u].w # v
<1>1. IsFiniteSet(ReadBy(h, v)) /\ IsFiniteSet(WrittenBy(h, v))
  BY UsersFinite, FS_Subset DEF ReadBy, WrittenBy
<1>2. Cardinality(ReadBy(h, v)) = 0 /\ Cardinality(WrittenBy(h, v)) = 0
  BY DEF Counts, Idle
<1>3. ReadBy(h, v) = {} /\ WrittenBy(h, v) = {}
  BY <1>1, <1>2, FS_EmptySet
<1>. QED  BY <1>3 DEF ReadBy, WrittenBy

\* What registering an access does to the object.
LEMMA WillAccessFields ==
    ASSUME NEW d \in ObjectType, NEW m \in Modes, Writes(m) => d.current < MaxVersion
    PROVE  LET e   == WillAccess(d, m)
               acc == AccessId(d, m)
           IN  /\ e \in ObjectType /\ acc \in Access
               /\ \A v \in Versions :
                     /\ e.readers[v] = d.readers[v] + (IF acc.r = v THEN 1 ELSE 0)
                     /\ e.writters[v] = IF acc.w = v THEN 1 ELSE d.writters[v]
               /\ e.current = d.current + (IF Writes(m) THEN 1 ELSE 0)
               /\ e.live = IF Writes(m) THEN d.live \cup {d.current + 1} ELSE d.live
               /\ e.toDelete = d.toDelete /\ e.blocks = d.blocks /\ e.pending = d.pending
               /\ e.exc = d.exc
<1> DEFINE acc == AccessId(d, m)
           c == IF Reads(m) THEN WillBeRead(d) ELSE d
<1>1. /\ d.current \in Versions /\ d.current \in Nat /\ d.current # 0
      /\ \A v \in Versions : v \in Nat /\ d.readers[v] \in Int /\ d.writters[v] \in Int
      /\ d.readers \in [Versions -> Int] /\ d.writters \in [Versions -> Int]
  BY VersionsPositive DEF ObjectType
<1>2. acc \in Access
  BY <1>1, MaxVersionAssumption DEF AccessId, Access, Versions
<1>3. /\ acc.r = IF Reads(m) THEN d.current ELSE 0
      /\ acc.w = IF Writes(m) THEN d.current + 1 ELSE 0
  BY DEF AccessId
<1>4. /\ c \in ObjectType /\ SameRest(d, c)
      /\ c.readers = IF Reads(m) THEN [d.readers EXCEPT ![d.current] = @ + 1] ELSE d.readers
      /\ c.writters = d.writters /\ c.live = d.live
  BY WillBeReadFields DEF SameRest
<1>5. WillAccess(d, m) = IF Writes(m) THEN WillBeWritten(c) ELSE c
  BY DEF WillAccess
<1> HIDE DEF c, acc
<1>6. \A v \in Versions : c.readers[v] = d.readers[v] + (IF acc.r = v THEN 1 ELSE 0)
  BY <1>1, <1>3, <1>4, VersionsPositive
<1>7. CASE Writes(m)
  <2>1. c.current = d.current /\ c.current < MaxVersion
    BY <1>4, <1>7 DEF SameRest
  <2>2. LET e == WillBeWritten(c)
        IN  /\ e \in ObjectType
            /\ e.current = c.current + 1 /\ e.live = c.live \cup {c.current + 1}
            /\ e.writters = [c.writters EXCEPT ![c.current + 1] = 1]
            /\ e.readers = c.readers /\ e.toDelete = c.toDelete
            /\ e.blocks = c.blocks /\ e.pending = c.pending /\ e.exc = c.exc
    BY <1>4, <2>1, WillBeWrittenFields
  <2>3. \A v \in Versions : WillBeWritten(c).writters[v]
                               = IF acc.w = v THEN 1 ELSE d.writters[v]
    BY <1>1, <1>3, <1>4, <1>7, <2>1, <2>2
  <2>4. WillAccess(d, m) = WillBeWritten(c)
    BY <1>5, <1>7
  <2>5. LET e == WillBeWritten(c)
        IN  /\ e.current = d.current + 1 /\ e.live = d.live \cup {d.current + 1}
            /\ e.toDelete = d.toDelete /\ e.blocks = d.blocks /\ e.pending = d.pending
            /\ e.exc = d.exc
            /\ \A v \in Versions :
                  /\ e.readers[v] = d.readers[v] + (IF acc.r = v THEN 1 ELSE 0)
                  /\ e.writters[v] = IF acc.w = v THEN 1 ELSE d.writters[v]
    BY <1>4, <1>6, <2>1, <2>2, <2>3 DEF SameRest
  <2>. QED  BY <1>2, <1>7, <2>2, <2>4, <2>5 DEF acc
<1>8. CASE ~ Writes(m)
  <2>1. \A v \in Versions : c.writters[v] = IF acc.w = v THEN 1 ELSE d.writters[v]
    BY <1>1, <1>3, <1>4, <1>8, VersionsPositive
  <2>. QED  BY <1>1, <1>2, <1>4, <1>5, <1>6, <1>8, <2>1 DEF SameRest, acc
<1>. QED  BY <1>7, <1>8

\* Registering an access to a file whose current version is not deleted, or that is only
\* written, preserves the invariant of the object.
LEMMA WillAccessInv ==
    ASSUME NEW d, NEW h, ObjectInv(d, h), NEW u \in Users, h[u] = NoAccess,
           NEW m \in Modes, Writes(m) => d.current < MaxVersion,
           Reads(m) => ~ d.toDelete[d.current]
    PROVE  ObjectInv(WillAccess(d, m), [h EXCEPT ![u] = AccessId(d, m)])
<1> DEFINE e   == WillAccess(d, m)
           acc == AccessId(d, m)
           g   == [h EXCEPT ![u] = acc]
<1>1. /\ d \in ObjectType /\ h \in HeldType /\ ~ d.exc
      /\ Counts(d, h) /\ VersionsOK(d) /\ HeldOK(d, h)
  BY DEF ObjectInv
<1>2. /\ e \in ObjectType /\ acc \in Access
      /\ \A v \in Versions :
            /\ e.readers[v] = d.readers[v] + (IF acc.r = v THEN 1 ELSE 0)
            /\ e.writters[v] = IF acc.w = v THEN 1 ELSE d.writters[v]
      /\ e.current = d.current + (IF Writes(m) THEN 1 ELSE 0)
      /\ e.live = IF Writes(m) THEN d.live \cup {d.current + 1} ELSE d.live
      /\ e.toDelete = d.toDelete /\ e.exc = d.exc
  BY <1>1, WillAccessFields
<1>3. /\ acc.r = IF Reads(m) THEN d.current ELSE 0
      /\ acc.w = IF Writes(m) THEN d.current + 1 ELSE 0
  BY DEF AccessId
<1>4. g \in HeldType /\ g[u] = acc /\ \A x \in Users \ {u} : g[x] = h[x]
  BY <1>1, <1>2 DEF HeldType
<1>5. /\ d.current \in Versions /\ d.current \in Nat /\ d.current # 0 /\ d.live \subseteq Versions
      /\ \A v \in Versions : v \in Nat /\ v # 0
      /\ \A v \in Versions : d.readers[v] \in Int /\ d.writters[v] \in Int
  BY <1>1, VersionsPositive DEF ObjectType
<1>6. \A v \in Versions :
         /\ Cardinality(ReadBy(h, v)) \in Nat /\ Cardinality(WrittenBy(h, v)) \in Nat
         /\ Cardinality(ReadBy(g, v))
              = Cardinality(ReadBy(h, v)) + (IF acc.r = v THEN 1 ELSE 0)
         /\ Cardinality(WrittenBy(g, v))
              = Cardinality(WrittenBy(h, v)) + (IF acc.w = v THEN 1 ELSE 0)
  BY <1>1, <1>2, CountsOfAccess
<1> HIDE DEF e, acc, g
<1>7. ASSUME NEW v \in Versions, v > d.current
      PROVE  d.writters[v] = 0
  <2>1. WrittenBy(h, v) = {}
    BY <1>1, <1>5, <1>7 DEF WrittenBy, HeldOK, VersionsOK
  <2>. QED  BY <1>1, <2>1, FS_EmptySet DEF Counts
<1>8. Counts(e, g)
  <2> SUFFICES ASSUME NEW v \in Versions
               PROVE  /\ e.readers[v] = Cardinality(ReadBy(g, v))
                      /\ e.writters[v] = Cardinality(WrittenBy(g, v))
    BY DEF Counts
  <2>1. e.readers[v] = Cardinality(ReadBy(g, v))
    BY <1>1, <1>2, <1>6 DEF Counts
  <2>2. acc.w = v => d.writters[v] = 0
    BY <1>3, <1>5, <1>7
  <2>3. e.writters[v] = Cardinality(WrittenBy(g, v))
    BY <1>1, <1>2, <1>6, <2>2 DEF Counts
  <2>. QED  BY <2>1, <2>3
<1>9. VersionsOK(e)
  <2>1. ASSUME NEW v \in e.live
        PROVE  v <= e.current /\ (e.toDelete[v] => ~ Idle(e, v))
    <3>1. CASE v \in d.live
      <4>1. v \in Versions /\ v <= d.current /\ (d.toDelete[v] => ~ Idle(d, v))
        BY <1>1, <1>5, <3>1 DEF VersionsOK
      <4>2. v <= e.current
        BY <1>2, <1>5, <4>1
      <4>3. d.readers[v] \in Nat /\ d.writters[v] \in Nat
        BY <1>1, <1>6, <4>1 DEF Counts
      <4>4. Idle(e, v) => Idle(d, v)
        BY <1>2, <4>1, <4>3 DEF Idle
      <4>. QED  BY <1>2, <4>1, <4>2, <4>4
    <3>2. CASE v \notin d.live
      <4>1. Writes(m) /\ v = d.current + 1 /\ e.current = d.current + 1
        BY <1>2, <2>1, <3>2
      <4>2. v \in Versions
        BY <1>2, <2>1 DEF ObjectType
      <4>3. ~ d.toDelete[v]
        BY <1>1, <1>5, <4>1, <4>2 DEF VersionsOK
      <4>. QED  BY <1>2, <1>5, <4>1, <4>3
    <3>. QED  BY <3>1, <3>2
  <2>2. ASSUME NEW v \in Versions, v <= e.current
        PROVE  v \in e.live \/ e.toDelete[v]
    BY <1>1, <1>2, <1>5, <2>2 DEF VersionsOK
  <2>3. ASSUME NEW v \in Versions, v > e.current
        PROVE  ~ e.toDelete[v]
    BY <1>1, <1>2, <1>5, <2>3 DEF VersionsOK
  <2>. QED  BY <2>1, <2>2, <2>3 DEF VersionsOK
<1>10. HeldOK(e, g)
  <2>1. Reads(m) => d.current \in d.live
    BY <1>1, <1>5 DEF VersionsOK
  <2>2. /\ acc.r # 0 => acc.r \in e.live
        /\ acc.w # 0 => acc.w \in e.live /\ acc.w # acc.r
    BY <1>2, <1>3, <1>5, <2>1
  <2>3. d.live \subseteq e.live
    BY <1>2
  <2>. QED  BY <1>1, <1>4, <2>2, <2>3 DEF HeldOK
<1>. QED  BY <1>1, <1>2, <1>4, <1>8, <1>9, <1>10 DEF ObjectInv, e, g, acc

\* What the end of an access to live versions does to the object: it is charged to these
\* versions, and each of them is dropped when it was deleted and this was its last use.
LEMMA DataHasBeenAccessedFields ==
    ASSUME NEW d \in ObjectType, ~ d.exc, NEW acc \in Access,
           acc.r # 0 => acc.r \in d.live,
           acc.w # 0 => acc.w \in d.live /\ acc.w # acc.r
    PROVE  LET e == DataHasBeenAccessed(d, acc)
           IN  /\ e \in ObjectType /\ SameRest(d, e)
               /\ \A v \in Versions :
                     /\ e.readers[v] = d.readers[v] - (IF acc.r = v THEN 1 ELSE 0)
                     /\ e.writters[v] = d.writters[v] - (IF acc.w = v THEN 1 ELSE 0)
               /\ e.live \subseteq d.live
               /\ \A v \in d.live :
                     v \notin e.live <=> v \in {acc.r, acc.w} /\ d.toDelete[v] /\ Idle(e, v)
<1> DEFINE c == IF acc.r = 0 THEN d ELSE VersionHasBeenRead(d, acc.r)
<1>1. /\ d.readers \in [Versions -> Int] /\ d.writters \in [Versions -> Int]
      /\ \A v \in Versions : v # 0 /\ d.readers[v] \in Int /\ d.writters[v] \in Int
      /\ d.live \subseteq Versions
  BY VersionsPositive DEF ObjectType
<1>2. /\ c \in ObjectType /\ SameRest(d, c) /\ c.writters = d.writters
      /\ \A v \in Versions : c.readers[v] = d.readers[v] - (IF acc.r = v THEN 1 ELSE 0)
      /\ c.live = IF acc.r # 0 /\ d.toDelete[acc.r] /\ d.readers[acc.r] = 1
                        /\ d.writters[acc.r] = 0
                  THEN d.live \ {acc.r} ELSE d.live
  <2>1. CASE acc.r = 0
    BY <1>1, <2>1 DEF SameRest
  <2>2. CASE acc.r # 0
    <3>1. c = VersionHasBeenRead(d, acc.r) /\ acc.r \in d.live
      BY <2>2
    <3> HIDE DEF c
    <3>2. /\ c \in ObjectType /\ SameRest(d, c)
          /\ c.readers = [d.readers EXCEPT ![acc.r] = @ - 1] /\ c.writters = d.writters
          /\ c.live = IF d.toDelete[acc.r] /\ d.readers[acc.r] = 1 /\ d.writters[acc.r] = 0
                      THEN d.live \ {acc.r} ELSE d.live
      BY <3>1, VersionHasBeenReadFields
    <3>3. \A v \in Versions : c.readers[v] = d.readers[v] - (IF acc.r = v THEN 1 ELSE 0)
      BY <1>1, <3>1, <3>2
    <3>. QED  BY <2>2, <3>2, <3>3
  <2>. QED  BY <2>1, <2>2
<1>3. DataHasBeenAccessed(d, acc)
        = IF c.exc \/ acc.w = 0 THEN c ELSE VersionHasBeenWritten(c, acc.w)
  BY DEF DataHasBeenAccessed
<1> HIDE DEF c
<1>4. ~ c.exc
  BY <1>2 DEF SameRest
<1>5. CASE acc.w = 0
  <2>1. DataHasBeenAccessed(d, acc) = c
    BY <1>3, <1>4, <1>5
  <2>2. \A v \in Versions : c.writters[v] = d.writters[v] - (IF acc.w = v THEN 1 ELSE 0)
    BY <1>1, <1>2, <1>5
  <2>3. ASSUME NEW v \in d.live
        PROVE  v \notin c.live <=> v \in {acc.r, acc.w} /\ d.toDelete[v] /\ Idle(c, v)
    <3>1. v \in Versions /\ v # 0
      BY <1>1
    <3>2. CASE v = acc.r
      <4>0. c.readers[v] = d.readers[v] - 1 /\ c.writters[v] = d.writters[v]
        BY <1>2, <3>1, <3>2
      <4>1. Idle(c, v) <=> d.readers[v] = 1 /\ d.writters[v] = 0
        BY <1>1, <3>1, <4>0 DEF Idle
      <4>. QED  BY <1>2, <3>1, <3>2, <4>1
    <3>3. CASE v # acc.r
      BY <1>2, <1>5, <3>1, <3>3
    <3>. QED  BY <3>2, <3>3
  <2>4. c.live \subseteq d.live
    BY <1>2
  <2>. QED  BY <1>2, <2>1, <2>2, <2>3, <2>4
<1>6. CASE acc.w # 0
  <2> DEFINE e == VersionHasBeenWritten(c, acc.w)
  <2>1. DataHasBeenAccessed(d, acc) = e
    BY <1>3, <1>4, <1>6
  <2>2. acc.w \in c.live /\ acc.w \in Versions
    BY <1>1, <1>2, <1>6
  <2>3. /\ e \in ObjectType /\ SameRest(c, e)
        /\ e.writters = [c.writters EXCEPT ![acc.w] = @ - 1] /\ e.readers = c.readers
        /\ e.live = IF c.toDelete[acc.w] /\ c.readers[acc.w] = 0 /\ c.writters[acc.w] = 1
                    THEN c.live \ {acc.w} ELSE c.live
    BY <1>2, <2>2, VersionHasBeenWrittenFields
  <2> HIDE DEF e
  <2>4. SameRest(d, e) /\ c.toDelete = d.toDelete
    BY <1>2, <2>3 DEF SameRest
  <2>5. \A v \in Versions :
           /\ e.readers[v] = d.readers[v] - (IF acc.r = v THEN 1 ELSE 0)
           /\ e.writters[v] = d.writters[v] - (IF acc.w = v THEN 1 ELSE 0)
    BY <1>1, <1>2, <2>2, <2>3
  <2>6. ASSUME NEW v \in d.live
        PROVE  v \notin e.live <=> v \in {acc.r, acc.w} /\ d.toDelete[v] /\ Idle(e, v)
    <3>1. v \in Versions /\ v # 0
      BY <1>1
    <3>2. CASE v = acc.r
      <4>1. v # acc.w
        BY <1>6, <3>2
      <4>2. Idle(e, v) <=> d.readers[v] = 1 /\ d.writters[v] = 0
        BY <1>1, <2>5, <3>1, <3>2, <4>1 DEF Idle
      <4>. QED  BY <1>2, <2>3, <3>1, <3>2, <4>1, <4>2
    <3>3. CASE v = acc.w
      <4>1. v # acc.r
        BY <1>6, <3>3
      <4>2. Idle(e, v) <=> c.readers[v] = 0 /\ c.writters[v] = 1
        BY <1>1, <1>2, <2>3, <2>5, <3>1, <3>3 DEF Idle
      <4>. QED  BY <2>2, <2>3, <2>4, <3>1, <3>3, <4>2
    <3>4. CASE v \notin {acc.r, acc.w}
      BY <1>2, <2>3, <3>1, <3>4
    <3>. QED  BY <3>2, <3>3, <3>4
  <2>7. e.live \subseteq d.live
    BY <1>2, <2>3
  <2>. QED  BY <2>1, <2>3, <2>4, <2>5, <2>6, <2>7
<1>. QED  BY <1>5, <1>6

\* The end of the access of a user preserves the invariant of the object.
LEMMA DataHasBeenAccessedInv ==
    ASSUME NEW d, NEW h, ObjectInv(d, h), NEW u \in Users
    PROVE  ObjectInv(DataHasBeenAccessed(d, h[u]), [h EXCEPT ![u] = NoAccess])
<1> DEFINE acc == h[u]
           e   == DataHasBeenAccessed(d, acc)
           g   == [h EXCEPT ![u] = NoAccess]
<1>1. /\ d \in ObjectType /\ h \in HeldType /\ ~ d.exc
      /\ Counts(d, h) /\ VersionsOK(d) /\ HeldOK(d, h)
  BY DEF ObjectInv
<1>2. /\ acc \in Access
      /\ acc.r # 0 => acc.r \in d.live
      /\ acc.w # 0 => acc.w \in d.live /\ acc.w # acc.r
  BY <1>1 DEF HeldType, HeldOK
<1>3. NoAccess \in Access
  BY MaxVersionAssumption DEF Access, NoAccess
<1>4. /\ g \in HeldType /\ g[u] = NoAccess /\ \A x \in Users \ {u} : g[x] = h[x]
      /\ h = [g EXCEPT ![u] = acc]
  BY <1>1, <1>3 DEF HeldType
<1> HIDE DEF acc, g
<1>5. /\ e \in ObjectType /\ SameRest(d, e)
      /\ \A v \in Versions :
            /\ e.readers[v] = d.readers[v] - (IF acc.r = v THEN 1 ELSE 0)
            /\ e.writters[v] = d.writters[v] - (IF acc.w = v THEN 1 ELSE 0)
      /\ e.live \subseteq d.live
      /\ \A v \in d.live :
            v \notin e.live <=> v \in {acc.r, acc.w} /\ d.toDelete[v] /\ Idle(e, v)
  BY <1>1, <1>2, DataHasBeenAccessedFields
<1> HIDE DEF e
<1>6. \A v \in Versions :
         /\ Cardinality(ReadBy(g, v)) \in Nat /\ Cardinality(WrittenBy(g, v)) \in Nat
         /\ Cardinality(ReadBy(h, v))
              = Cardinality(ReadBy(g, v)) + (IF acc.r = v THEN 1 ELSE 0)
         /\ Cardinality(WrittenBy(h, v))
              = Cardinality(WrittenBy(g, v)) + (IF acc.w = v THEN 1 ELSE 0)
  <2> SUFFICES ASSUME NEW v \in Versions
               PROVE  /\ Cardinality(ReadBy(g, v)) \in Nat
                      /\ Cardinality(WrittenBy(g, v)) \in Nat
                      /\ Cardinality(ReadBy(h, v))
                           = Cardinality(ReadBy(g, v)) + (IF acc.r = v THEN 1 ELSE 0)
                      /\ Cardinality(WrittenBy(h, v))
                           = Cardinality(WrittenBy(g, v)) + (IF acc.w = v THEN 1 ELSE 0)
    OBVIOUS
  <2> DEFINE f == [g EXCEPT ![u] = acc]
  <2>1. /\ Cardinality(ReadBy(g, v)) \in Nat /\ Cardinality(WrittenBy(g, v)) \in Nat
        /\ Cardinality(ReadBy(f, v))
             = Cardinality(ReadBy(g, v)) + (IF acc.r = v THEN 1 ELSE 0)
        /\ Cardinality(WrittenBy(f, v))
             = Cardinality(WrittenBy(g, v)) + (IF acc.w = v THEN 1 ELSE 0)
    BY <1>2, <1>4, CountsOfAccess
  <2> HIDE DEF f
  <2>2. h = f
    BY <1>4 DEF f
  <2>. QED  BY <2>1, <2>2
<1>7. Counts(e, g)
  BY <1>1, <1>5, <1>6 DEF Counts
<1>8. d.live \subseteq Versions /\ e.live \subseteq Versions
  BY <1>1, <1>5 DEF ObjectType
<1>9. VersionsOK(e)
  <2>1. ASSUME NEW v \in e.live
        PROVE  v <= e.current /\ (e.toDelete[v] => ~ Idle(e, v))
    <3>1. v \in d.live /\ v \in Versions /\ v <= d.current /\ (d.toDelete[v] => ~ Idle(d, v))
      BY <1>1, <1>5, <1>8 DEF VersionsOK
    <3>2. CASE v \in {acc.r, acc.w}
      BY <1>5, <3>1, <3>2 DEF SameRest
    <3>3. CASE v \notin {acc.r, acc.w}
      <4>1. e.readers[v] = d.readers[v] /\ e.writters[v] = d.writters[v]
        BY <1>1, <1>5, <3>1, <3>3 DEF ObjectType
      <4>. QED  BY <1>5, <3>1, <4>1 DEF SameRest, Idle
    <3>. QED  BY <3>2, <3>3
  <2>2. ASSUME NEW v \in Versions, v <= e.current
        PROVE  v \in e.live \/ e.toDelete[v]
    BY <1>1, <1>5, <2>2 DEF VersionsOK, SameRest
  <2>3. ASSUME NEW v \in Versions, v > e.current
        PROVE  ~ e.toDelete[v]
    BY <1>1, <1>5, <2>3 DEF VersionsOK, SameRest
  <2>. QED  BY <2>1, <2>2, <2>3 DEF VersionsOK
<1>10. HeldOK(e, g)
  <2> SUFFICES ASSUME NEW x \in Users
               PROVE  /\ g[x].r # 0 => g[x].r \in e.live
                      /\ g[x].w # 0 => g[x].w \in e.live /\ g[x].w # g[x].r
    BY DEF HeldOK
  <2>1. CASE x = u
    BY <1>4, <2>1 DEF NoAccess
  <2>2. CASE x # u
    <3>1. /\ g[x].r # 0 => g[x].r \in d.live
          /\ g[x].w # 0 => g[x].w \in d.live /\ g[x].w # g[x].r
      BY <1>1, <1>4, <2>2 DEF HeldOK
    <3>2. \A v \in d.live : Idle(e, v) => g[x].r # v /\ g[x].w # v
      BY <1>4, <1>7, <1>8, IdleIsUnused
    <3>. QED  BY <1>5, <3>1, <3>2
  <2>. QED  BY <2>1, <2>2
<1>11. e.exc = d.exc
  BY <1>5 DEF SameRest
<1>. QED  BY <1>4, <1>5, <1>7, <1>9, <1>10, <1>1, <1>11 DEF ObjectInv, e, g, acc

-----------------------------------------------------------------------------
(* The deletions *)

\* Marking some live versions and dropping those of them that are idle preserves the
\* invariant of the object.
LEMMA DropIdleInv ==
    ASSUME NEW d, NEW h, ObjectInv(d, h), NEW S \in SUBSET d.live, NEW e \in ObjectType,
           e.readers = d.readers, e.writters = d.writters, e.current = d.current, ~ e.exc,
           e.toDelete = [v \in Versions |-> d.toDelete[v] \/ v \in S],
           e.live = {v \in d.live : ~ (v \in S /\ Idle(d, v))}
    PROVE  ObjectInv(e, h)
<1>1. /\ d \in ObjectType /\ h \in HeldType
      /\ Counts(d, h) /\ VersionsOK(d) /\ HeldOK(d, h)
  BY DEF ObjectInv
<1>2. /\ d.live \subseteq Versions /\ d.current \in Nat
      /\ \A v \in Versions : v \in Nat /\ (e.toDelete[v] <=> d.toDelete[v] \/ v \in S)
  BY <1>1, VersionsPositive DEF ObjectType
<1>3. Counts(e, h)
  BY <1>1 DEF Counts
<1>4. \A v : Idle(e, v) <=> Idle(d, v)
  BY DEF Idle
<1>5. VersionsOK(e)
  <2>1. ASSUME NEW v \in e.live
        PROVE  v <= e.current /\ (e.toDelete[v] => ~ Idle(e, v))
    BY <1>1, <1>2, <1>4, <2>1 DEF VersionsOK
  <2>2. ASSUME NEW v \in Versions, v <= e.current
        PROVE  v \in e.live \/ e.toDelete[v]
    BY <1>1, <1>2, <2>2 DEF VersionsOK
  <2>3. ASSUME NEW v \in Versions, v > e.current
        PROVE  ~ e.toDelete[v]
    <3>1. v \notin d.live
      BY <1>1, <1>2, <2>3 DEF VersionsOK
    <3>. QED  BY <1>1, <1>2, <2>3, <3>1 DEF VersionsOK
  <2>. QED  BY <2>1, <2>2, <2>3 DEF VersionsOK
<1>6. HeldOK(e, h)
  <2> SUFFICES ASSUME NEW u \in Users
               PROVE  /\ h[u].r # 0 => h[u].r \in e.live
                      /\ h[u].w # 0 => h[u].w \in e.live /\ h[u].w # h[u].r
    BY DEF HeldOK
  <2>1. \A v \in d.live : Idle(d, v) => h[u].r # v /\ h[u].w # v
    BY <1>1, <1>2, IdleIsUnused
  <2>. QED  BY <1>1, <2>1 DEF HeldOK
<1>. QED  BY <1>1, <1>3, <1>5, <1>6 DEF ObjectInv

\* The invariant of the object does not depend on the blocks and the deferred deletions.
LEMMA SameVersionsInv ==
    ASSUME NEW d, NEW h, ObjectInv(d, h), NEW e \in ObjectType,
           e.readers = d.readers, e.writters = d.writters, e.current = d.current,
           e.exc = d.exc, e.toDelete = d.toDelete, e.live = d.live
    PROVE  ObjectInv(e, h)
<1>1. \A v : Idle(e, v) <=> Idle(d, v)
  BY DEF Idle
<1>. QED  BY <1>1 DEF ObjectInv, Counts, VersionsOK, HeldOK

\* delete() preserves the invariant of the object, blocked or not.
LEMMA DeleteInv ==
    ASSUME NEW d, NEW h, ObjectInv(d, h)
    PROVE  ObjectInv(Delete(d), h)
<1> DEFINE e == Delete(d)
<1>1. d \in ObjectType /\ ~ d.exc
  BY DEF ObjectInv
<1>2. /\ e \in ObjectType
      /\ e.readers = d.readers /\ e.writters = d.writters
      /\ e.current = d.current /\ e.blocks = d.blocks /\ e.exc = d.exc
      /\ d.blocks > 0 => e.toDelete = d.toDelete /\ e.live = d.live
      /\ ~ (d.blocks > 0) => /\ e.toDelete = [v \in Versions |-> d.toDelete[v] \/ v \in d.live]
                             /\ e.live = {v \in d.live : ~ Idle(d, v)}
  BY <1>1, DeleteFields
<1> HIDE DEF e
<1>3. CASE d.blocks > 0
  BY <1>2, <1>3, SameVersionsInv DEF e
<1>4. CASE ~ (d.blocks > 0)
  <2>1. e.live = {v \in d.live : ~ (v \in d.live /\ Idle(d, v))}
    BY <1>2, <1>4
  <2>. QED  BY <1>1, <1>2, <1>4, <2>1, DropIdleInv DEF e
<1>. QED  BY <1>3, <1>4

\* blockDeletions and the count of unblockDeletions change nothing else.
LEMMA BlocksFields ==
    ASSUME NEW d \in ObjectType, NEW n \in Int
    PROVE  LET c == [d EXCEPT !.blocks = n]
           IN  /\ c \in ObjectType /\ c.blocks = n
               /\ c.readers = d.readers /\ c.writters = d.writters /\ c.current = d.current
               /\ c.pending = d.pending /\ c.toDelete = d.toDelete /\ c.live = d.live
               /\ c.exc = d.exc
BY DEF ObjectType

\* The versions that the last unblock has to delete.
Due(d) == IF d.blocks = 1 /\ d.pending # << >> THEN d.pending[1] ELSE {}

\* The last unblock carries out the deferred deletion, all of it and without an exception,
\* and an unblock that is not the last one only counts.
LEMMA UnblockDeletionsFields ==
    ASSUME NEW d \in ObjectType, ~ d.exc, d.blocks > 0, NEW del, PendingOK(d, del)
    PROVE  LET e == UnblockDeletions(d)
           IN  /\ e \in ObjectType /\ ~ e.exc /\ Due(d) \in SUBSET d.live
               /\ e.readers = d.readers /\ e.writters = d.writters
               /\ e.current = d.current /\ e.pending = d.pending
               /\ e.blocks = d.blocks - 1
               /\ e.toDelete = [v \in Versions |-> d.toDelete[v] \/ v \in Due(d)]
               /\ e.live = {v \in d.live : ~ (v \in Due(d) /\ Idle(d, v))}
<1> DEFINE c == [d EXCEPT !.blocks = @ - 1]
<1>1. /\ c \in ObjectType /\ c.blocks = d.blocks - 1
      /\ c.readers = d.readers /\ c.writters = d.writters /\ c.current = d.current
      /\ c.pending = d.pending /\ c.toDelete = d.toDelete /\ c.live = d.live /\ c.exc = d.exc
  <2>1. d.blocks - 1 \in Int
    BY DEF ObjectType
  <2>2. c = [d EXCEPT !.blocks = d.blocks - 1]
    OBVIOUS
  <2>. QED  BY <2>1, <2>2, BlocksFields
<1>2. UnblockDeletions(d) = IF c.blocks = 0 THEN DeletePending(c) ELSE c
  BY DEF UnblockDeletions
<1> HIDE DEF c
<1>3. \A v : Idle(c, v) <=> Idle(d, v)
  BY <1>1 DEF Idle
<1>4. d.blocks \in Int /\ d.toDelete \in [Versions -> BOOLEAN] /\ d.live \subseteq Versions
  BY DEF ObjectType
<1>5. Due(d) \in SUBSET d.live
  BY DEF Due, PendingOK
<1>6. CASE d.blocks = 1
  <2>1. UnblockDeletions(d) = DeletePending(c)
    BY <1>1, <1>2, <1>6
  <2>2. \A x : x \in PendingItems(c) <=>
                 x \in (1 .. Len(d.pending)) \X Versions /\ x[2] \in d.pending[x[1]]
    BY <1>1 DEF PendingItems
  <2>3. Reached(c) = Due(d) /\ ~ \E x \in PendingItems(c) : RemovedTwice(c, x)
    <3>1. CASE d.pending = << >>
      <4>1. PendingItems(c) = {}
        BY <2>2, <3>1
      <4>. QED  BY <3>1, <4>1 DEF Reached, ReachedItems, Due
    <3>2. CASE d.pending # << >>
      <4>1. Len(d.pending) = 1 /\ d.pending[1] \subseteq d.live /\ Due(d) = d.pending[1]
        BY <1>6, <3>2 DEF PendingOK, Due
      <4>2. \A x \in PendingItems(c) : x[1] = 1 /\ x[2] \in Versions /\ x[2] \in d.pending[1]
        BY <2>2, <4>1
      <4>3. ASSUME NEW x \in PendingItems(c)
            PROVE  ~ RemovedTwice(c, x)
        <5>1. x[2] \in c.live
          BY <1>1, <4>1, <4>2
        <5>2. \A y \in PendingItems(c) : Before(y, x) => y[2] # x[2]
          BY <4>2, VersionsPositive DEF Before
        <5>. QED  BY <5>1, <5>2 DEF RemovedTwice
      <4>4. ReachedItems(c) = PendingItems(c)
        BY <4>3 DEF ReachedItems
      <4>5. ASSUME NEW v \in d.pending[1]
            PROVE  v \in Reached(c)
        <5>1. <<1, v>> \in PendingItems(c)
          BY <1>4, <2>2, <4>1
        <5>. QED  BY <4>4, <5>1 DEF Reached
      <4>6. Reached(c) \subseteq d.pending[1]
        BY <4>2, <4>4 DEF Reached
      <4>. QED  BY <4>1, <4>3, <4>5, <4>6
    <3>. QED  BY <3>1, <3>2
  <2>4. LET e == DeletePending(c)
        IN  /\ e \in ObjectType
            /\ e.readers = c.readers /\ e.writters = c.writters
            /\ e.current = c.current /\ e.blocks = c.blocks /\ e.pending = c.pending
            /\ e.toDelete = [v \in Versions |-> c.toDelete[v] \/ v \in Reached(c)]
            /\ e.live = {v \in c.live : ~ (v \in Reached(c) /\ Idle(c, v))}
            /\ e.exc = \E x \in PendingItems(c) : RemovedTwice(c, x)
    BY <1>1, DeletePendingFields
  <2> DEFINE e == DeletePending(c)
  <2> HIDE DEF e
  <2>5. e.live = {v \in d.live : ~ (v \in Due(d) /\ Idle(d, v))}
    BY <1>1, <1>3, <2>3, <2>4 DEF e
  <2>6. e.toDelete = [v \in Versions |-> d.toDelete[v] \/ v \in Due(d)]
    BY <1>1, <2>3, <2>4 DEF e
  <2>7. e \in ObjectType /\ ~ e.exc
    BY <2>3, <2>4 DEF e
  <2>8. /\ e.readers = d.readers /\ e.writters = d.writters /\ e.current = d.current
        /\ e.pending = d.pending /\ e.blocks = d.blocks - 1
    BY <1>1, <2>4 DEF e
  <2>9. UnblockDeletions(d) = e
    BY <2>1 DEF e
  <2>. QED  BY <1>5, <2>5, <2>6, <2>7, <2>8, <2>9
<1>7. CASE d.blocks # 1
  <2>1. UnblockDeletions(d) = c /\ Due(d) = {}
    BY <1>1, <1>2, <1>4, <1>7 DEF Due
  <2>2. d.toDelete = [v \in Versions |-> d.toDelete[v] \/ v \in Due(d)]
    BY <1>4, <2>1
  <2>3. d.live = {v \in d.live : ~ (v \in Due(d) /\ Idle(d, v))}
    BY <2>1
  <2>. QED  BY <1>1, <1>5, <2>1, <2>2, <2>3
<1>. QED  BY <1>6, <1>7

-----------------------------------------------------------------------------
(* Type correctness, which needs no usage rule *)

\* A method that dereferences a dropped version raises an exception and does nothing else.
LEMMA ExceptionType ==
    ASSUME NEW d \in ObjectType, NEW b \in BOOLEAN
    PROVE  [d EXCEPT !.exc = b] \in ObjectType
BY DEF ObjectType

\* The end of any access leaves an object.
LEMMA DataHasBeenAccessedType ==
    ASSUME NEW d \in ObjectType, NEW acc \in Access
    PROVE  DataHasBeenAccessed(d, acc) \in ObjectType
<1>1. ASSUME NEW e \in ObjectType, NEW v
      PROVE  VersionHasBeenRead(e, v) \in ObjectType
  <2>1. CASE v \in e.live
    BY <2>1, VersionHasBeenReadFields
  <2>2. CASE v \notin e.live
    BY <2>2, ExceptionType DEF VersionHasBeenRead
  <2>. QED  BY <2>1, <2>2
<1>2. ASSUME NEW e \in ObjectType, NEW v
      PROVE  VersionHasBeenWritten(e, v) \in ObjectType
  <2>1. CASE v \in e.live
    BY <2>1, VersionHasBeenWrittenFields
  <2>2. CASE v \notin e.live
    BY <2>2, ExceptionType DEF VersionHasBeenWritten
  <2>. QED  BY <2>1, <2>2
<1> DEFINE c == IF acc.r = 0 THEN d ELSE VersionHasBeenRead(d, acc.r)
<1>3. c \in ObjectType
  BY <1>1
<1>4. DataHasBeenAccessed(d, acc)
        = IF c.exc \/ acc.w = 0 THEN c ELSE VersionHasBeenWritten(c, acc.w)
  BY DEF DataHasBeenAccessed
<1> HIDE DEF c
<1>. QED  BY <1>2, <1>3, <1>4

\* Blocking and unblocking leave an object.
LEMMA BlockingType ==
    ASSUME NEW d \in ObjectType
    PROVE  /\ BlockDeletions(d) \in ObjectType
           /\ UnblockDeletions(d) \in ObjectType
           /\ BlockDataAndGetResultFile(d) \in ObjectType
<1>1. d.blocks + 1 \in Int /\ d.blocks - 1 \in Int
  BY DEF ObjectType
<1>2. BlockDeletions(d) \in ObjectType
  BY <1>1, BlocksFields DEF BlockDeletions
<1>3. UnblockDeletions(d) \in ObjectType
  <2> DEFINE c == [d EXCEPT !.blocks = @ - 1]
  <2>1. c \in ObjectType
    BY <1>1, BlocksFields
  <2>2. UnblockDeletions(d) = IF c.blocks = 0 THEN DeletePending(c) ELSE c
    BY DEF UnblockDeletions
  <2> HIDE DEF c
  <2>. QED  BY <2>1, <2>2, DeletePendingFields
<1>4. Delete(d) \in ObjectType
  BY DeleteFields
<1>. QED  BY <1>2, <1>3, <1>4 DEF BlockDataAndGetResultFile

\* TypeOK in terms of the types of this module.
Typed ==
    /\ di \in ObjectType /\ held \in HeldType /\ transfer \in TransferType
    /\ known \in BOOLEAN /\ deleted \in BOOLEAN /\ open \in Modes \cup {"none"}
    /\ lastWritten \in 0 .. MaxVersion

\* The first object has one version, live and idle.
LEMMA NewDataInfoType == NewDataInfo \in ObjectType
<1>1. 1 \in Versions
  BY MaxVersionAssumption DEF Versions
<1>2. << >> \in Seq(SUBSET Versions)
  OBVIOUS
<1>. QED  BY <1>1, <1>2 DEF NewDataInfo, ObjectType

\* Registering an access keeps the types.
LEMMA RegisterAccessType ==
    ASSUME Typed, NEW u \in Users, NEW m \in Modes, RegisterAccess(u, m)
    PROVE  di' \in ObjectType /\ held' \in HeldType /\ known' \in BOOLEAN /\ deleted' \in BOOLEAN
<1>1. di \in ObjectType /\ held \in HeldType /\ deleted \in BOOLEAN
  BY DEF Typed
<1>2. DI \in ObjectType
  BY <1>1, ExceptionType DEF DI
<1>3. DI.current = di.current
  BY <1>1 DEF DI, ObjectType
<1>4. WillAccess(DI, m) \in ObjectType
  BY <1>2, <1>3, WillAccessFields DEF RegisterAccess
<1>5. AccessId(di, m) \in Access
  BY <1>1, WillAccessFields DEF RegisterAccess
<1>. QED  BY <1>1, <1>4, <1>5 DEF RegisterAccess, HeldType

\* Every handler keeps the types.
LEMMA NextTyped ==
    ASSUME Typed, [Next]_vars
    PROVE  Typed'
<1>1. /\ di \in ObjectType /\ held \in HeldType /\ transfer \in TransferType
      /\ known \in BOOLEAN /\ deleted \in BOOLEAN /\ open \in Modes \cup {"none"}
      /\ lastWritten \in 0 .. MaxVersion
  BY DEF Typed
<1>2. DI \in ObjectType /\ NoAccess \in Access
  <2>1. DI \in ObjectType
    BY <1>1, ExceptionType DEF DI
  <2>2. NoAccess \in Access
    BY MaxVersionAssumption DEF Access, NoAccess
  <2>. QED  BY <2>1, <2>2
<1>3. Main \in Users /\ Params \subseteq Users
  BY DEF Users
<1>4. ASSUME NEW p \in Params, NEW m \in Modes, ProcessParam(p, m)
      PROVE  Typed'
  <2>1. di' \in ObjectType /\ held' \in HeldType /\ known' \in BOOLEAN /\ deleted' \in BOOLEAN
    BY <1>3, <1>4, RegisterAccessType DEF ProcessParam
  <2>2. lastWritten' \in 0 .. MaxVersion
    <3>1. Writes(m) => di.current < MaxVersion
      BY <1>4 DEF ProcessParam, RegisterAccess
    <3>2. di.current \in Nat
      BY <1>1, VersionsPositive DEF ObjectType
    <3>. QED  BY <1>1, <1>4, <3>1, <3>2, MaxVersionAssumption DEF ProcessParam
  <2>. QED  BY <1>1, <1>4, <2>1, <2>2 DEF ProcessParam, Typed
<1>5. ASSUME NEW p \in Params, NEW b \in BOOLEAN, EndTask(p, b)
      PROVE  Typed'
  <2> DEFINE d == DataHasBeenAccessed(DI, held[p])
             e == CheckResultFileTransfer(d)
  <2>1. d \in ObjectType
    BY <1>1, <1>2, <1>3, DataHasBeenAccessedType DEF HeldType
  <2>2. e \in ObjectType
    BY <2>1, BlockingType DEF CheckResultFileTransfer
  <2>3. [e EXCEPT !.exc = FALSE] \in ObjectType
    BY <2>2, ExceptionType
  <2>4. di' = IF b /\ ~ d.exc THEN [e EXCEPT !.exc = FALSE] ELSE d
    BY <1>5 DEF EndTask
  <2> HIDE DEF d, e
  <2>5. di' \in ObjectType
    BY <2>1, <2>3, <2>4
  <2>6. held' \in HeldType
    BY <1>1, <1>2, <1>5 DEF EndTask, HeldType
  <2>. QED  BY <1>1, <1>5, <2>5, <2>6 DEF EndTask, Typed
<1>6. ASSUME NEW m \in Modes, OpenFile(m)
      PROVE  Typed'
  <2>1. CASE known
    BY <1>1, <1>3, <1>6, <2>1, RegisterAccessType DEF OpenFile, Typed
  <2>2. CASE ~ known
    BY <1>1, <1>2, <1>6, <2>2 DEF OpenFile, Typed
  <2>. QED  BY <2>1, <2>2
<1>7. CASE CloseFile
  <2>1. GetAccess(di, open) \in Access
    <3>1. open \in Modes /\ di.current \in Versions
      BY <1>1, <1>7 DEF CloseFile, ObjectType
    <3>2. di.current \in 0 .. MaxVersion /\ di.current - 1 \in 0 .. MaxVersion
          /\ 0 \in 0 .. MaxVersion
      BY <3>1, VersionsPositive, MaxVersionAssumption
    <3>3. open = "R" \/ open = "W" \/ open = "RW"
      BY <3>1 DEF Modes
    <3>. QED  BY <3>2, <3>3 DEF GetAccess, Access, NoAccess
  <2>2. di' \in ObjectType
    BY <1>2, <1>7, <2>1, DataHasBeenAccessedType DEF CloseFile
  <2>3. held' \in HeldType
    BY <1>1, <1>2, <1>7 DEF CloseFile, HeldType
  <2>. QED  BY <1>1, <1>7, <2>2, <2>3 DEF CloseFile, Typed
<1>8. CASE DeleteFile
  BY <1>1, <1>2, <1>8, DeleteFields DEF DeleteFile, Typed
<1>9. ASSUME NEW a \in Apps, GetResultFile(a)
      PROVE  Typed'
  <2>1. di' \in ObjectType
    BY <1>2, <1>9, BlockingType DEF GetResultFile
  <2>2. LastAvailable(di) \subseteq 0 .. MaxVersion
    BY <1>1, VersionsPositive, MaxVersionAssumption DEF LastAvailable, ObjectType
  <2>3. transfer' \in TransferType
    BY <1>1, <1>9, <2>2 DEF GetResultFile, TransferType
  <2>. QED  BY <1>1, <1>9, <2>1, <2>3 DEF GetResultFile, Typed
<1>10. ASSUME NEW a \in Apps, UnblockResultFile(a)
       PROVE  Typed'
  <2>1. di' \in ObjectType
    BY <1>2, <1>10, BlockingType DEF UnblockResultFile
  <2>2. transfer' \in TransferType
    BY <1>1, <1>10, MaxVersionAssumption DEF UnblockResultFile, TransferType
  <2>. QED  BY <1>1, <1>10, <2>1, <2>2 DEF UnblockResultFile, Typed
<1>11. CASE UNCHANGED vars
  BY <1>1, <1>11 DEF vars, Typed
<1>. QED  BY <1>4, <1>5, <1>6, <1>7, <1>8, <1>9, <1>10, <1>11 DEF Next

\* The types of DataInfo, of DataVersion and of what the users of a file hold are kept by
\* every request of the Access Processor, whatever the programs do.
THEOREM TypeCorrect == Spec => []TypeOK
<1>1. Init => Typed
  <2> SUFFICES ASSUME Init PROVE Typed
    OBVIOUS
  <2>1. NoAccess \in Access /\ 0 \in 0 .. MaxVersion
    BY MaxVersionAssumption DEF Access, NoAccess
  <2>. QED  BY <2>1, NewDataInfoType DEF Init, Typed, HeldType, TransferType
<1>2. Typed /\ [Next]_vars => Typed'
  BY NextTyped
<1>3. Typed => TypeOK
  BY DEF Typed, TypeOK, ObjectType, HeldType, TransferType
<1>. QED  BY <1>1, <1>2, <1>3, PTL DEF Spec

-----------------------------------------------------------------------------
(* The deletions and the transfers, method by method *)

\* The transfers are finitely many, and none is left when their number is zero.
LEMMA TransfersFinite ==
    ASSUME NEW tr
    PROVE  /\ IsFiniteSet(Transferring(tr)) /\ Cardinality(Transferring(tr)) \in Nat
           /\ Cardinality(Transferring(tr)) = 0 => \A a \in Apps : tr[a] = 0
<1>1. IsFiniteSet(Transferring(tr))
  BY AppsAssumption, FS_Subset DEF Transferring
<1>2. Cardinality(Transferring(tr)) \in Nat
  BY <1>1, FS_CardinalityType
<1>3. Cardinality(Transferring(tr)) = 0 => Transferring(tr) = {}
  BY <1>1, FS_EmptySet
<1>. QED  BY <1>1, <1>2, <1>3 DEF Transferring

\* A transfer adds one to the blocks.
LEMMA TransferStarts ==
    ASSUME NEW tr \in TransferType, NEW a \in Apps, tr[a] = 0, NEW v \in 1 .. MaxVersion
    PROVE  LET t == [tr EXCEPT ![a] = v]
           IN  Cardinality(Transferring(t)) = Cardinality(Transferring(tr)) + 1
<1> DEFINE t == [tr EXCEPT ![a] = v]
<1>1. Transferring(t) = Transferring(tr) \cup {a} /\ a \notin Transferring(tr)
  BY MaxVersionAssumption DEF Transferring, TransferType
<1>. QED  BY <1>1, TransfersFinite, FS_AddElement

\* An access does not touch the deletions: the end of one drops only versions that were
\* deleted, and a version that is transferred, or whose deletion is deferred, was not.
LEMMA AccessEndedDeletionInv ==
    ASSUME NEW d, NEW h, ObjectInv(d, h), NEW u \in Users, NEW tr, NEW del,
           DeletionInv(d, tr, del)
    PROVE  LET e == DataHasBeenAccessed(d, h[u])
           IN  /\ DeletionInv(e, tr, del)
               /\ e.current = d.current /\ e.toDelete = d.toDelete
<1> DEFINE e == DataHasBeenAccessed(d, h[u])
<1>1. /\ d \in ObjectType /\ ~ d.exc /\ h[u] \in Access
      /\ h[u].r # 0 => h[u].r \in d.live
      /\ h[u].w # 0 => h[u].w \in d.live /\ h[u].w # h[u].r
  BY DEF ObjectInv, HeldType, HeldOK
<1>2. /\ SameRest(d, e) /\ e.live \subseteq d.live
      /\ \A v \in d.live :
            v \notin e.live <=> v \in {h[u].r, h[u].w} /\ d.toDelete[v] /\ Idle(e, v)
  BY <1>1, DataHasBeenAccessedFields
<1> HIDE DEF e
<1>3. \A v \in d.live : ~ d.toDelete[v] => v \in e.live
  BY <1>2
<1>4. BlocksOK(e, tr)
  BY <1>2, <1>3 DEF DeletionInv, BlocksOK, SameRest
<1>5. PendingOK(e, del)
  BY <1>2, <1>3 DEF DeletionInv, PendingOK, SameRest
<1>. QED  BY <1>2, <1>4, <1>5 DEF DeletionInv, SameRest, e

\* A deletion: at once when no transfer blocks it, and then nothing is transferred; deferred
\* otherwise, and then it is the first one.
LEMMA DeleteDeletionInv ==
    ASSUME NEW d, NEW h, ObjectInv(d, h), NEW tr, NEW del, DeletionInv(d, tr, del),
           d.blocks > 0 => ~ del /\ \A v \in d.live : ~ d.toDelete[v]
    PROVE  DeletionInv(Delete(d), tr, TRUE)
<1> DEFINE e == Delete(d)
<1>1. d \in ObjectType /\ VersionsOK(d)
  BY DEF ObjectInv
<1>2. /\ e.current = d.current /\ e.blocks = d.blocks
      /\ d.blocks > 0 => /\ e.pending = Append(d.pending, d.live)
                         /\ e.toDelete = d.toDelete /\ e.live = d.live
      /\ ~ (d.blocks > 0) =>
            /\ e.pending = d.pending
            /\ e.toDelete = [v \in Versions |-> d.toDelete[v] \/ v \in d.live]
            /\ e.live = {v \in d.live : ~ Idle(d, v)}
  BY <1>1, DeleteFields
<1> HIDE DEF e
<1>3. /\ tr \in TransferType /\ d.blocks = Cardinality(Transferring(tr)) /\ d.blocks \in Nat
      /\ PendingOK(d, del) /\ BlocksOK(d, tr)
  BY TransfersFinite DEF DeletionInv, BlocksOK
<1>4. CASE d.blocks > 0
  <2>1. d.pending = << >> /\ ~ d.toDelete[d.current]
    BY <1>3, <1>4 DEF PendingOK, DeletionInv
  <2>2. d.current \in d.live
    BY <1>1, <2>1, VersionsPositive DEF VersionsOK, ObjectType
  <2>3. e.pending = <<d.live>>
    BY <1>2, <1>4, <2>1
  <2>4. Len(e.pending) = 1 /\ e.pending[1] = d.live
    BY <2>3
  <2>5. PendingOK(e, TRUE)
    BY <1>2, <1>3, <1>4, <2>2, <2>4 DEF PendingOK
  <2>6. BlocksOK(e, tr)
    BY <1>2, <1>3, <1>4 DEF BlocksOK
  <2>. QED  BY <2>5, <2>6 DEF DeletionInv, e
<1>5. CASE ~ (d.blocks > 0)
  <2>1. d.blocks = 0 /\ \A a \in Apps : tr[a] = 0
    BY <1>3, <1>5, TransfersFinite
  <2>2. BlocksOK(e, tr)
    BY <1>2, <1>3, <2>1 DEF BlocksOK
  <2>3. d.pending \in Seq(SUBSET Versions)
    BY <1>1 DEF ObjectType
  <2>4. ASSUME d.pending # << >>
        PROVE  /\ Len(e.pending) = 1 /\ e.current \in e.pending[1]
               /\ \A v \in e.pending[1] : e.toDelete[v]
    <3>1. /\ Len(d.pending) = 1 /\ d.current \in d.pending[1]
          /\ \A v \in d.pending[1] : d.toDelete[v]
      BY <1>3, <2>1, <2>4 DEF PendingOK
    <3>2. d.pending[1] \subseteq Versions
      BY <2>3, <3>1
    <3>. QED  BY <1>2, <1>5, <3>1, <3>2
  <2>5. PendingOK(e, TRUE)
    BY <1>2, <1>5, <2>1, <2>4 DEF PendingOK
  <2>. QED  BY <2>2, <2>5 DEF DeletionInv, e
<1>. QED  BY <1>4, <1>5

\* One block more, while the current version is not deleted: a deferred deletion was
\* already blocked.
LEMMA BlockPendingOK ==
    ASSUME NEW d \in ObjectType, d.blocks \in Nat, NEW del, PendingOK(d, del),
           ~ d.toDelete[d.current]
    PROVE  /\ PendingOK(BlockDeletions(d), del)
           /\ d.blocks = 0 => d.pending = << >>
<1> DEFINE c == BlockDeletions(d)
<1>1. /\ c.blocks = d.blocks + 1 /\ c.current = d.current /\ c.pending = d.pending
      /\ c.toDelete = d.toDelete /\ c.live = d.live
  BY BlocksFields DEF BlockDeletions
<1> HIDE DEF c
<1>2. d.blocks = 0 => d.pending = << >>
  BY DEF PendingOK
<1>3. PendingOK(c, del)
  BY <1>1, <1>2 DEF PendingOK
<1>. QED  BY <1>2, <1>3 DEF c

\* checkResultFileTransfer blocks and unblocks: a file whose current version is not deleted
\* is left as it was.
LEMMA CheckResultFileTransferInv ==
    ASSUME NEW d, NEW h, ObjectInv(d, h), NEW tr, NEW del, DeletionInv(d, tr, del),
           Retrievable(d)
    PROVE  LET e == [CheckResultFileTransfer(d) EXCEPT !.exc = FALSE]
           IN  ObjectInv(e, h) /\ DeletionInv(e, tr, del) /\ e.current = d.current
<1> DEFINE c == BlockDeletions(d)
           f == UnblockDeletions(c)
           e == [f EXCEPT !.exc = FALSE]
<1>1. d \in ObjectType /\ ~ d.exc /\ ~ d.toDelete[d.current] /\ d.exc \in BOOLEAN
  BY DEF ObjectInv, Retrievable, ObjectType
<1>2. d.blocks \in Nat /\ PendingOK(d, del)
  BY TransfersFinite DEF DeletionInv, BlocksOK
<1>3. /\ c \in ObjectType /\ c.blocks = d.blocks + 1
      /\ c.readers = d.readers /\ c.writters = d.writters /\ c.current = d.current
      /\ c.pending = d.pending /\ c.toDelete = d.toDelete /\ c.live = d.live
      /\ c.exc = d.exc
  BY <1>1, <1>2, BlocksFields DEF BlockDeletions
<1>4. PendingOK(c, del) /\ (d.blocks = 0 => d.pending = << >>)
  BY <1>1, <1>2, BlockPendingOK
<1>5. CheckResultFileTransfer(d) = f
  BY DEF CheckResultFileTransfer, BlockDataAndGetResultFile
<1> HIDE DEF c
<1>6. Due(c) = {}
  BY <1>2, <1>3, <1>4 DEF Due
<1>7. /\ f \in ObjectType /\ ~ f.exc
      /\ f.readers = c.readers /\ f.writters = c.writters
      /\ f.current = c.current /\ f.pending = c.pending /\ f.blocks = c.blocks - 1
      /\ f.toDelete = [v \in Versions |-> c.toDelete[v] \/ v \in Due(c)]
      /\ f.live = {v \in c.live : ~ (v \in Due(c) /\ Idle(c, v))}
  BY <1>1, <1>2, <1>3, <1>4, UnblockDeletionsFields
<1> HIDE DEF f
<1>8. f.toDelete = d.toDelete /\ f.live = d.live /\ f.blocks = d.blocks
  <2>1. d.toDelete \in [Versions -> BOOLEAN]
    BY <1>1 DEF ObjectType
  <2>. QED  BY <1>2, <1>3, <1>6, <1>7, <2>1
<1>9. /\ e \in ObjectType /\ e.exc = d.exc
      /\ e.readers = d.readers /\ e.writters = d.writters
      /\ e.current = d.current /\ e.pending = d.pending /\ e.blocks = d.blocks
      /\ e.toDelete = d.toDelete /\ e.live = d.live
  BY <1>1, <1>3, <1>7, <1>8 DEF ObjectType
<1> HIDE DEF e
<1>10. ObjectInv(e, h)
  BY <1>9, SameVersionsInv
<1>11. DeletionInv(e, tr, del)
  BY <1>9 DEF DeletionInv, BlocksOK, PendingOK
<1>. QED  BY <1>5, <1>9, <1>10, <1>11 DEF e

-----------------------------------------------------------------------------
(* The handlers *)

\* No exception is in flight: the object is the one that the last request left.
LEMMA NoExceptionInFlight ==
    ASSUME DataInv
    PROVE  DI = di
<1>1. di \in ObjectType /\ ~ di.exc
  BY DEF DataInv, ObjectInv
<1>. QED  BY <1>1 DEF DI, ObjectType

\* Registering an access, by a parameter or by the main program.
LEMMA RegisterAccessInv ==
    ASSUME DataInv, RulesRespected, NEW u \in Users, NEW m \in Modes, held[u] = NoAccess,
           RegisterAccess(u, m), UNCHANGED transfer
    PROVE  /\ ObjectInv(di', held') /\ DeletionInv(di', transfer', deleted')
           /\ di'.current = di.current + (IF Writes(m) THEN 1 ELSE 0)
<1>1. /\ ObjectInv(di, held) /\ DeletionInv(di, transfer, deleted) /\ DI = di
      /\ di \in ObjectType /\ held \in HeldType /\ VersionsOK(di) /\ deleted \in BOOLEAN
  BY NoExceptionInFlight DEF DataInv, ObjectInv, DeletionInv
<1>2. /\ Writes(m) => di.current < MaxVersion
      /\ Reads(m) => ~ deleted
      /\ di.pending = << >>
      /\ di' = WillAccess(di, m)
      /\ held' = [held EXCEPT ![u] = AccessId(di, m)]
      /\ deleted' = (deleted /\ ~ Writes(m))
  BY <1>1 DEF RegisterAccess, Respects, RulesRespected, AllRules
<1>3. Reads(m) => ~ di.toDelete[di.current]
  BY <1>1, <1>2 DEF DeletionInv
<1>4. ObjectInv(WillAccess(di, m), [held EXCEPT ![u] = AccessId(di, m)])
  BY <1>1, <1>2, <1>3, WillAccessInv
<1>5. /\ di' \in ObjectType
      /\ di'.current = di.current + (IF Writes(m) THEN 1 ELSE 0)
      /\ di'.live = IF Writes(m) THEN di.live \cup {di.current + 1} ELSE di.live
      /\ di'.toDelete = di.toDelete /\ di'.blocks = di.blocks /\ di'.pending = di.pending
  BY <1>1, <1>2, WillAccessFields
<1>6. Writes(m) => ~ di'.toDelete[di'.current]
  <2>1. di.current \in Nat /\ di'.current \in Versions
    BY <1>1, <1>5, VersionsPositive DEF ObjectType
  <2>. QED  BY <1>1, <1>5, <2>1 DEF VersionsOK
<1>7. ~ Writes(m) => di'.current = di.current
  BY <1>1, <1>5, VersionsPositive DEF ObjectType
<1>8. BlocksOK(di', transfer')
  BY <1>1, <1>5, <1>6, <1>7 DEF DeletionInv, BlocksOK
<1>9. PendingOK(di', deleted')
  BY <1>2, <1>5 DEF PendingOK
<1>10. deleted' \in BOOLEAN /\ (~ deleted' => ~ di'.toDelete[di'.current])
  BY <1>1, <1>2, <1>5, <1>6, <1>7 DEF DeletionInv
<1>. QED  BY <1>2, <1>4, <1>5, <1>8, <1>9, <1>10 DEF DeletionInv

\* A parameter is registered while the main program has the file closed, or to read it
\* with the main program.
LEMMA ProcessParamStep ==
    ASSUME DataInv, RulesRespected, NEW p \in Params, NEW m \in Modes, ProcessParam(p, m)
    PROVE  DataInv'
<1>1. /\ held[p] = NoAccess /\ RegisterAccess(p, m) /\ UNCHANGED <<open, transfer>>
      /\ open = "none" \/ (m = "R" /\ held[Main] # NoAccess)
  BY DEF ProcessParam, Respects, RulesRespected, AllRules
<1>2. p \in Users /\ Main \in Users /\ p # Main
  BY UsersAssumption DEF Users
<1>3. /\ ObjectInv(di', held') /\ DeletionInv(di', transfer', deleted')
      /\ di'.current = di.current + (IF Writes(m) THEN 1 ELSE 0)
  BY <1>1, <1>2, RegisterAccessInv
<1>4. held \in HeldType /\ di.current \in Nat /\ MainOK
  BY VersionsPositive DEF DataInv, ObjectInv, ObjectType
<1>5. held'[Main] = held[Main] /\ known' = TRUE
  BY <1>1, <1>2, <1>4 DEF RegisterAccess, HeldType
<1>6. MainOK'
  <2>1. CASE open = "none"
    BY <1>1, <1>4, <1>5, <2>1 DEF MainOK
  <2>2. CASE open # "none"
    <3>1. m = "R" /\ known
      BY <1>1, <1>4, <2>2 DEF MainOK
    <3>2. di'.current = di.current
      BY <1>3, <1>4, <3>1 DEF Writes
    <3>. QED  BY <1>1, <1>4, <1>5, <2>2, <3>1, <3>2 DEF MainOK
  <2>. QED  BY <2>1, <2>2
<1>. QED  BY <1>3, <1>6 DEF DataInv

\* The end of a task, with the transfer of its result when it is the last writer.
LEMMA EndTaskStep ==
    ASSUME DataInv, RulesRespected, NEW p \in Params, NEW b \in BOOLEAN, EndTask(p, b)
    PROVE  DataInv'
<1> DEFINE d == DataHasBeenAccessed(di, held[p])
           g == [held EXCEPT ![p] = NoAccess]
           e == [CheckResultFileTransfer(d) EXCEPT !.exc = FALSE]
<1>1. /\ ObjectInv(di, held) /\ DeletionInv(di, transfer, deleted) /\ DI = di /\ MainOK
      /\ held \in HeldType
  BY NoExceptionInFlight DEF DataInv, ObjectInv
<1>2. p \in Users /\ Main \in Users /\ p # Main
  BY UsersAssumption DEF Users
<1>3. ObjectInv(d, g)
  BY <1>1, <1>2, DataHasBeenAccessedInv
<1>4. /\ DeletionInv(d, transfer, deleted)
      /\ d.current = di.current /\ d.toDelete = di.toDelete
  BY <1>1, <1>2, AccessEndedDeletionInv
<1>5. /\ b => Retrievable(di)
      /\ di' = IF b /\ ~ d.exc THEN e ELSE d
      /\ held' = g /\ UNCHANGED <<known, open, transfer, deleted>>
  BY <1>1 DEF EndTask, Respects, RulesRespected, AllRules
<1>6. b => Retrievable(d)
  BY <1>4, <1>5 DEF Retrievable
<1>7. b => ObjectInv(e, g) /\ DeletionInv(e, transfer, deleted) /\ e.current = d.current
  BY <1>3, <1>4, <1>6, CheckResultFileTransferInv
<1> HIDE DEF d, e
<1>8. /\ ObjectInv(di', held') /\ DeletionInv(di', transfer, deleted)
      /\ di'.current = di.current
  BY <1>3, <1>4, <1>5, <1>7
<1>9. held'[Main] = held[Main]
  BY <1>1, <1>2, <1>5 DEF HeldType
<1>10. MainOK'
  BY <1>1, <1>5, <1>8, <1>9 DEF MainOK
<1>. QED  BY <1>5, <1>8, <1>10 DEF DataInv

\* The main program opens the file.
LEMMA OpenFileStep ==
    ASSUME DataInv, RulesRespected, NEW m \in Modes, OpenFile(m)
    PROVE  DataInv'
<1>1. /\ open = "none" /\ open' = m /\ UNCHANGED transfer
      /\ held[Main] = NoAccess /\ known \in BOOLEAN /\ m # "none"
  BY DEF OpenFile, DataInv, MainOK, Modes
<1>2. CASE known
  <2>1. RegisterAccess(Main, m) /\ Main \in Users
    BY <1>2 DEF OpenFile, Users
  <2>2. /\ ObjectInv(di', held') /\ DeletionInv(di', transfer', deleted')
        /\ di'.current = di.current + (IF Writes(m) THEN 1 ELSE 0)
    BY <1>1, <2>1, RegisterAccessInv
  <2>3. held \in HeldType /\ di.current \in Nat
    BY VersionsPositive DEF DataInv, ObjectInv, ObjectType
  <2>4. held'[Main] = AccessId(di, m) /\ known' = TRUE
    BY <2>1, <2>3 DEF RegisterAccess, HeldType
  <2>5. m = "R" \/ m = "W" \/ m = "RW"
    BY DEF Modes
  <2>6. AccessId(di, m) = [r |-> IF m = "R" THEN di'.current
                                 ELSE IF m = "RW" THEN di'.current - 1 ELSE 0,
                           w |-> IF m = "R" THEN 0 ELSE di'.current]
    BY <2>2, <2>3, <2>5 DEF AccessId, Reads, Writes
  <2>7. MainOK'
    <3>1. m = "RW" => di'.current > 1
      <4>1. di.current # 0
        BY VersionsPositive DEF DataInv, ObjectInv, ObjectType
      <4>. QED  BY <2>2, <2>3, <4>1 DEF Writes
    <3>. QED  BY <1>1, <2>4, <2>6, <3>1 DEF MainOK
  <2>. QED  BY <2>2, <2>7 DEF DataInv
<1>3. CASE ~ known
  <2>1. di' = di /\ UNCHANGED <<held, known, deleted, transfer>>
    BY <1>3, NoExceptionInFlight DEF OpenFile
  <2>. QED  BY <1>1, <1>3, <2>1 DEF DataInv, MainOK
<1>. QED  BY <1>2, <1>3

\* The main program closes the file: what finishFileAccess computes is what was registered.
LEMMA CloseFileStep ==
    ASSUME DataInv, RulesRespected, CloseFile
    PROVE  DataInv'
<1>1. /\ ObjectInv(di, held) /\ DeletionInv(di, transfer, deleted) /\ DI = di /\ MainOK
      /\ held \in HeldType /\ HeldOK(di, held) /\ di.current \in Nat /\ di.current # 0
      /\ Main \in Users
  BY NoExceptionInFlight, VersionsPositive DEF DataInv, ObjectInv, ObjectType, Users
<1>2. open # "none" /\ open' = "none" /\ UNCHANGED <<known, transfer, deleted>>
  BY DEF CloseFile
<1>3. held' = [held EXCEPT ![Main] = NoAccess] /\ held'[Main] = NoAccess
  BY <1>1 DEF CloseFile, HeldType
<1>4. MainOK'
  BY <1>1, <1>2, <1>3 DEF MainOK
<1>5. CASE known
  <2>1. held[Main] = [r |-> IF open = "R" THEN di.current
                            ELSE IF open = "RW" THEN di.current - 1 ELSE 0,
                      w |-> IF open = "R" THEN 0 ELSE di.current]
    BY <1>1, <1>2, <1>5 DEF MainOK
  <2>2. GetAccess(di, open) = held[Main]
    <3>1. CASE open = "R"
      BY <2>1, <3>1 DEF GetAccess
    <3>2. CASE open = "W"
      BY <2>1, <3>2 DEF GetAccess
    <3>3. CASE open = "RW"
      <4>1. held[Main].r = di.current - 1 /\ held[Main].w = di.current
        BY <2>1, <3>3
      <4>2. CASE di.current - 1 \in di.live
        BY <2>1, <3>3, <4>2 DEF GetAccess
      <4>3. di.current - 1 \in di.live
        BY <1>1, <1>5, <3>3, <4>1 DEF HeldOK, MainOK
      <4>. QED  BY <4>2, <4>3
    <3>. QED  BY <1>1, <1>2, <3>1, <3>2, <3>3 DEF MainOK, Modes
  <2>3. di' = DataHasBeenAccessed(di, held[Main])
    BY <1>1, <1>5, <2>2 DEF CloseFile
  <2>4. ObjectInv(di', held')
    BY <1>1, <1>3, <2>3, DataHasBeenAccessedInv
  <2>5. DeletionInv(di', transfer, deleted)
    BY <1>1, <2>3, AccessEndedDeletionInv
  <2>. QED  BY <1>2, <1>4, <2>4, <2>5 DEF DataInv
<1>6. CASE ~ known
  <2>1. di' = di
    BY <1>1, <1>6 DEF CloseFile
  <2>2. held' = held
    BY <1>1, <1>3, <1>6 DEF MainOK, HeldType
  <2>. QED  BY <1>1, <1>2, <1>4, <2>1, <2>2 DEF DataInv
<1>. QED  BY <1>1, <1>5, <1>6 DEF MainOK

\* The program deletes the file.
LEMMA DeleteFileStep ==
    ASSUME DataInv, RulesRespected, DeleteFile
    PROVE  DataInv'
<1>1. ObjectInv(di, held) /\ DeletionInv(di, transfer, deleted) /\ DI = di /\ MainOK
  BY NoExceptionInFlight DEF DataInv
<1>2. /\ di.blocks > 0 => ~ deleted /\ \A v \in di.live : ~ di.toDelete[v]
      /\ di' = Delete(di) /\ deleted' = TRUE /\ UNCHANGED <<known, held, open, transfer>>
  BY <1>1 DEF DeleteFile, Respects, RulesRespected, AllRules
<1>3. ObjectInv(di', held')
  BY <1>1, <1>2, DeleteInv
<1>4. DeletionInv(di', transfer', deleted')
  BY <1>1, <1>2, DeleteDeletionInv
<1>5. di'.current = di.current
  BY <1>1, <1>2, DeleteFields DEF ObjectInv
<1>6. MainOK'
  BY <1>1, <1>2, <1>5 DEF MainOK
<1>. QED  BY <1>3, <1>4, <1>6 DEF DataInv

\* The last available version of a file that is not deleted is the current one.
LEMMA LastAvailableIsCurrent ==
    ASSUME NEW d \in ObjectType, VersionsOK(d), Retrievable(d)
    PROVE  LastAvailable(d) = {d.current} /\ d.current \in d.live
<1>1. d.current \in Versions /\ d.live \subseteq Versions /\ \A v \in Versions : v \in Nat
  BY VersionsPositive DEF ObjectType
<1>2. d.current \in d.live
  BY <1>1 DEF VersionsOK, Retrievable
<1>3. \A v \in d.live : v <= d.current
  BY DEF VersionsOK
<1>4. d.current \in LastAvailable(d)
  BY <1>1, <1>2, <1>3 DEF LastAvailable
<1>5. \A v \in LastAvailable(d) : v = d.current
  BY <1>1, <1>2, <1>3 DEF LastAvailable
<1>. QED  BY <1>2, <1>4, <1>5

\* An application asks for its result: it is blocked, or the deletion is repeated.
LEMMA GetResultFileStep ==
    ASSUME DataInv, RulesRespected, NEW a \in Apps, GetResultFile(a)
    PROVE  DataInv'
<1>1. /\ ObjectInv(di, held) /\ DeletionInv(di, transfer, deleted) /\ DI = di /\ MainOK
      /\ di \in ObjectType /\ VersionsOK(di)
  BY NoExceptionInFlight DEF DataInv, ObjectInv
<1>2. /\ transfer[a] = 0 /\ di' = BlockDataAndGetResultFile(di)
      /\ UNCHANGED <<known, held, open, deleted>>
  BY <1>1 DEF GetResultFile
<1>3. /\ transfer \in TransferType /\ di.blocks = Cardinality(Transferring(transfer))
      /\ di.blocks \in Nat /\ PendingOK(di, deleted) /\ BlocksOK(di, transfer)
      /\ deleted \in BOOLEAN /\ (~ deleted => ~ di.toDelete[di.current])
  BY <1>1, TransfersFinite DEF DeletionInv, BlocksOK
<1>4. CASE Retrievable(di)
  <2>1. di' = BlockDeletions(di)
    BY <1>2, <1>4 DEF BlockDataAndGetResultFile
  <2>2. /\ di' \in ObjectType /\ di'.blocks = di.blocks + 1
        /\ di'.readers = di.readers /\ di'.writters = di.writters /\ di'.current = di.current
        /\ di'.pending = di.pending /\ di'.toDelete = di.toDelete /\ di'.live = di.live
        /\ di'.exc = di.exc
    BY <1>1, <1>3, <2>1, BlocksFields DEF BlockDeletions
  <2>3. ObjectInv(di', held')
    BY <1>1, <1>2, <2>2, SameVersionsInv
  <2>4. ~ di.toDelete[di.current]
    BY <1>4 DEF Retrievable
  <2>5. PendingOK(di', deleted')
    BY <1>1, <1>2, <1>3, <2>1, <2>4, BlockPendingOK
  <2>6. transfer' = [transfer EXCEPT ![a] = di.current] /\ di.current \in di.live
    BY <1>1, <1>4, LastAvailableIsCurrent DEF GetResultFile
  <2>7. di.current \in 1 .. MaxVersion
    BY <1>1 DEF ObjectType, Versions
  <2>8. Cardinality(Transferring(transfer')) = Cardinality(Transferring(transfer)) + 1
    BY <1>2, <1>3, <2>6, <2>7, TransferStarts
  <2>9. /\ transfer' \in TransferType /\ transfer'[a] = di.current
        /\ \A x \in Apps \ {a} : transfer'[x] = transfer[x]
    BY <1>3, <2>6, <2>7, MaxVersionAssumption DEF TransferType
  <2>10. BlocksOK(di', transfer')
    BY <1>3, <2>2, <2>4, <2>6, <2>8, <2>9 DEF BlocksOK
  <2>11. MainOK'
    BY <1>1, <1>2, <2>2 DEF MainOK
  <2>. QED  BY <1>2, <1>3, <2>2, <2>3, <2>5, <2>10, <2>11 DEF DataInv, DeletionInv
<1>5. CASE ~ Retrievable(di)
  <2>1. di' = Delete(di) /\ transfer' = transfer
    BY <1>2, <1>5 DEF BlockDataAndGetResultFile, GetResultFile
  <2>2. deleted /\ ~ (di.blocks > 0)
    BY <1>3, <1>5 DEF Retrievable, BlocksOK
  <2>3. ObjectInv(di', held')
    BY <1>1, <1>2, <2>1, DeleteInv
  <2>4. DeletionInv(di', transfer', TRUE)
    BY <1>1, <2>1, <2>2, DeleteDeletionInv
  <2>5. di'.current = di.current
    BY <1>1, <2>1, DeleteFields
  <2>6. MainOK'
    BY <1>1, <1>2, <2>5 DEF MainOK
  <2>7. deleted' = TRUE
    BY <1>2, <1>3, <2>2
  <2>. QED  BY <2>3, <2>4, <2>6, <2>7 DEF DataInv
<1>. QED  BY <1>4, <1>5

\* The transfer of an application ends; the last one lets the deferred deletion happen.
LEMMA UnblockResultFileStep ==
    ASSUME DataInv, RulesRespected, NEW a \in Apps, UnblockResultFile(a)
    PROVE  DataInv'
<1>1. /\ ObjectInv(di, held) /\ DeletionInv(di, transfer, deleted) /\ DI = di /\ MainOK
      /\ di \in ObjectType /\ VersionsOK(di) /\ ~ di.exc
  BY NoExceptionInFlight DEF DataInv, ObjectInv
<1>2. /\ transfer[a] # 0 /\ di' = UnblockDeletions(di)
      /\ transfer' = [transfer EXCEPT ![a] = 0]
      /\ UNCHANGED <<known, held, open, deleted>>
  BY <1>1 DEF UnblockResultFile
<1>3. /\ transfer \in TransferType /\ di.blocks = Cardinality(Transferring(transfer))
      /\ di.blocks \in Nat /\ PendingOK(di, deleted) /\ BlocksOK(di, transfer)
      /\ deleted \in BOOLEAN /\ (~ deleted => ~ di.toDelete[di.current])
  BY <1>1, TransfersFinite DEF DeletionInv, BlocksOK
<1>4. /\ transfer' \in TransferType /\ transfer'[a] = 0
      /\ \A x \in Apps \ {a} : transfer'[x] = transfer[x]
      /\ transfer = [transfer' EXCEPT ![a] = transfer[a]]
      /\ transfer[a] \in 1 .. MaxVersion
  <2>1. transfer[a] \in 1 .. MaxVersion /\ 0 \in 0 .. MaxVersion
    BY <1>2, <1>3, MaxVersionAssumption DEF TransferType
  <2>2. transfer \in [Apps -> 0 .. MaxVersion]
    BY <1>3 DEF TransferType
  <2>3. /\ transfer' \in [Apps -> 0 .. MaxVersion] /\ transfer'[a] = 0
        /\ \A x \in Apps \ {a} : transfer'[x] = transfer[x]
    BY <1>2, <2>1, <2>2
  <2>4. transfer = [transfer' EXCEPT ![a] = transfer[a]]
    BY <2>2, <2>3
  <2>. QED  BY <2>1, <2>3, <2>4 DEF TransferType
<1>5. Cardinality(Transferring(transfer)) = Cardinality(Transferring(transfer')) + 1
  <2> DEFINE t == [transfer' EXCEPT ![a] = transfer[a]]
  <2>1. Cardinality(Transferring(t)) = Cardinality(Transferring(transfer')) + 1
    BY <1>4, TransferStarts
  <2> HIDE DEF t
  <2>2. transfer = t
    BY <1>4 DEF t
  <2>. QED  BY <2>1, <2>2
<1>6. Cardinality(Transferring(transfer')) \in Nat
  BY TransfersFinite
<1>7. di.blocks > 0
  BY <1>3, <1>5, <1>6
<1>8. /\ di' \in ObjectType /\ ~ di'.exc /\ Due(di) \in SUBSET di.live
      /\ di'.readers = di.readers /\ di'.writters = di.writters
      /\ di'.current = di.current /\ di'.pending = di.pending
      /\ di'.blocks = di.blocks - 1
      /\ di'.toDelete = [v \in Versions |-> di.toDelete[v] \/ v \in Due(di)]
      /\ di'.live = {v \in di.live : ~ (v \in Due(di) /\ Idle(di, v))}
  BY <1>1, <1>2, <1>3, <1>7, UnblockDeletionsFields
<1>9. ObjectInv(di', held')
  BY <1>1, <1>2, <1>8, DropIdleInv
<1>10. MainOK'
  BY <1>1, <1>2, <1>8 DEF MainOK
<1>11. di.current \in Versions /\ di.toDelete \in [Versions -> BOOLEAN]
       /\ di.live \subseteq Versions /\ di.pending \in Seq(SUBSET Versions)
  BY <1>1 DEF ObjectType
<1>12. CASE Due(di) = {}
  <2>1. di'.toDelete = di.toDelete /\ di'.live = di.live
    BY <1>8, <1>11, <1>12
  <2>2. di.blocks = 1 => di.pending = << >>
    BY <1>3, <1>12 DEF Due, PendingOK
  <2>3. PendingOK(di', deleted')
    BY <1>2, <1>3, <1>7, <1>8, <2>1, <2>2 DEF PendingOK
  <2>4. BlocksOK(di', transfer')
    BY <1>3, <1>4, <1>5, <1>6, <1>7, <1>8, <2>1 DEF BlocksOK
  <2>. QED  BY <1>2, <1>3, <1>8, <1>9, <1>10, <2>1, <2>3, <2>4 DEF DataInv, DeletionInv
<1>13. CASE Due(di) # {}
  <2>1. di.blocks = 1 /\ di.pending # << >> /\ Due(di) = di.pending[1]
    BY <1>13 DEF Due
  <2>2. di'.blocks = 0 /\ \A x \in Apps : transfer'[x] = 0
    BY <1>3, <1>5, <1>6, <1>8, <2>1, TransfersFinite
  <2>3. BlocksOK(di', transfer')
    BY <1>3, <1>4, <1>5, <1>6, <1>8, <2>2 DEF BlocksOK
  <2>4. Len(di.pending) = 1 /\ di.current \in di.pending[1] /\ deleted
    BY <1>3, <2>1 DEF PendingOK
  <2>5. \A v \in di.pending[1] : di'.toDelete[v]
    BY <1>8, <1>11, <2>1
  <2>6. PendingOK(di', deleted')
    BY <1>2, <1>8, <2>2, <2>4, <2>5 DEF PendingOK
  <2>. QED  BY <1>2, <1>3, <1>9, <1>10, <2>3, <2>4, <2>6 DEF DataInv, DeletionInv
<1>. QED  BY <1>12, <1>13

-----------------------------------------------------------------------------
(* The theorems *)

\* A new object has one version, which nobody uses.
LEMMA InitDataInv ==
    ASSUME Init
    PROVE  DataInv
<1>1. /\ di = NewDataInfo /\ known = FALSE /\ held = [u \in Users |-> NoAccess]
      /\ open = "none" /\ transfer = [a \in Apps |-> 0] /\ deleted = FALSE
  BY DEF Init
<1>2. di \in ObjectType /\ held \in HeldType /\ transfer \in TransferType
  <2>1. NoAccess \in Access /\ 0 \in 0 .. MaxVersion
    BY MaxVersionAssumption DEF Access, NoAccess
  <2>. QED  BY <1>1, <2>1, NewDataInfoType DEF HeldType, TransferType
<1>3. /\ \A u \in Users : held[u].r = 0 /\ held[u].w = 0
      /\ \A v \in Versions : di.readers[v] = 0 /\ di.writters[v] = 0 /\ ~ di.toDelete[v]
      /\ di.live = {1} /\ di.current = 1 /\ di.blocks = 0 /\ di.pending = << >> /\ ~ di.exc
      /\ 1 \in Versions
  BY <1>1, MaxVersionAssumption DEF NoAccess, NewDataInfo, Versions
<1>4. Counts(di, held)
  <2> SUFFICES ASSUME NEW v \in Versions
               PROVE  /\ di.readers[v] = Cardinality(ReadBy(held, v))
                      /\ di.writters[v] = Cardinality(WrittenBy(held, v))
    BY DEF Counts
  <2>1. ReadBy(held, v) = {} /\ WrittenBy(held, v) = {}
    BY <1>3, VersionsPositive DEF ReadBy, WrittenBy
  <2>. QED  BY <1>3, <2>1, FS_EmptySet
<1>5. VersionsOK(di) /\ HeldOK(di, held)
  BY <1>3, VersionsPositive DEF VersionsOK, HeldOK
<1>6. BlocksOK(di, transfer)
  <2>1. Transferring(transfer) = {} /\ \A a \in Apps : transfer[a] = 0
    BY <1>1 DEF Transferring
  <2>. QED  BY <1>2, <1>3, <2>1, FS_EmptySet DEF BlocksOK
<1>7. MainOK
  BY <1>1 DEF MainOK, Users
<1>. QED  BY <1>1, <1>2, <1>3, <1>4, <1>5, <1>6, <1>7
          DEF DataInv, ObjectInv, DeletionInv, PendingOK

\* Every handler keeps the invariant.
LEMMA NextDataInv ==
    ASSUME DataInv, RulesRespected, [Next]_vars
    PROVE  DataInv'
<1>1. CASE UNCHANGED vars
  BY <1>1 DEF vars, DataInv, MainOK
<1>. QED  BY <1>1, ProcessParamStep, EndTaskStep, OpenFileStep, CloseFileStep,
             DeleteFileStep, GetResultFileStep, UnblockResultFileStep DEF Next

\* The invariant of the versions of a file, for programs that respect the usage rules.
LEMMA DataInvariance ==
    ASSUME RulesRespected
    PROVE  Spec => []DataInv
<1>1. Init => DataInv
  BY InitDataInv
<1>2. DataInv /\ [Next]_vars => DataInv'
  BY NextDataInv
<1>. QED  BY <1>1, <1>2, PTL DEF Spec

\* The reference counts of DataVersion are exact: every end of an access is charged to the
\* version that was accessed, also when finishFileAccess recomputes the access of the main
\* program from the version that is current when it closes the file.
THEOREM CountsAreExact ==
    ASSUME RulesRespected
    PROVE  Spec => []CountsExact
<1>1. DataInv => CountsExact
  BY DEF DataInv, ObjectInv, Counts, CountsExact, ReadBy, WrittenBy, Readers, Writters
<1>. QED  BY <1>1, DataInvariance, PTL

\* No version is dropped while an access to it is registered or a result transfer copies
\* it, whatever deletions, blocks and ends happen meanwhile (DataVersion.checkDeletion,
\* DataInfo.blockDeletions).
THEOREM UsedVersionsAreLive ==
    ASSUME RulesRespected
    PROVE  Spec => []UsedVersionsLive
<1>1. DataInv => UsedVersionsLive
  <2> SUFFICES ASSUME DataInv PROVE UsedVersionsLive
    OBVIOUS
  <2>1. HeldOK(di, held) /\ BlocksOK(di, transfer)
    BY DEF DataInv, ObjectInv, DeletionInv
  <2>. QED  BY <2>1 DEF HeldOK, BlocksOK, UsedVersionsLive
<1>. QED  BY <1>1, DataInvariance, PTL

\* A deleted version goes with its last use, and a deferred deletion with the last block.
THEOREM DeletedVersionsAreDropped ==
    ASSUME RulesRespected
    PROVE  Spec => []DeletedVersionsDropped
<1>1. DataInv => DeletedVersionsDropped
  <2> SUFFICES ASSUME DataInv PROVE DeletedVersionsDropped
    OBVIOUS
  <2>1. VersionsOK(di) /\ PendingOK(di, deleted)
    BY DEF DataInv, ObjectInv, DeletionInv
  <2>2. ASSUME di.blocks = 0, NEW x \in PendingItems(di)
        PROVE  di.toDelete[x[2]]
    <3>1. x[1] \in 1 .. Len(di.pending) /\ x[2] \in di.pending[x[1]]
      BY DEF PendingItems
    <3>2. di.pending # << >>
      BY <3>1
    <3>3. Len(di.pending) = 1 /\ \A v \in di.pending[1] : di.toDelete[v]
      BY <2>1, <2>2, <3>2 DEF PendingOK
    <3>4. x[1] = 1
      BY <3>1, <3>3
    <3>. QED  BY <3>1, <3>3, <3>4
  <2>. QED  BY <2>1, <2>2 DEF VersionsOK, DeletedVersionsDropped
<1>. QED  BY <1>1, DataInvariance, PTL

\* No request of the Access Processor is left by a null dereference of a version that was
\* dropped, and blockDataAndGetResultFile always finds a version to copy.
THEOREM HandlersAreComplete ==
    ASSUME RulesRespected
    PROVE  Spec => []HandlersComplete
<1>1. DataInv => HandlersComplete
  <2> SUFFICES ASSUME DataInv PROVE HandlersComplete
    OBVIOUS
  <2>1. di \in ObjectType /\ VersionsOK(di) /\ ~ di.exc
    BY DEF DataInv, ObjectInv
  <2>2. Retrievable(di) => LastAvailable(di) # {}
    BY <2>1, LastAvailableIsCurrent
  <2>. QED  BY <2>1, <2>2 DEF HandlersComplete
<1>. QED  BY <1>1, DataInvariance, PTL

=============================================================================
