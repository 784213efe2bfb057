--------------------------- MODULE PlainDepsProofs --------------------------
(***************************************************************************)
(* The dependence graph, for every program.  First type correctness and    *)
(* the guarantee that finished() relies on: nobody adds a successor to an  *)
(* object whose list is being walked without a lock.  Then the counts are  *)
(* exact: the predecessors of an object, the tasks in the graph, the       *)
(* components of the parent.  What rests on them: an open group is never   *)
(* satisfied, a batch holds only tasks that wait for nothing else, every   *)
(* task is dispatched once, and nothing is left when a taskwait clears the *)
(* domain.                                                                 *)
(*                                                                         *)
(* IInv says what the parent and the domain may refer to; CInv, in the     *)
(* second half, says how objects live and what is counted.                 *)
(***************************************************************************)
EXTENDS PlainDeps, FiniteSetTheorems, TLAPS

\* Phases in which an object has not given up the targets it writes.
Registered == {"creating", "waiting", "held", "ready", "running", "asked", "satisfied",
               "unregister"}

\* The parent is inside submitDependableObjectInternal, before submitted().
Submitting == {"next", "lookup", "lock", "enlist", "init", "initReaders", "target", "drop"}
AtAccess == Submitting \ {"next"}
AtGroup == {"init", "initReaders", "target"}

\* The parent's local state is defined where its next step uses it.
ParentOK ==
  /\ par.pc \in Submitting \cup {"release", "wait"} =>
       par.cur \in Obj /\ kind[par.cur] \in {"submit", "wait"}
  /\ par.pc \in AtAccess => par.addr \in Addr
  /\ par.pc \in AtGroup => Mode \in GroupModes
  /\ par.pc = "lock" => par.lw \in Obj
  /\ par.pc = "wait" => kind[par.cur] = "wait"

\* A task under construction is not released by others.
CreatingOK ==
  /\ (par.pc \in Submitting /\ kind[par.cur] = "submit") =>
       phase[par.cur] = "creating" /\ ~ submitted[par.cur]
  /\ \A o \in Obj : submitted[o] => phase[o] \notin {"none", "creating"}

\* ensure(!depObj.waits()): a wait joins no group.
WaitOK == \A o \in Obj : kind[o] = "wait" => \A a \in Addr : acc[o][a] \notin GroupModes

\* Nothing refers to an object that has not been created.
Created == 1 .. lastDepObjId
Fresh ==
  /\ par.cur \in Created \cup {NULL} /\ par.init \in Created \cup {NULL}
  /\ \A a \in Addr : lastWriter[a] \in Created \cup {NULL}
  /\ \A a \in Addr : commDO[a] \in Created \cup {NULL}
  /\ \A a \in Addr : readers[a] \subseteq Created
  /\ \A o \in Obj : submitted[o] => o \in Created
  /\ \A o \in Obj : checked[o] \in Created \cup {NULL}
  /\ \A o \in Obj : succ[o] \cup cursor[o] \cup batch[o] \subseteq Created

\* Only submitted tasks are released in batches.
BatchOK ==
  \A o \in Obj : \A s \in Obj : (s \in batch[o] \/ s = checked[o]) =>
    kind[s] = "submit" /\ phase[s] \notin {"none", "creating"}

\* The last writer of an address has not unregistered and knows the address.
WriterOK ==
  \A a \in Addr : lastWriter[a] # NULL =>
    /\ kind[lastWriter[a]] # "wait"
    /\ phase[lastWriter[a]] \in Registered
    /\ a \in writes[lastWriter[a]]

\* A reader in the list of an address has not deleted itself from that list.
ReaderOK ==
  \A a \in Addr : \A r \in readers[a] :
    /\ kind[r] = "submit"
    /\ a \in reads[r]
    /\ phase[r] \in Registered \/ (phase[r] = "unread" /\ a \in unread[r])

\* An open group is a CommutationDO that has not finished.
GroupOK ==
  \A a \in Addr : commDO[a] # NULL =>
    /\ kind[commDO[a]] = "comm"
    /\ phase[commDO[a]] \in {"waiting", "satisfied"}
    /\ a \in writes[commDO[a]]

\* The inductive invariant.
IInv == /\ TypeOK /\ ParentOK /\ CreatingOK /\ WaitOK /\ Fresh /\ BatchOK
        /\ WriterOK /\ ReaderOK /\ GroupOK

-----------------------------------------------------------------------------

\* Sets of objects are finite.
LEMMA ObjFinite == \A S \in SUBSET Obj : IsFiniteSet(S) /\ Cardinality(S) \in Nat
<1>1. IsFiniteSet(Obj)
  BY FS_Interval, BoundsAssumption DEF Obj
<1> QED
  BY <1>1, FS_Subset, FS_CardinalityType

\* The initial state satisfies the invariant.
LEMMA InitIInv == Init => IInv
<1> SUFFICES ASSUME Init PROVE IInv
  OBVIOUS
<1>1. TypeOK
  BY BoundsAssumption DEF Init, TypeOK, ParStart, ParentStates, NULL, Accesses, NoAccess, Phases, PCs
<1>2. ParentOK /\ CreatingOK /\ WaitOK
  BY DEF Init, ParentOK, CreatingOK, WaitOK, ParStart, Submitting, AtAccess, AtGroup, Obj
<1>3. Fresh /\ BatchOK
  BY DEF Init, Fresh, Created, BatchOK, ParStart, NULL, Obj
<1>4. WriterOK /\ ReaderOK /\ GroupOK
  BY DEF Init, WriterOK, ReaderOK, GroupOK
<1> QED
  BY <1>1, <1>2, <1>3, <1>4 DEF IInv

\* New edges keep the types of the graph.
LEMMA DependOnType ==
  ASSUME TypeOK, NEW o \in Obj, NEW P \in SUBSET Obj, DependOn(o, P)
  PROVE  numPred' \in [Obj -> Int] /\ succ' \in [Obj -> SUBSET Obj]
<1>1. NewEdges(o, P) \in SUBSET Obj
  BY DEF NewEdges
<1>2. Cardinality(NewEdges(o, P)) \in Nat
  BY <1>1, ObjFinite
<1> QED
  BY <1>2 DEF TypeOK, DependOn

\* Reading the last writer changes only the parent's local state.
LEMMA ReadLastWriterStep == ASSUME IInv, ReadLastWriter PROVE IInv'
<1>u. UNCHANGED <<lastDepObjId, kind, acc, tasks, phase, numPred, succ, writes, reads,
        submitted, lastWriter, readers, commDO, owner, components, tasksInGraph, unread,
        cursor, checked, batch, caller>>
  BY DEF ReadLastWriter, identity, graph, targets, domain, loops
<1>e. Created' = Created
  BY <1>u DEF Created
<1>p. \E lw \in Obj \cup {NULL} : \E pc \in {"drop", "enlist", "lock"} :
         /\ par' = [par EXCEPT !.lw = lw, !.pc = pc]
         /\ par.pc = "lookup" /\ (pc = "lock" => lw \in Obj)
  BY DEF ReadLastWriter, ParentMoves, AfterLastWriter, IInv, TypeOK, ParentOK, AtAccess,
     Submitting, NULL
<1>1. TypeOK'
  BY <1>u, <1>p DEF IInv, TypeOK, PCs, ParentStates
<1>2. WaitOK' /\ BatchOK' /\ WriterOK' /\ ReaderOK' /\ GroupOK'
  BY <1>u DEF IInv, WaitOK, BatchOK, WriterOK, ReaderOK, GroupOK
<1>3. ParentOK'
  BY <1>u, <1>p DEF IInv, TypeOK, ParentStates, ParentOK, Mode, AtAccess, AtGroup,
     Submitting
<1>4. CreatingOK'
  BY <1>u, <1>p DEF IInv, TypeOK, ParentStates, CreatingOK, Submitting
<1>5. Fresh'
  BY <1>u, <1>p, <1>e DEF IInv, TypeOK, ParentStates, Fresh
<1> QED
  BY <1>1, <1>2, <1>3, <1>4, <1>5 DEF IInv

\* So does looking for readers.
LEMMA LookupReadersStep == ASSUME IInv, LookupReaders PROVE IInv'
<1>u. UNCHANGED <<lastDepObjId, kind, acc, tasks, phase, numPred, succ, writes, reads,
        submitted, lastWriter, readers, commDO, owner, components, tasksInGraph, unread,
        cursor, checked, batch, caller>>
  BY DEF LookupReaders, identity, graph, targets, domain, loops
<1>e. Created' = Created
  BY <1>u DEF Created
<1>p. /\ \E pc \in {"target", "initReaders"} : par' = [par EXCEPT !.pc = pc]
      /\ par.pc = "init"
  BY DEF LookupReaders, ParentMoves, Goto
<1>1. TypeOK'
  BY <1>u, <1>p DEF IInv, TypeOK, PCs, ParentStates
<1>2. WaitOK' /\ BatchOK' /\ WriterOK' /\ ReaderOK' /\ GroupOK'
  BY <1>u DEF IInv, WaitOK, BatchOK, WriterOK, ReaderOK, GroupOK
<1>3. ParentOK'
  BY <1>u, <1>p DEF IInv, TypeOK, ParentStates, ParentOK, Mode, AtAccess, AtGroup,
     Submitting
<1>4. CreatingOK'
  BY <1>u, <1>p DEF IInv, TypeOK, ParentStates, CreatingOK, Submitting
<1>5. Fresh'
  BY <1>u, <1>p, <1>e DEF IInv, TypeOK, ParentStates, Fresh
<1> QED
  BY <1>1, <1>2, <1>3, <1>4, <1>5 DEF IInv

\* Entering a taskwait.
LEMMA TaskWaitStep == ASSUME IInv, TaskWait PROVE IInv'
<1>u. UNCHANGED <<lastDepObjId, kind, acc, tasks, phase, numPred, succ, writes, reads,
        submitted, lastWriter, readers, commDO, owner, components, tasksInGraph, unread,
        cursor, checked, batch, caller>>
  BY DEF TaskWait, identity, graph, targets, domain, loops
<1>e. Created' = Created
  BY <1>u DEF Created
<1>p. par' = [par EXCEPT !.pc = "taskwait"]
  BY DEF TaskWait, Goto
<1>1. TypeOK'
  BY <1>u, <1>p DEF IInv, TypeOK, PCs, ParentStates
<1>2. WaitOK' /\ BatchOK' /\ WriterOK' /\ ReaderOK' /\ GroupOK'
  BY <1>u DEF IInv, WaitOK, BatchOK, WriterOK, ReaderOK, GroupOK
<1>3. ParentOK'
  BY <1>u, <1>p DEF IInv, TypeOK, ParentStates, ParentOK, Mode, AtAccess, AtGroup,
     Submitting
<1>4. CreatingOK'
  BY <1>u, <1>p DEF IInv, TypeOK, ParentStates, CreatingOK, Submitting
<1>5. Fresh'
  BY <1>u, <1>p, <1>e DEF IInv, TypeOK, ParentStates, Fresh
<1> QED
  BY <1>1, <1>2, <1>3, <1>4, <1>5 DEF IInv

\* The edge from the last writer.
LEMMA LockLastWriterStep == ASSUME IInv, LockLastWriter PROVE IInv'
<1>u. UNCHANGED <<lastDepObjId, kind, acc, tasks, phase, writes, reads, submitted,
        lastWriter, readers, commDO, owner, components, tasksInGraph, unread, cursor,
        checked, batch, caller>>
  BY DEF LockLastWriter, identity, targets, domain, loops
<1>e. Created' = Created
  BY <1>u DEF Created
<1>a. par.cur \in Obj /\ {par.lw} \in SUBSET Obj
  BY DEF IInv, ParentOK, Submitting, LockLastWriter, ParentMoves
<1>k. par.cur \in Created
  BY <1>a DEF IInv, Fresh, Obj, NULL
<1>p. /\ \E pc \in {"drop", "enlist"} : par' = [par EXCEPT !.lw = NULL, !.pc = pc]
      /\ par.pc = "lock"
  BY DEF LockLastWriter, ParentMoves, AfterLastWriter
<1>t. numPred' \in [Obj -> Int] /\ succ' \in [Obj -> SUBSET Obj]
  BY <1>a, DependOnType DEF IInv, TypeOK, LockLastWriter, graph
<1>s. \A p \in Obj : succ'[p] \subseteq succ[p] \cup {par.cur}
  BY <1>a DEF IInv, TypeOK, LockLastWriter, DependOn, graph
<1>1. TypeOK'
  BY <1>u, <1>p, <1>t DEF IInv, TypeOK, ParentStates, PCs, NULL
<1>2. WaitOK' /\ BatchOK' /\ WriterOK' /\ ReaderOK' /\ GroupOK'
  BY <1>u DEF IInv, WaitOK, BatchOK, WriterOK, ReaderOK, GroupOK
<1>3. ParentOK'
  BY <1>u, <1>p DEF IInv, TypeOK, ParentStates, ParentOK, Mode, AtAccess, AtGroup,
     Submitting
<1>4. CreatingOK'
  BY <1>u, <1>p DEF IInv, TypeOK, ParentStates, CreatingOK, Submitting
<1>5. Fresh'
  BY <1>u, <1>p, <1>k, <1>t, <1>s, <1>e DEF IInv, TypeOK, ParentStates, Fresh, NULL
<1> QED
  BY <1>1, <1>2, <1>3, <1>4, <1>5 DEF IInv

\* A new reader is a task under construction.
LEMMA AddAsReaderStep == ASSUME IInv, AddAsReader PROVE IInv'
<1>u. UNCHANGED <<lastDepObjId, kind, acc, tasks, phase, numPred, succ, writes,
        submitted, lastWriter, commDO, owner, components, tasksInGraph, unread, cursor,
        checked, batch, caller>>
  BY DEF AddAsReader, identity, graph, targets, domain, loops
<1>e. Created' = Created
  BY <1>u DEF Created
<1>a. /\ par.cur \in Obj /\ par.addr \in Addr
      /\ ~ Waits => kind[par.cur] = "submit" /\ phase[par.cur] = "creating"
  BY DEF IInv, ParentOK, CreatingOK, AtAccess, Submitting, ParentMoves, Waits,
     AddAsReader
<1>k. par.cur \in Created
  BY <1>a DEF IInv, Fresh, Obj, NULL
<1>p. par' = [par EXCEPT !.pc = "next"] /\ par.pc = "enlist"
  BY DEF AddAsReader, ParentMoves, Goto
<1>r. readers' = IF Waits THEN readers ELSE [readers EXCEPT ![par.addr] = @ \cup {par.cur}]
  BY DEF AddAsReader, SetReader
<1>s. reads' = IF Waits THEN reads ELSE [reads EXCEPT ![par.cur] = @ \cup {par.addr}]
  BY DEF AddAsReader
<1>t. readers' \in [Addr -> SUBSET Obj]
  BY <1>a, <1>r DEF IInv, TypeOK
<1>v. reads' \in [Obj -> SUBSET Addr]
  BY <1>a, <1>s DEF IInv, TypeOK
<1>1. TypeOK'
  BY <1>u, <1>p, <1>t, <1>v DEF IInv, TypeOK, PCs, ParentStates
<1>2. WaitOK' /\ BatchOK' /\ WriterOK' /\ GroupOK'
  BY <1>u DEF IInv, WaitOK, BatchOK, WriterOK, GroupOK
<1>3. ParentOK'
  BY <1>u, <1>p DEF IInv, TypeOK, ParentStates, ParentOK, Mode, AtAccess, AtGroup,
     Submitting
<1>4. CreatingOK'
  BY <1>u, <1>p DEF IInv, TypeOK, ParentStates, CreatingOK, Submitting
<1>5. Fresh'
  BY <1>u, <1>p, <1>a, <1>k, <1>r, <1>e DEF IInv, TypeOK, ParentStates, Fresh
<1>6. ReaderOK'
  BY <1>u, <1>a, <1>r, <1>s DEF IInv, TypeOK, ReaderOK, Registered
<1> QED
  BY <1>1, <1>2, <1>3, <1>4, <1>5, <1>6 DEF IInv

\* A new writer is a task under construction.
LEMMA SetAsWriterStep == ASSUME IInv, SetAsWriter PROVE IInv'
<1>u. UNCHANGED <<lastDepObjId, kind, acc, tasks, phase, submitted, commDO, owner,
        components, tasksInGraph, unread, cursor, checked, batch, caller>>
  BY DEF SetAsWriter, identity, domain, loops
<1>e. Created' = Created
  BY <1>u DEF Created
<1>a. /\ par.cur \in Obj /\ par.addr \in Addr
      /\ ~ Waits => kind[par.cur] = "submit" /\ phase[par.cur] = "creating"
  BY DEF IInv, ParentOK, CreatingOK, AtAccess, Submitting, ParentMoves, Waits,
     SetAsWriter
<1>k. par.cur \in Created
  BY <1>a DEF IInv, Fresh, Obj, NULL
<1>p. par' = [par EXCEPT !.pc = "next"] /\ par.pc = "enlist"
  BY DEF SetAsWriter, ParentMoves, Goto
<1>b. ReadersBefore \in SUBSET Obj
  BY <1>a DEF IInv, TypeOK, ReadersBefore
<1>t. numPred' \in [Obj -> Int] /\ succ' \in [Obj -> SUBSET Obj]
  BY <1>a, <1>b, DependOnType DEF IInv, SetAsWriter
<1>s. \A q \in Obj : succ'[q] \subseteq succ[q] \cup {par.cur}
  BY DEF SetAsWriter, DependOn
<1>r. readers' = [readers EXCEPT ![par.addr] = {}]
  BY DEF SetAsWriter
<1>w. IF Waits THEN UNCHANGED <<lastWriter, writes, reads>> ELSE
        /\ lastWriter' = [lastWriter EXCEPT ![par.addr] = par.cur]
        /\ writes' = [writes EXCEPT ![par.cur] = @ \cup {par.addr}]
        /\ reads' \in {reads, [reads EXCEPT ![par.cur] = @ \cup {par.addr}]}
  BY DEF SetAsWriter, AddWriteTarget, targets
<1>v. readers' \in [Addr -> SUBSET Obj] /\ lastWriter' \in [Addr -> Obj \cup {NULL}]
  BY <1>a, <1>r, <1>w DEF IInv, TypeOK
<1>x. writes' \in [Obj -> SUBSET Addr]
  BY <1>a, <1>w DEF IInv, TypeOK
<1>y. reads' \in [Obj -> SUBSET Addr]
  BY <1>a, <1>w DEF IInv, TypeOK
<1>z. /\ \A b \in Addr : \/ lastWriter'[b] = lastWriter[b]
                         \/ lastWriter'[b] = par.cur /\ ~ Waits /\ b \in writes'[par.cur]
      /\ \A q \in Obj : writes[q] \subseteq writes'[q]
  BY <1>a, <1>w DEF IInv, TypeOK
<1>m. \A q \in Obj : reads[q] \subseteq reads'[q]
  BY <1>a, <1>w DEF IInv, TypeOK
<1>1. TypeOK'
  BY <1>u, <1>p, <1>t, <1>v, <1>x, <1>y DEF IInv, TypeOK, PCs, ParentStates
<1>2. WaitOK' /\ BatchOK'
  BY <1>u DEF IInv, WaitOK, BatchOK
<1>3. ParentOK'
  BY <1>u, <1>p DEF IInv, TypeOK, ParentStates, ParentOK, Mode, AtAccess, AtGroup,
     Submitting
<1>4. CreatingOK'
  BY <1>u, <1>p DEF IInv, TypeOK, ParentStates, CreatingOK, Submitting
<1>5. Fresh'
  BY <1>u, <1>p, <1>k, <1>r, <1>z, <1>s, <1>t, <1>v, <1>e DEF IInv, TypeOK,
     ParentStates, Fresh
<1>6. WriterOK'
  BY <1>u, <1>a, <1>z DEF IInv, TypeOK, WriterOK, Registered
<1>7. ReaderOK'
  BY <1>u, <1>a, <1>r, <1>m DEF IInv, TypeOK, ReaderOK, Registered
<1>8. GroupOK'
  BY <1>u, <1>a, <1>z DEF IInv, TypeOK, GroupOK
<1> QED
  BY <1>1, <1>2, <1>3, <1>4, <1>5, <1>6, <1>7, <1>8 DEF IInv

\* What dropping a predecessor may do to a phase: satisfy an object without a task, or
\* make a submitted task ready.
OnlySatisfied ==
  \A p \in Obj : \/ phase'[p] = phase[p]
                 \/ phase'[p] = "satisfied" /\ kind[p] # "submit"
                 \/ phase'[p] = "ready" /\ kind[p] = "submit" /\ submitted[p]

\* Dropping a predecessor keeps the types and only satisfies.
LEMMA DecreaseType ==
  ASSUME TypeOK, NEW o \in Obj, NEW by \in Obj \cup {Parent}, DecreasePredecessors(o, by)
  PROVE  /\ numPred' \in [Obj -> Int] /\ tasksInGraph' \in Int
         /\ phase' \in [Obj -> Phases] /\ OnlySatisfied
         /\ caller' \in [Obj -> Obj \cup {NULL, Parent}]
<1>1. numPred' \in [Obj -> Int] /\ tasksInGraph' \in Int
  BY DEF TypeOK, DecreasePredecessors
<1>2. phase' \in [Obj -> Phases] /\ OnlySatisfied
  BY DEF TypeOK, DecreasePredecessors, OnlySatisfied, Phases
<1>3. caller' \in [Obj -> Obj \cup {NULL, Parent}]
  BY DEF TypeOK, DecreasePredecessors
<1> QED
  BY <1>1, <1>2, <1>3

\* Closing a group keeps the types, only satisfies, and may make the group's
\* CommutationDO the last writer.
LEMMA FinalizeType ==
  ASSUME IInv, NEW a \in Addr, FinalizeReduction(a)
  PROVE  /\ numPred' \in [Obj -> Int] /\ tasksInGraph' \in Int
         /\ phase' \in [Obj -> Phases] /\ OnlySatisfied
         /\ caller' \in [Obj -> Obj \cup {NULL, Parent}]
         /\ lastWriter' \in [Addr -> Obj \cup {NULL}]
         /\ commDO' \in [Addr -> Obj \cup {NULL}]
         /\ readers' = readers /\ succ' = succ
         /\ \A b \in Addr : lastWriter'[b] = lastWriter[b] \/ lastWriter'[b] = commDO[b]
         /\ \A b \in Addr : commDO'[b] = commDO[b] \/ commDO'[b] = NULL
<1>1. CASE commDO[a] = NULL
  BY <1>1 DEF FinalizeReduction, IInv, TypeOK, OnlySatisfied, domain, graph
<1>2. CASE commDO[a] # NULL
  <2>1. commDO[a] \in Obj /\ DecreasePredecessors(commDO[a], Parent)
    BY <1>2 DEF FinalizeReduction, IInv, TypeOK
  <2>2. /\ lastWriter' = [lastWriter EXCEPT ![a] = commDO[a]]
        /\ commDO' = [commDO EXCEPT ![a] = NULL]
        /\ UNCHANGED <<readers, succ>>
    BY <1>2 DEF FinalizeReduction, GroupBecomesWriter
  <2>3. /\ lastWriter' \in [Addr -> Obj \cup {NULL}] /\ commDO' \in [Addr -> Obj \cup {NULL}]
        /\ \A b \in Addr : lastWriter'[b] = lastWriter[b] \/ lastWriter'[b] = commDO[b]
        /\ \A b \in Addr : commDO'[b] = commDO[b] \/ commDO'[b] = NULL
    BY <2>1, <2>2 DEF IInv, TypeOK
  <2> QED
    BY <2>1, <2>2, <2>3, DecreaseType DEF IInv
<1> QED
  BY <1>1, <1>2

\* Turning to the next access, with the group on its address closed.
LEMMA NextAccessStep == ASSUME IInv, NEW a \in Addr, NextAccess(a) PROVE IInv'
<1>u. UNCHANGED <<lastDepObjId, kind, acc, tasks, writes, reads, submitted, owner,
        components, unread, cursor, checked, batch>>
  BY DEF NextAccess, identity, targets, loops
<1>e. Created' = Created
  BY <1>u DEF Created
<1>p. /\ par' = [par EXCEPT !.addr = a, !.todo = @ \ {a},
              !.pc = IF acc[par.cur][a] \in GroupModes THEN "init" ELSE "lookup"]
      /\ par.pc = "next" /\ par.cur \in Obj
  BY DEF NextAccess, ParentMoves, IInv, ParentOK, Submitting
<1>q. par' \in ParentStates
  BY <1>p DEF IInv, TypeOK, ParentStates, PCs
<1>f. /\ numPred' \in [Obj -> Int] /\ tasksInGraph' \in Int
      /\ phase' \in [Obj -> Phases]
      /\ caller' \in [Obj -> Obj \cup {NULL, Parent}]
      /\ lastWriter' \in [Addr -> Obj \cup {NULL}] /\ commDO' \in [Addr -> Obj \cup {NULL}]
  BY FinalizeType DEF NextAccess, IInv, TypeOK, OnlySatisfied, domain, graph
<1>o. OnlySatisfied
  BY FinalizeType DEF NextAccess, IInv, TypeOK, OnlySatisfied, domain, graph
<1>l. \A b \in Addr : lastWriter'[b] = lastWriter[b] \/ lastWriter'[b] = commDO[b]
  BY FinalizeType DEF NextAccess, IInv, TypeOK, OnlySatisfied, domain, graph
<1>c. \A b \in Addr : commDO'[b] = commDO[b] \/ commDO'[b] = NULL
  BY FinalizeType DEF NextAccess, IInv, TypeOK, OnlySatisfied, domain, graph
<1>r. readers' = readers /\ succ' = succ
  BY FinalizeType DEF NextAccess, IInv, TypeOK, OnlySatisfied, domain, graph
<1>1. TypeOK'
  BY <1>u, <1>q, <1>f, <1>r DEF IInv, TypeOK
<1>2. WaitOK'
  BY <1>u DEF IInv, WaitOK
<1>3. ParentOK'
  BY <1>u, <1>p DEF IInv, TypeOK, ParentStates, ParentOK, Mode, AtAccess, AtGroup,
     Submitting
<1>4. CreatingOK'
  BY <1>u, <1>p, <1>o DEF IInv, TypeOK, ParentStates, CreatingOK, Submitting,
     OnlySatisfied, ParentOK
<1>5. Fresh'
  BY <1>u, <1>p, <1>l, <1>c, <1>r, <1>e DEF IInv, TypeOK, ParentStates, Fresh, NULL
<1>6. BatchOK'
  BY <1>u, <1>o DEF IInv, TypeOK, BatchOK, OnlySatisfied
<1>7. WriterOK'
  BY <1>u, <1>o, <1>l DEF IInv, TypeOK, WriterOK, Registered, OnlySatisfied, GroupOK
<1>8. ReaderOK'
  BY <1>u, <1>o, <1>r DEF IInv, TypeOK, ReaderOK, Registered, OnlySatisfied
<1>9. GroupOK'
  BY <1>u, <1>o, <1>c DEF IInv, TypeOK, GroupOK, OnlySatisfied
<1> QED
  BY <1>1, <1>2, <1>3, <1>4, <1>5, <1>6, <1>7, <1>8, <1>9 DEF IInv

\* Closing a group of the other kind.
LEMMA CloseOtherGroupStep == ASSUME IInv, CloseOtherGroup PROVE IInv'
<1>u. UNCHANGED <<lastDepObjId, kind, acc, tasks, writes, reads, submitted, owner, par,
        components, unread, cursor, checked, batch>>
  BY DEF CloseOtherGroup, identity, targets, loops
<1>e. Created' = Created
  BY <1>u DEF Created
<1>a. par.addr \in Addr
  BY DEF IInv, ParentOK, AtAccess, Submitting, ParentMoves, CloseOtherGroup
<1>f. /\ numPred' \in [Obj -> Int] /\ tasksInGraph' \in Int
      /\ phase' \in [Obj -> Phases]
      /\ caller' \in [Obj -> Obj \cup {NULL, Parent}]
      /\ lastWriter' \in [Addr -> Obj \cup {NULL}] /\ commDO' \in [Addr -> Obj \cup {NULL}]
  BY <1>a, FinalizeType DEF CloseOtherGroup, IInv
<1>o. OnlySatisfied
  BY <1>a, FinalizeType DEF CloseOtherGroup, IInv
<1>l. \A b \in Addr : lastWriter'[b] = lastWriter[b] \/ lastWriter'[b] = commDO[b]
  BY <1>a, FinalizeType DEF CloseOtherGroup, IInv
<1>c. \A b \in Addr : commDO'[b] = commDO[b] \/ commDO'[b] = NULL
  BY <1>a, FinalizeType DEF CloseOtherGroup, IInv
<1>r. readers' = readers /\ succ' = succ
  BY <1>a, FinalizeType DEF CloseOtherGroup, IInv
<1>1. TypeOK'
  BY <1>u, <1>f, <1>r DEF IInv, TypeOK
<1>2. ParentOK' /\ WaitOK'
  BY <1>u DEF IInv, ParentOK, Mode, WaitOK
<1>3. CreatingOK'
  BY <1>u, <1>o DEF IInv, TypeOK, ParentStates, CreatingOK, Submitting, OnlySatisfied,
     ParentOK
<1>4. Fresh'
  BY <1>u, <1>l, <1>c, <1>r, <1>e DEF IInv, TypeOK, ParentStates, Fresh, NULL
<1>5. BatchOK'
  BY <1>u, <1>o DEF IInv, TypeOK, BatchOK, OnlySatisfied
<1>6. WriterOK'
  BY <1>u, <1>o, <1>l DEF IInv, TypeOK, WriterOK, Registered, OnlySatisfied, GroupOK
<1>7. ReaderOK'
  BY <1>u, <1>o, <1>r DEF IInv, TypeOK, ReaderOK, Registered, OnlySatisfied
<1>8. GroupOK'
  BY <1>u, <1>o, <1>c DEF IInv, TypeOK, GroupOK, OnlySatisfied
<1> QED
  BY <1>1, <1>2, <1>3, <1>4, <1>5, <1>6, <1>7, <1>8 DEF IInv

\* Closing a group at a taskwait.
LEMMA FinalizeOneReductionStep == ASSUME IInv, NEW a \in Addr, FinalizeOneReduction(a)
  PROVE IInv'
<1>u. UNCHANGED <<lastDepObjId, kind, acc, tasks, writes, reads, submitted, owner, par,
        components, unread, cursor, checked, batch>>
  BY DEF FinalizeOneReduction, identity, targets, loops
<1>e. Created' = Created
  BY <1>u DEF Created
<1>f. /\ numPred' \in [Obj -> Int] /\ tasksInGraph' \in Int
      /\ phase' \in [Obj -> Phases]
      /\ caller' \in [Obj -> Obj \cup {NULL, Parent}]
      /\ lastWriter' \in [Addr -> Obj \cup {NULL}] /\ commDO' \in [Addr -> Obj \cup {NULL}]
  BY FinalizeType DEF FinalizeOneReduction, IInv
<1>o. OnlySatisfied
  BY FinalizeType DEF FinalizeOneReduction, IInv
<1>l. \A b \in Addr : lastWriter'[b] = lastWriter[b] \/ lastWriter'[b] = commDO[b]
  BY FinalizeType DEF FinalizeOneReduction, IInv
<1>c. \A b \in Addr : commDO'[b] = commDO[b] \/ commDO'[b] = NULL
  BY FinalizeType DEF FinalizeOneReduction, IInv
<1>r. readers' = readers /\ succ' = succ
  BY FinalizeType DEF FinalizeOneReduction, IInv
<1>1. TypeOK'
  BY <1>u, <1>f, <1>r DEF IInv, TypeOK
<1>2. ParentOK' /\ WaitOK'
  BY <1>u DEF IInv, ParentOK, Mode, WaitOK
<1>3. CreatingOK'
  BY <1>u, <1>o DEF IInv, TypeOK, ParentStates, CreatingOK, Submitting, OnlySatisfied,
     ParentOK
<1>4. Fresh'
  BY <1>u, <1>l, <1>c, <1>r, <1>e DEF IInv, TypeOK, ParentStates, Fresh, NULL
<1>5. BatchOK'
  BY <1>u, <1>o DEF IInv, TypeOK, BatchOK, OnlySatisfied
<1>6. WriterOK'
  BY <1>u, <1>o, <1>l DEF IInv, TypeOK, WriterOK, Registered, OnlySatisfied, GroupOK
<1>7. ReaderOK'
  BY <1>u, <1>o, <1>r DEF IInv, TypeOK, ReaderOK, Registered, OnlySatisfied
<1>8. GroupOK'
  BY <1>u, <1>o, <1>c DEF IInv, TypeOK, GroupOK, OnlySatisfied
<1> QED
  BY <1>1, <1>2, <1>3, <1>4, <1>5, <1>6, <1>7, <1>8 DEF IInv

\* Dropping the dummy of an initial CommutationDO.
LEMMA DropInitialDummyStep == ASSUME IInv, DropInitialDummy PROVE IInv'
<1>u. UNCHANGED <<lastDepObjId, kind, acc, tasks, succ, writes, reads, submitted,
        lastWriter, readers, commDO, owner, components, unread, cursor, checked, batch>>
  BY DEF DropInitialDummy, identity, graph, targets, domain, loops
<1>e. Created' = Created
  BY <1>u DEF Created
<1>p. par' = [par EXCEPT !.pc = "next", !.init = NULL] /\ par.pc = "drop"
  BY DEF DropInitialDummy, ParentMoves
<1>d. /\ numPred' \in [Obj -> Int] /\ tasksInGraph' \in Int
      /\ phase' \in [Obj -> Phases] /\ OnlySatisfied
      /\ caller' \in [Obj -> Obj \cup {NULL, Parent}]
  BY DecreaseType DEF DropInitialDummy, IInv, TypeOK, ParentStates, OnlySatisfied
<1>1. TypeOK'
  BY <1>u, <1>p, <1>d DEF IInv, TypeOK, PCs, ParentStates
<1>2. WaitOK'
  BY <1>u DEF IInv, WaitOK
<1>3. ParentOK'
  BY <1>u, <1>p DEF IInv, TypeOK, ParentStates, ParentOK, Mode, AtAccess, AtGroup,
     Submitting
<1>4. CreatingOK'
  BY <1>u, <1>p, <1>d DEF IInv, TypeOK, ParentStates, CreatingOK, Submitting,
     OnlySatisfied, ParentOK
<1>5. Fresh'
  BY <1>u, <1>p, <1>e DEF IInv, TypeOK, ParentStates, Fresh, NULL
<1>6. BatchOK'
  BY <1>u, <1>d DEF IInv, TypeOK, BatchOK, OnlySatisfied
<1>7. WriterOK'
  BY <1>u, <1>d DEF IInv, TypeOK, WriterOK, Registered, OnlySatisfied
<1>8. ReaderOK'
  BY <1>u, <1>d DEF IInv, TypeOK, ReaderOK, Registered, OnlySatisfied
<1>9. GroupOK'
  BY <1>u, <1>d DEF IInv, TypeOK, GroupOK, OnlySatisfied
<1> QED
  BY <1>1, <1>2, <1>3, <1>4, <1>5, <1>6, <1>7, <1>8, <1>9 DEF IInv

\* Dropping the fake predecessor.
LEMMA ReleaseFakeStep == ASSUME IInv, ReleaseFake PROVE IInv'
<1>u. UNCHANGED <<lastDepObjId, kind, acc, tasks, succ, writes, reads, submitted,
        lastWriter, readers, commDO, owner, components, unread, cursor, checked, batch>>
  BY DEF ReleaseFake, identity, graph, targets, domain, loops
<1>e. Created' = Created
  BY <1>u DEF Created
<1>p. /\ par' = [par EXCEPT !.pc = IF Waits THEN "wait" ELSE "idle"]
      /\ par.pc = "release" /\ par.cur \in Obj
  BY DEF ReleaseFake, ParentMoves, Goto, IInv, ParentOK
<1>d. /\ numPred' \in [Obj -> Int] /\ tasksInGraph' \in Int
      /\ phase' \in [Obj -> Phases] /\ OnlySatisfied
      /\ caller' \in [Obj -> Obj \cup {NULL, Parent}]
  BY <1>p, DecreaseType DEF ReleaseFake, IInv
<1>1. TypeOK'
  BY <1>u, <1>p, <1>d DEF IInv, TypeOK, ParentStates, PCs, Waits
<1>2. WaitOK'
  BY <1>u DEF IInv, WaitOK
<1>3. ParentOK'
  BY <1>u, <1>p DEF IInv, TypeOK, ParentStates, ParentOK, Mode, AtAccess, AtGroup,
     Submitting, Waits
<1>4. CreatingOK'
  BY <1>u, <1>p, <1>d DEF IInv, TypeOK, ParentStates, CreatingOK, Submitting,
     OnlySatisfied, Waits
<1>5. Fresh'
  BY <1>u, <1>p, <1>e DEF IInv, TypeOK, ParentStates, Fresh
<1>6. BatchOK'
  BY <1>u, <1>d DEF IInv, TypeOK, BatchOK, OnlySatisfied
<1>7. WriterOK'
  BY <1>u, <1>d DEF IInv, TypeOK, WriterOK, Registered, OnlySatisfied
<1>8. ReaderOK'
  BY <1>u, <1>d DEF IInv, TypeOK, ReaderOK, Registered, OnlySatisfied
<1>9. GroupOK'
  BY <1>u, <1>d DEF IInv, TypeOK, GroupOK, OnlySatisfied
<1> QED
  BY <1>1, <1>2, <1>3, <1>4, <1>5, <1>6, <1>7, <1>8, <1>9 DEF IInv

\* Dropping the predecessor of a successor.
LEMMA ReleaseSuccessorStep == ASSUME IInv, NEW o \in Obj, NEW s \in Obj,
  ReleaseSuccessor(o, s) PROVE IInv'
<1>u. UNCHANGED <<lastDepObjId, kind, acc, tasks, succ, writes, reads, submitted,
        lastWriter, readers, commDO, owner, par, components, unread, checked, batch>>
  BY DEF ReleaseSuccessor, identity, graph, targets, domain, loops
<1>e. Created' = Created
  BY <1>u DEF Created
<1>c. cursor' = [cursor EXCEPT ![o] = @ \ {s}]
  BY DEF ReleaseSuccessor
<1>d. /\ numPred' \in [Obj -> Int] /\ tasksInGraph' \in Int
      /\ phase' \in [Obj -> Phases] /\ OnlySatisfied
      /\ caller' \in [Obj -> Obj \cup {NULL, Parent}]
  BY DecreaseType DEF ReleaseSuccessor, IInv
<1>1. TypeOK'
  BY <1>u, <1>d, <1>c DEF IInv, TypeOK
<1>2. ParentOK' /\ WaitOK'
  BY <1>u DEF IInv, ParentOK, Mode, WaitOK
<1>3. CreatingOK'
  BY <1>u, <1>d DEF IInv, TypeOK, ParentStates, CreatingOK, Submitting, OnlySatisfied,
     ParentOK
<1>4. Fresh'
  BY <1>u, <1>c, <1>e DEF IInv, TypeOK, ParentStates, Fresh
<1>5. BatchOK'
  BY <1>u, <1>d DEF IInv, TypeOK, BatchOK, OnlySatisfied
<1>6. WriterOK'
  BY <1>u, <1>d DEF IInv, TypeOK, WriterOK, Registered, OnlySatisfied
<1>7. ReaderOK'
  BY <1>u, <1>d DEF IInv, TypeOK, ReaderOK, Registered, OnlySatisfied
<1>8. GroupOK'
  BY <1>u, <1>d DEF IInv, TypeOK, GroupOK, OnlySatisfied
<1> QED
  BY <1>1, <1>2, <1>3, <1>4, <1>5, <1>6, <1>7, <1>8 DEF IInv

\* The next identifier is new, and what has been created stays created.
LEMMA NextIdentifier ==
  ASSUME IInv, lastDepObjId + 1 \in Obj, lastDepObjId' = lastDepObjId + 1
  PROVE  /\ lastDepObjId' \in 0 .. MaxDepObjId
         /\ Created \subseteq Created'
         /\ lastDepObjId + 1 \in Created' /\ lastDepObjId + 1 \notin Created
         /\ lastDepObjId + 1 # NULL
  BY BoundsAssumption DEF IInv, TypeOK, Created, Obj, NULL

\* A new object needs an identifier of its own.
LEMMA IdsNeededPositive == \A x \in Accesses : IdsNeeded(x) \in Nat /\ IdsNeeded(x) >= 1
<1> TAKE x \in Accesses
<1>1. IsFiniteSet({a \in Addr : x[a] \in GroupModes})
  BY AddrAssumption, FS_Subset, {a \in Addr : x[a] \in GroupModes} \in SUBSET Addr
<1>2. Cardinality({a \in Addr : x[a] \in GroupModes}) \in Nat
  BY <1>1, FS_CardinalityType
<1> QED
  BY <1>2 DEF IdsNeeded

\* Creating a task.
LEMMA CreateTaskStep == ASSUME IInv, NEW x \in TaskMenu, Create("submit", x) PROVE IInv'
<1>u. UNCHANGED <<succ, writes, reads, submitted, lastWriter, readers, commDO, owner,
        tasksInGraph, unread, cursor, checked, batch, caller>>
  BY DEF Create, graph, targets, domain, loops
<1>n. /\ lastDepObjId + 1 \in Obj /\ lastDepObjId' = lastDepObjId + 1
      /\ tasks' \in 0 .. MaxTasks
  BY IdsNeededPositive, BoundsAssumption, MenuAssumption DEF IInv, TypeOK, Create,
     WithinBounds, Obj
<1>k. kind' = [kind EXCEPT ![lastDepObjId + 1] = "submit"]
  BY DEF Create
<1>x. acc' = [acc EXCEPT ![lastDepObjId + 1] = x] /\ x \in Accesses
  BY MenuAssumption DEF Create
<1>h. phase' = [phase EXCEPT ![lastDepObjId + 1] = "creating"]
  BY DEF Create
<1>t. numPred' \in [Obj -> Int] /\ components' \in Int
  BY <1>n DEF Create, IInv, TypeOK
<1>p. par' = [par EXCEPT !.pc = "next", !.cur = lastDepObjId + 1, !.todo = Touched(x)]
  BY DEF Create
<1>v. /\ kind' \in [Obj -> {"submit", "wait", "comm"}]
      /\ acc' \in [Obj -> Accesses] /\ phase' \in [Obj -> Phases]
  BY <1>n, <1>k, <1>x, <1>h DEF IInv, TypeOK, Phases
<1>q. par' \in ParentStates
  BY <1>n, <1>p DEF IInv, TypeOK, ParentStates, PCs, Touched
<1>i. /\ lastDepObjId' \in 0 .. MaxDepObjId /\ Created \subseteq Created'
      /\ lastDepObjId + 1 \in Created' /\ lastDepObjId + 1 \notin Created
      /\ lastDepObjId + 1 # NULL
  BY <1>n, NextIdentifier
<1>y. /\ \A b \in Addr : lastWriter[b] # lastDepObjId + 1 /\ commDO[b] # lastDepObjId + 1
      /\ \A b \in Addr : lastDepObjId + 1 \notin readers[b]
      /\ \A o \in Obj : checked[o] # lastDepObjId + 1 /\ lastDepObjId + 1 \notin batch[o]
      /\ ~ submitted[lastDepObjId + 1]
  BY <1>n, <1>i DEF IInv, Fresh
<1>1. TypeOK'
  BY <1>u, <1>n, <1>i, <1>t, <1>v, <1>q DEF IInv, TypeOK
<1>2. ParentOK'
  BY <1>u, <1>n, <1>k, <1>p DEF IInv, TypeOK, ParentStates, ParentOK, Mode, AtAccess,
     AtGroup, Submitting
<1>3. CreatingOK'
  BY <1>u, <1>n, <1>k, <1>h, <1>p, <1>y DEF IInv, TypeOK, ParentStates, CreatingOK,
     Submitting
<1>4. WaitOK'
  BY <1>u, <1>n, <1>k, <1>x, WaitAssumption DEF IInv, TypeOK, WaitOK
<1>5. Fresh'
  BY <1>u, <1>p, <1>i DEF IInv, TypeOK, ParentStates, Fresh
<1>6. BatchOK'
  BY <1>u, <1>n, <1>k, <1>h, <1>y DEF IInv, TypeOK, BatchOK
<1>7. WriterOK'
  BY <1>u, <1>n, <1>k, <1>h, <1>y DEF IInv, TypeOK, WriterOK, Registered
<1>8. ReaderOK'
  BY <1>u, <1>n, <1>k, <1>h, <1>y DEF IInv, TypeOK, ReaderOK, Registered
<1>9. GroupOK'
  BY <1>u, <1>n, <1>k, <1>h, <1>y DEF IInv, TypeOK, GroupOK
<1> QED
  BY <1>1, <1>2, <1>3, <1>4, <1>5, <1>6, <1>7, <1>8, <1>9 DEF IInv

\* Entering waitOn.
LEMMA CreateWaitStep == ASSUME IInv, NEW x \in WaitMenu, Create("wait", x) PROVE IInv'
<1>u. UNCHANGED <<succ, writes, reads, submitted, lastWriter, readers, commDO, owner,
        tasksInGraph, unread, cursor, checked, batch, caller>>
  BY DEF Create, graph, targets, domain, loops
<1>n. /\ lastDepObjId + 1 \in Obj /\ lastDepObjId' = lastDepObjId + 1
      /\ tasks' \in 0 .. MaxTasks
  BY IdsNeededPositive, BoundsAssumption, MenuAssumption DEF IInv, TypeOK, Create,
     WithinBounds, Obj
<1>k. kind' = [kind EXCEPT ![lastDepObjId + 1] = "wait"]
  BY DEF Create
<1>x. acc' = [acc EXCEPT ![lastDepObjId + 1] = x] /\ x \in Accesses
  BY MenuAssumption DEF Create
<1>h. phase' = [phase EXCEPT ![lastDepObjId + 1] = "creating"]
  BY DEF Create
<1>t. numPred' \in [Obj -> Int] /\ components' \in Int
  BY <1>n DEF Create, IInv, TypeOK
<1>p. par' = [par EXCEPT !.pc = "next", !.cur = lastDepObjId + 1, !.todo = Touched(x)]
  BY DEF Create
<1>v. /\ kind' \in [Obj -> {"submit", "wait", "comm"}]
      /\ acc' \in [Obj -> Accesses] /\ phase' \in [Obj -> Phases]
  BY <1>n, <1>k, <1>x, <1>h DEF IInv, TypeOK, Phases
<1>q. par' \in ParentStates
  BY <1>n, <1>p DEF IInv, TypeOK, ParentStates, PCs, Touched
<1>i. /\ lastDepObjId' \in 0 .. MaxDepObjId /\ Created \subseteq Created'
      /\ lastDepObjId + 1 \in Created' /\ lastDepObjId + 1 \notin Created
      /\ lastDepObjId + 1 # NULL
  BY <1>n, NextIdentifier
<1>y. /\ \A b \in Addr : lastWriter[b] # lastDepObjId + 1 /\ commDO[b] # lastDepObjId + 1
      /\ \A b \in Addr : lastDepObjId + 1 \notin readers[b]
      /\ \A o \in Obj : checked[o] # lastDepObjId + 1 /\ lastDepObjId + 1 \notin batch[o]
      /\ ~ submitted[lastDepObjId + 1]
  BY <1>n, <1>i DEF IInv, Fresh
<1>1. TypeOK'
  BY <1>u, <1>n, <1>i, <1>t, <1>v, <1>q DEF IInv, TypeOK
<1>2. ParentOK'
  BY <1>u, <1>n, <1>k, <1>p DEF IInv, TypeOK, ParentStates, ParentOK, Mode, AtAccess,
     AtGroup, Submitting
<1>3. CreatingOK'
  BY <1>u, <1>n, <1>k, <1>h, <1>p, <1>y DEF IInv, TypeOK, ParentStates, CreatingOK,
     Submitting
<1>4. WaitOK'
  BY <1>u, <1>n, <1>k, <1>x, WaitAssumption DEF IInv, TypeOK, WaitOK
<1>5. Fresh'
  BY <1>u, <1>p, <1>i DEF IInv, TypeOK, ParentStates, Fresh
<1>6. BatchOK'
  BY <1>u, <1>n, <1>k, <1>h, <1>y DEF IInv, TypeOK, BatchOK
<1>7. WriterOK'
  BY <1>u, <1>n, <1>k, <1>h, <1>y DEF IInv, TypeOK, WriterOK, Registered
<1>8. ReaderOK'
  BY <1>u, <1>n, <1>k, <1>h, <1>y DEF IInv, TypeOK, ReaderOK, Registered
<1>9. GroupOK'
  BY <1>u, <1>n, <1>k, <1>h, <1>y DEF IInv, TypeOK, GroupOK
<1> QED
  BY <1>1, <1>2, <1>3, <1>4, <1>5, <1>6, <1>7, <1>8, <1>9 DEF IInv

\* Opening a group.
LEMMA OpenGroupStep == ASSUME IInv, OpenGroup PROVE IInv'
<1>u. UNCHANGED <<tasks, reads, submitted, lastWriter, readers, owner, components,
        tasksInGraph, unread, cursor, checked, batch, caller>>
  BY DEF OpenGroup, identity, targets, domain, loops
<1>a. /\ par.cur \in Obj /\ par.addr \in Addr /\ Mode \in GroupModes
      /\ kind[par.cur] = "submit" /\ phase[par.cur] = "creating" /\ par.pc = "target"
  BY DEF IInv, TypeOK, ParentOK, CreatingOK, WaitOK, Mode, AtAccess, AtGroup,
     Submitting, ParentMoves, OpenGroup
<1>n. lastDepObjId + 1 \in Obj /\ lastDepObjId' = lastDepObjId + 1
  BY DEF NewComm, OpenGroup
<1>k. kind' = [kind EXCEPT ![lastDepObjId + 1] = "comm"]
  BY DEF NewComm, OpenGroup
<1>g. [NoAccess EXCEPT ![par.addr] = Mode] \in Accesses
  BY <1>a DEF IInv, TypeOK, Accesses, NoAccess, Mode, GroupModes, Modes
<1>x. \E x \in Accesses : acc' = [acc EXCEPT ![lastDepObjId + 1] = x]
  BY <1>g DEF NewComm, OpenGroup
<1>h. phase' = [phase EXCEPT ![lastDepObjId + 1] = "waiting"]
  BY DEF NewComm, OpenGroup
<1>w. writes' = [writes EXCEPT ![lastDepObjId + 1] = {par.addr}]
  BY DEF NewComm, OpenGroup
<1>v. /\ kind' \in [Obj -> {"submit", "wait", "comm"}]
      /\ acc' \in [Obj -> Accesses]
  BY <1>n, <1>k, <1>x DEF IInv, TypeOK
<1>t. phase' \in [Obj -> Phases] /\ writes' \in [Obj -> SUBSET Addr]
  BY <1>a, <1>n, <1>h, <1>w DEF IInv, TypeOK, Phases
<1>i. /\ lastDepObjId' \in 0 .. MaxDepObjId /\ Created \subseteq Created'
      /\ lastDepObjId + 1 \in Created' /\ lastDepObjId + 1 \notin Created
      /\ lastDepObjId + 1 # NULL
  BY <1>n, NextIdentifier
<1>y. /\ \A b \in Addr : lastWriter[b] # lastDepObjId + 1 /\ commDO[b] # lastDepObjId + 1
      /\ \A b \in Addr : lastDepObjId + 1 \notin readers[b]
      /\ \A o \in Obj : checked[o] # lastDepObjId + 1 /\ lastDepObjId + 1 \notin batch[o]
      /\ ~ submitted[lastDepObjId + 1] /\ par.cur # lastDepObjId + 1
  BY <1>n, <1>i DEF IInv, Fresh
<1>p. par' = [par EXCEPT !.pc = "lookup"]
  BY DEF OpenGroup, Goto
<1>c. commDO' = [commDO EXCEPT ![par.addr] = lastDepObjId + 1]
  BY DEF OpenGroup
<1>s. succ' = [succ EXCEPT ![par.cur] = @ \cup {lastDepObjId + 1}]
  BY DEF OpenGroup
<1>b. /\ numPred' \in [Obj -> Int] /\ succ' \in [Obj -> SUBSET Obj]
      /\ commDO' \in [Addr -> Obj \cup {NULL}]
  BY <1>a, <1>n, <1>c, <1>s DEF OpenGroup, NewComm, FirstPredecessors, IInv, TypeOK
<1>1. TypeOK'
  BY <1>u, <1>i, <1>v, <1>t, <1>b, <1>p DEF IInv, TypeOK, ParentStates, PCs
<1>2. ParentOK'
  BY <1>u, <1>a, <1>n, <1>k, <1>x, <1>y, <1>p DEF IInv, TypeOK, ParentStates, ParentOK,
     Mode, AtAccess, AtGroup, Submitting
<1>3. CreatingOK'
  BY <1>u, <1>n, <1>k, <1>h, <1>y, <1>a, <1>p DEF IInv, TypeOK, ParentStates,
     CreatingOK, Submitting
<1>4. WaitOK'
  BY <1>u, <1>n, <1>k, <1>x DEF IInv, TypeOK, WaitOK
<1>5. Fresh'
  BY <1>u, <1>a, <1>i, <1>s, <1>c, <1>p DEF IInv, TypeOK, ParentStates, Fresh
<1>6. BatchOK'
  BY <1>u, <1>n, <1>k, <1>h, <1>y DEF IInv, TypeOK, BatchOK
<1>7. WriterOK'
  BY <1>u, <1>n, <1>k, <1>h, <1>y, <1>w DEF IInv, TypeOK, WriterOK, Registered
<1>8. ReaderOK'
  BY <1>u, <1>n, <1>k, <1>h, <1>y DEF IInv, TypeOK, ReaderOK, Registered
<1>9. GroupOK'
  BY <1>u, <1>n, <1>k, <1>h, <1>y, <1>a, <1>c, <1>w DEF IInv, TypeOK, GroupOK
<1> QED
  BY <1>1, <1>2, <1>3, <1>4, <1>5, <1>6, <1>7, <1>8, <1>9 DEF IInv

\* Putting an initial CommutationDO behind the readers.
LEMMA SetUpInitialCommStep == ASSUME IInv, SetUpInitialComm PROVE IInv'
<1>u. UNCHANGED <<tasks, reads, submitted, commDO, owner, components, tasksInGraph,
        unread, cursor, checked, batch, caller>>
  BY DEF SetUpInitialComm, identity, targets, domain, loops
<1>a. /\ par.cur \in Obj /\ par.addr \in Addr /\ Mode \in GroupModes
      /\ kind[par.cur] = "submit" /\ phase[par.cur] = "creating" /\ par.pc = "initReaders"
  BY DEF IInv, TypeOK, ParentOK, CreatingOK, WaitOK, Mode, AtAccess, AtGroup,
     Submitting, ParentMoves, SetUpInitialComm
<1>n. lastDepObjId + 1 \in Obj /\ lastDepObjId' = lastDepObjId + 1
  BY DEF NewComm, SetUpInitialComm
<1>k. kind' = [kind EXCEPT ![lastDepObjId + 1] = "comm"]
  BY DEF NewComm, SetUpInitialComm
<1>g. [NoAccess EXCEPT ![par.addr] = Mode] \in Accesses
  BY <1>a DEF IInv, TypeOK, Accesses, NoAccess, Mode, GroupModes, Modes
<1>x. \E x \in Accesses : acc' = [acc EXCEPT ![lastDepObjId + 1] = x]
  BY <1>g DEF NewComm, SetUpInitialComm
<1>h. phase' = [phase EXCEPT ![lastDepObjId + 1] = "waiting"]
  BY DEF NewComm, SetUpInitialComm
<1>w. writes' = [writes EXCEPT ![lastDepObjId + 1] = {par.addr}]
  BY DEF NewComm, SetUpInitialComm
<1>v. /\ kind' \in [Obj -> {"submit", "wait", "comm"}]
      /\ acc' \in [Obj -> Accesses]
  BY <1>n, <1>k, <1>x DEF IInv, TypeOK
<1>t. phase' \in [Obj -> Phases] /\ writes' \in [Obj -> SUBSET Addr]
  BY <1>a, <1>n, <1>h, <1>w DEF IInv, TypeOK, Phases
<1>i. /\ lastDepObjId' \in 0 .. MaxDepObjId /\ Created \subseteq Created'
      /\ lastDepObjId + 1 \in Created' /\ lastDepObjId + 1 \notin Created
      /\ lastDepObjId + 1 # NULL
  BY <1>n, NextIdentifier
<1>y. /\ \A b \in Addr : lastWriter[b] # lastDepObjId + 1 /\ commDO[b] # lastDepObjId + 1
      /\ \A b \in Addr : lastDepObjId + 1 \notin readers[b]
      /\ \A o \in Obj : checked[o] # lastDepObjId + 1 /\ lastDepObjId + 1 \notin batch[o]
      /\ ~ submitted[lastDepObjId + 1] /\ par.cur # lastDepObjId + 1
  BY <1>n, <1>i DEF IInv, Fresh
<1>p. par' = [par EXCEPT !.pc = "target", !.init = lastDepObjId + 1]
  BY DEF SetUpInitialComm
<1>c. /\ lastWriter' = [lastWriter EXCEPT ![par.addr] = lastDepObjId + 1]
      /\ readers' = [readers EXCEPT ![par.addr] = {}]
  BY DEF SetUpInitialComm
<1>s. \A q \in Obj : succ'[q] \subseteq succ[q] \cup {lastDepObjId + 1}
  BY DEF SetUpInitialComm
<1>z. Cardinality(readers[par.addr]) \in Nat
  BY <1>a, ObjFinite DEF IInv, TypeOK
<1>b. numPred' \in [Obj -> Int] /\ succ' \in [Obj -> SUBSET Obj]
  BY <1>a, <1>n, <1>z DEF SetUpInitialComm, NewComm, IInv, TypeOK
<1>d. /\ lastWriter' \in [Addr -> Obj \cup {NULL}] /\ readers' \in [Addr -> SUBSET Obj]
  BY <1>a, <1>n, <1>c DEF IInv, TypeOK
<1>1. TypeOK'
  BY <1>u, <1>i, <1>n, <1>v, <1>t, <1>b, <1>d, <1>p DEF IInv, TypeOK, ParentStates, PCs
<1>2. ParentOK'
  BY <1>u, <1>a, <1>n, <1>k, <1>x, <1>y, <1>p DEF IInv, TypeOK, ParentStates, ParentOK,
     Mode, AtAccess, AtGroup, Submitting
<1>3. CreatingOK'
  BY <1>u, <1>n, <1>k, <1>h, <1>y, <1>a, <1>p DEF IInv, TypeOK, ParentStates,
     CreatingOK, Submitting
<1>4. WaitOK'
  BY <1>u, <1>n, <1>k, <1>x DEF IInv, TypeOK, WaitOK
<1>5. Fresh'
  BY <1>u, <1>a, <1>i, <1>s, <1>c, <1>p DEF IInv, TypeOK, ParentStates, Fresh
<1>6. BatchOK'
  BY <1>u, <1>n, <1>k, <1>h, <1>y DEF IInv, TypeOK, BatchOK
<1>7. WriterOK'
  BY <1>u, <1>n, <1>k, <1>h, <1>y, <1>a, <1>c, <1>w DEF IInv, TypeOK, WriterOK,
     Registered
<1>8. ReaderOK'
  BY <1>u, <1>n, <1>k, <1>h, <1>y, <1>c DEF IInv, TypeOK, ReaderOK, Registered
<1>9. GroupOK'
  BY <1>u, <1>n, <1>k, <1>h, <1>y, <1>w DEF IInv, TypeOK, GroupOK
<1> QED
  BY <1>1, <1>2, <1>3, <1>4, <1>5, <1>6, <1>7, <1>8, <1>9 DEF IInv

\* Joining a group.
LEMMA JoinGroupStep == ASSUME IInv, JoinGroup PROVE IInv'
<1>u. UNCHANGED <<lastDepObjId, kind, acc, tasks, phase, writes, reads, submitted,
        lastWriter, readers, commDO, owner, components, tasksInGraph, unread, cursor,
        checked, batch, caller>>
  BY DEF JoinGroup, identity, targets, domain, loops
<1>e. Created' = Created
  BY <1>u DEF Created
<1>a. /\ par.cur \in Obj /\ par.addr \in Addr /\ par.pc = "target"
      /\ commDO[par.addr] \in Obj /\ commDO[par.addr] \in Created
  BY DEF IInv, TypeOK, ParentOK, Fresh, AtAccess, Submitting, ParentMoves, JoinGroup
<1>p. par' = [par EXCEPT !.pc = "lookup"]
  BY DEF JoinGroup, Goto
<1>s. succ' = [succ EXCEPT ![par.cur] = @ \cup {commDO[par.addr]}]
  BY DEF JoinGroup
<1>b. numPred' \in [Obj -> Int] /\ succ' \in [Obj -> SUBSET Obj]
  BY <1>a, <1>s DEF JoinGroup, IInv, TypeOK
<1>1. TypeOK'
  BY <1>u, <1>b, <1>p DEF IInv, TypeOK, ParentStates, PCs
<1>2. WaitOK' /\ BatchOK' /\ WriterOK' /\ ReaderOK' /\ GroupOK'
  BY <1>u DEF IInv, WaitOK, BatchOK, WriterOK, ReaderOK, GroupOK
<1>3. ParentOK'
  BY <1>u, <1>p, <1>a DEF IInv, TypeOK, ParentStates, ParentOK, Mode, AtAccess, AtGroup,
     Submitting
<1>4. CreatingOK'
  BY <1>u, <1>p, <1>a DEF IInv, TypeOK, ParentStates, CreatingOK, Submitting
<1>5. Fresh'
  BY <1>u, <1>p, <1>a, <1>s, <1>e DEF IInv, TypeOK, ParentStates, Fresh
<1> QED
  BY <1>1, <1>2, <1>3, <1>4, <1>5 DEF IInv

\* The object is complete.
LEMMA SubmitStep == ASSUME IInv, Submit PROVE IInv'
<1>u. UNCHANGED <<lastDepObjId, kind, acc, tasks, numPred, succ, writes, reads,
        lastWriter, readers, commDO, owner, components, unread, cursor, checked, batch,
        caller>>
  BY DEF Submit, identity, graph, targets, domain, loops
<1>e. Created' = Created
  BY <1>u DEF Created
<1>a. par.cur \in Obj /\ par.pc = "next"
  BY DEF IInv, ParentOK, Submitting, ParentMoves, Submit
<1>k. par.cur \in Created /\ kind[par.cur] \in {"submit", "wait"}
  BY <1>a DEF IInv, Fresh, Obj, NULL, ParentOK, Submitting
<1>p. par' = [par EXCEPT !.pc = "release"]
  BY DEF Submit, Goto
<1>h. phase' = [phase EXCEPT ![par.cur] = "waiting"]
  BY DEF Submit
<1>s. submitted' = [submitted EXCEPT ![par.cur] = TRUE]
  BY DEF Submit
<1>t. /\ tasksInGraph' \in Int /\ phase' \in [Obj -> Phases]
      /\ submitted' \in [Obj -> BOOLEAN]
  BY <1>a, <1>h, <1>s DEF Submit, IInv, TypeOK, Phases
<1>1. TypeOK'
  BY <1>u, <1>t, <1>p DEF IInv, TypeOK, ParentStates, PCs
<1>2. WaitOK'
  BY <1>u DEF IInv, WaitOK
<1>3. ParentOK'
  BY <1>u, <1>p, <1>a DEF IInv, TypeOK, ParentStates, ParentOK, Mode, AtAccess, AtGroup,
     Submitting
<1>4. CreatingOK'
  BY <1>u, <1>p, <1>a, <1>h, <1>s DEF IInv, TypeOK, ParentStates, CreatingOK, Submitting
<1>5. Fresh'
  BY <1>u, <1>p, <1>k, <1>s, <1>e DEF IInv, TypeOK, ParentStates, Fresh
<1>6. BatchOK'
  BY <1>u, <1>a, <1>k, <1>h DEF IInv, TypeOK, BatchOK
<1>7. WriterOK'
  BY <1>u, <1>a, <1>k, <1>h DEF IInv, TypeOK, WriterOK, Registered
<1>8. ReaderOK'
  BY <1>u, <1>a, <1>k, <1>h DEF IInv, TypeOK, ReaderOK, Registered
<1>9. GroupOK'
  BY <1>u, <1>a, <1>k, <1>h DEF IInv, TypeOK, GroupOK
<1> QED
  BY <1>1, <1>2, <1>3, <1>4, <1>5, <1>6, <1>7, <1>8, <1>9 DEF IInv

\* A wait returns.
LEMMA WaitReturnsStep == ASSUME IInv, WaitReturns PROVE IInv'
<1>u. UNCHANGED <<lastDepObjId, kind, acc, tasks, numPred, succ, writes, reads,
        submitted, lastWriter, readers, commDO, owner, components, tasksInGraph, unread,
        cursor, checked, batch, caller>>
  BY DEF WaitReturns, identity, graph, targets, domain, loops
<1>e. Created' = Created
  BY <1>u DEF Created
<1>a. par.cur \in Obj /\ par.pc = "wait" /\ kind[par.cur] = "wait"
  BY DEF IInv, ParentOK, ParentMoves, WaitReturns
<1>p. par' = [par EXCEPT !.pc = "idle"]
  BY DEF WaitReturns, Goto
<1>h. phase' = [phase EXCEPT ![par.cur] = "gone"]
  BY DEF WaitReturns
<1>1. TypeOK'
  BY <1>u, <1>a, <1>h, <1>p DEF IInv, TypeOK, ParentStates, PCs, Phases
<1>2. WaitOK'
  BY <1>u DEF IInv, WaitOK
<1>3. ParentOK'
  BY <1>u, <1>p DEF IInv, TypeOK, ParentStates, ParentOK, Mode, AtAccess, AtGroup,
     Submitting
<1>4. CreatingOK'
  BY <1>u, <1>p, <1>a, <1>h DEF IInv, TypeOK, ParentStates, CreatingOK, Submitting
<1>5. Fresh'
  BY <1>u, <1>p, <1>e DEF IInv, TypeOK, ParentStates, Fresh
<1>6. BatchOK'
  BY <1>u, <1>a, <1>h DEF IInv, TypeOK, BatchOK
<1>7. WriterOK'
  BY <1>u, <1>a, <1>h DEF IInv, TypeOK, WriterOK, Registered
<1>8. ReaderOK'
  BY <1>u, <1>a, <1>h DEF IInv, TypeOK, ReaderOK, Registered
<1>9. GroupOK'
  BY <1>u, <1>a, <1>h DEF IInv, TypeOK, GroupOK
<1> QED
  BY <1>1, <1>2, <1>3, <1>4, <1>5, <1>6, <1>7, <1>8, <1>9 DEF IInv

\* Clearing the domain.
LEMMA ClearDomainStep == ASSUME IInv, ClearDomain PROVE IInv'
<1>u. UNCHANGED <<lastDepObjId, kind, acc, tasks, phase, numPred, succ, writes, reads,
        submitted, commDO, owner, components, tasksInGraph, unread, cursor, checked,
        batch, caller>>
  BY DEF ClearDomain, identity, graph, targets, domain, loops
<1>e. Created' = Created
  BY <1>u DEF Created
<1>p. \E pc \in {"end", "idle"} : par' = [par EXCEPT !.pc = pc]
  BY DEF ClearDomain, Goto
<1>c. lastWriter' = [a \in Addr |-> NULL] /\ readers' = [a \in Addr |-> {}]
  BY DEF ClearDomain
<1>1. TypeOK'
  BY <1>u, <1>c, <1>p DEF IInv, TypeOK, ParentStates, PCs
<1>2. WaitOK' /\ BatchOK' /\ GroupOK'
  BY <1>u DEF IInv, WaitOK, BatchOK, GroupOK
<1>3. ParentOK'
  BY <1>u, <1>p DEF IInv, TypeOK, ParentStates, ParentOK, Mode, AtAccess, AtGroup,
     Submitting
<1>4. CreatingOK'
  BY <1>u, <1>p DEF IInv, TypeOK, ParentStates, CreatingOK, Submitting
<1>5. Fresh'
  BY <1>u, <1>p, <1>c, <1>e DEF IInv, TypeOK, ParentStates, Fresh
<1>6. WriterOK'
  BY <1>u, <1>c DEF IInv, TypeOK, WriterOK, Registered
<1>7. ReaderOK'
  BY <1>u, <1>c DEF IInv, TypeOK, ReaderOK, Registered
<1> QED
  BY <1>1, <1>2, <1>3, <1>4, <1>5, <1>6, <1>7 DEF IInv

\* A task starts.
LEMMA StartStep == ASSUME IInv, NEW t \in Obj, Start(t) PROVE IInv'
<1>u. UNCHANGED <<lastDepObjId, kind, acc, tasks, numPred, succ, writes, reads,
        submitted, lastWriter, readers, commDO, par, components, tasksInGraph, unread,
        cursor, checked, batch, caller>>
  BY DEF Start, identity, graph, targets, domain, loops
<1>h. /\ phase' = [phase EXCEPT ![t] = "running"]
      /\ phase[t] \in {"ready", "held"}
  BY DEF Start
<1>o. owner' \in [Addr -> Obj \cup {NULL}]
  BY DEF Start, Acquire, IInv, TypeOK
<1>1. TypeOK'
  BY <1>u, <1>h, <1>o DEF IInv, TypeOK, Phases
<1>2. ParentOK' /\ WaitOK' /\ Fresh'
  BY <1>u DEF IInv, ParentOK, Mode, WaitOK, Fresh, Created
<1>3. CreatingOK'
  BY <1>u, <1>h DEF IInv, TypeOK, ParentStates, CreatingOK, Submitting
<1>4. BatchOK'
  BY <1>u, <1>h DEF IInv, TypeOK, BatchOK
<1>5. WriterOK'
  BY <1>u, <1>h DEF IInv, TypeOK, WriterOK, Registered
<1>6. ReaderOK'
  BY <1>u, <1>h DEF IInv, TypeOK, ReaderOK, Registered
<1>7. GroupOK'
  BY <1>u, <1>h DEF IInv, TypeOK, GroupOK
<1> QED
  BY <1>1, <1>2, <1>3, <1>4, <1>5, <1>6, <1>7 DEF IInv

\* finishWork takes a successor out of the graph.
LEMMA TakeImmediateSuccessorStep == ASSUME IInv, NEW t \in Obj, NEW s \in Obj,
  TakeImmediateSuccessor(t, s) PROVE IInv'
<1>u. UNCHANGED <<lastDepObjId, kind, acc, tasks, writes, reads, submitted, lastWriter,
        readers, commDO, par, components, unread, cursor, checked, batch, caller>>
  BY DEF TakeImmediateSuccessor, identity, targets, domain, loops
<1>e. Created' = Created
  BY <1>u DEF Created
<1>a. phase[t] = "running" /\ kind[s] = "submit" /\ submitted[s]
  BY DEF TakeImmediateSuccessor, IsImmediateSuccessor
<1>h. phase' = [phase EXCEPT ![t] = "asked", ![s] = "ready"]
  BY DEF TakeImmediateSuccessor
<1>s. succ' = [succ EXCEPT ![t] = @ \ {s}]
  BY DEF TakeImmediateSuccessor
<1>t. /\ owner' \in [Addr -> Obj \cup {NULL}] /\ tasksInGraph' \in Int
      /\ numPred' \in [Obj -> Int]
  BY DEF TakeImmediateSuccessor, Acquire, IInv, TypeOK
<1>1. TypeOK'
  BY <1>u, <1>h, <1>s, <1>t DEF IInv, TypeOK, Phases
<1>2. ParentOK' /\ WaitOK'
  BY <1>u DEF IInv, ParentOK, Mode, WaitOK
<1>3. CreatingOK'
  BY <1>u, <1>a, <1>h DEF IInv, TypeOK, ParentStates, CreatingOK, Submitting, ParentOK
<1>4. Fresh'
  BY <1>u, <1>s, <1>e DEF IInv, TypeOK, ParentStates, Fresh
<1>5. BatchOK'
  BY <1>u, <1>a, <1>h DEF IInv, TypeOK, BatchOK
<1>6. WriterOK'
  BY <1>u, <1>a, <1>h DEF IInv, TypeOK, WriterOK, Registered
<1>7. ReaderOK'
  BY <1>u, <1>a, <1>h DEF IInv, TypeOK, ReaderOK, Registered
<1>8. GroupOK'
  BY <1>u, <1>a, <1>h DEF IInv, TypeOK, GroupOK
<1> QED
  BY <1>1, <1>2, <1>3, <1>4, <1>5, <1>6, <1>7, <1>8 DEF IInv

\* A thread holds a successor.
LEMMA HoldImmediateSuccessorStep == ASSUME IInv, NEW t \in Obj, NEW s \in Obj,
  HoldImmediateSuccessor(t, s) PROVE IInv'
<1>u. UNCHANGED <<lastDepObjId, kind, acc, tasks, numPred, succ, writes, reads,
        lastWriter, readers, commDO, par, components, unread, cursor, checked, batch,
        caller>>
  BY DEF HoldImmediateSuccessor, identity, graph, targets, domain, loops
<1>e. Created' = Created
  BY <1>u DEF Created
<1>a. kind[s] = "submit" /\ submitted[s]
  BY DEF HoldImmediateSuccessor, IsImmediateSuccessor
<1>h. phase' = [phase EXCEPT ![s] = "held"]
  BY DEF HoldImmediateSuccessor
<1>s. submitted' = [submitted EXCEPT ![s] = FALSE]
  BY DEF HoldImmediateSuccessor, DisableSubmission
<1>t. owner' \in [Addr -> Obj \cup {NULL}] /\ tasksInGraph' \in Int
  BY DEF HoldImmediateSuccessor, Acquire, IInv, TypeOK
<1>1. TypeOK'
  BY <1>u, <1>h, <1>s, <1>t DEF IInv, TypeOK, Phases
<1>2. ParentOK' /\ WaitOK'
  BY <1>u DEF IInv, ParentOK, Mode, WaitOK
<1>3. CreatingOK'
  BY <1>u, <1>a, <1>h, <1>s DEF IInv, TypeOK, ParentStates, CreatingOK, Submitting,
     ParentOK
<1>4. Fresh'
  BY <1>u, <1>s, <1>e DEF IInv, TypeOK, ParentStates, Fresh
<1>5. BatchOK'
  BY <1>u, <1>a, <1>h DEF IInv, TypeOK, BatchOK
<1>6. WriterOK'
  BY <1>u, <1>a, <1>h DEF IInv, TypeOK, WriterOK, Registered
<1>7. ReaderOK'
  BY <1>u, <1>a, <1>h DEF IInv, TypeOK, ReaderOK, Registered
<1>8. GroupOK'
  BY <1>u, <1>a, <1>h DEF IInv, TypeOK, GroupOK
<1> QED
  BY <1>1, <1>2, <1>3, <1>4, <1>5, <1>6, <1>7, <1>8 DEF IInv

\* Advance keeps the types and leaves other objects alone.
LEMMA AdvanceType ==
  ASSUME TypeOK, NEW o \in Obj, NEW W, NEW R \in SUBSET Addr, Advance(o, W, R)
  PROVE  /\ phase' \in [Obj -> Phases] /\ unread' \in [Obj -> SUBSET Addr]
         /\ cursor' \in [Obj -> SUBSET Obj]
         /\ \A p \in Obj : p # o => phase'[p] = phase[p] /\ unread'[p] = unread[p]
         /\ \A p \in Obj : cursor'[p] \subseteq cursor[p] \cup succ[p]
         /\ unread'[o] = R
         /\ phase'[o] = IF W # {} THEN "unregister"
                        ELSE IF R # {} THEN "unread" ELSE "release"
<1>1. phase' \in [Obj -> Phases] /\ unread' \in [Obj -> SUBSET Addr]
  BY DEF Advance, TypeOK, Phases
<1>2. /\ cursor' \in [Obj -> SUBSET Obj]
      /\ \A p \in Obj : cursor'[p] \subseteq cursor[p] \cup succ[p]
  BY DEF Advance, TypeOK
<1>3. /\ \A p \in Obj : p # o => phase'[p] = phase[p] /\ unread'[p] = unread[p]
      /\ unread'[o] = R
      /\ phase'[o] = IF W # {} THEN "unregister"
                     ELSE IF R # {} THEN "unread" ELSE "release"
  BY DEF Advance, TypeOK
<1> QED
  BY <1>1, <1>2, <1>3

\* A task enters finished().
LEMMA DoneStep == ASSUME IInv, NEW t \in Obj, Done(t) PROVE IInv'
<1>u. UNCHANGED <<lastDepObjId, kind, acc, tasks, numPred, succ, writes, reads,
        submitted, lastWriter, readers, commDO, par, components, tasksInGraph, checked,
        batch, caller>>
  BY DEF Done, identity, graph, targets, domain, loops
<1>e. Created' = Created
  BY <1>u DEF Created
<1>a. phase[t] \in {"running", "asked"} /\ reads[t] \in SUBSET Addr
  BY DEF Done, IInv, TypeOK
<1>w. owner' \in [Addr -> Obj \cup {NULL}]
  BY DEF Done, IInv, TypeOK
<1>t. /\ phase' \in [Obj -> Phases] /\ unread' \in [Obj -> SUBSET Addr]
      /\ cursor' \in [Obj -> SUBSET Obj]
  BY <1>a, AdvanceType DEF Done, IInv
<1>h. \A p \in Obj : p # t => phase'[p] = phase[p] /\ unread'[p] = unread[p]
  BY <1>a, AdvanceType DEF Done, IInv
<1>c. \A p \in Obj : cursor'[p] \subseteq cursor[p] \cup succ[p]
  BY <1>a, AdvanceType DEF Done, IInv
<1>o. /\ unread'[t] = reads[t]
      /\ phase'[t] = IF writes[t] # {} THEN "unregister"
                      ELSE IF reads[t] # {} THEN "unread" ELSE "release"
  BY <1>a, AdvanceType DEF Done, IInv
<1>1. TypeOK'
  BY <1>u, <1>t, <1>w DEF IInv, TypeOK
<1>2. ParentOK' /\ WaitOK'
  BY <1>u DEF IInv, ParentOK, Mode, WaitOK
<1>3. CreatingOK'
  BY <1>u, <1>a, <1>h, <1>o DEF IInv, TypeOK, ParentStates, CreatingOK, Submitting,
     ParentOK
<1>4. Fresh'
  BY <1>u, <1>c, <1>e DEF IInv, TypeOK, ParentStates, Fresh
<1>5. BatchOK'
  BY <1>u, <1>a, <1>h, <1>o DEF IInv, TypeOK, BatchOK
<1>6. WriterOK'
  BY <1>u, <1>a, <1>h, <1>o DEF IInv, TypeOK, WriterOK, Registered
<1>7. ReaderOK'
  BY <1>u, <1>a, <1>h, <1>o DEF IInv, TypeOK, ReaderOK, Registered
<1>8. GroupOK'
  BY <1>u, <1>a, <1>h, <1>o DEF IInv, TypeOK, GroupOK
<1> QED
  BY <1>1, <1>2, <1>3, <1>4, <1>5, <1>6, <1>7, <1>8 DEF IInv

\* A CommutationDO enters finished().
LEMMA RemoveCommDOStep == ASSUME IInv, NEW c \in Obj, RemoveCommDO(c) PROVE IInv'
<1>u. UNCHANGED <<lastDepObjId, kind, acc, tasks, numPred, succ, writes, reads,
        submitted, lastWriter, readers, owner, par, components, tasksInGraph, checked,
        batch, caller>>
  BY DEF RemoveCommDO, identity, graph, targets, domain, loops
<1>e. Created' = Created
  BY <1>u DEF Created
<1>a. phase[c] = "satisfied" /\ kind[c] = "comm" /\ reads[c] \in SUBSET Addr
  BY DEF RemoveCommDO, Moves, IInv, TypeOK
<1>d. commDO' = [a \in Addr |-> IF commDO[a] = c THEN NULL ELSE commDO[a]]
  BY DEF RemoveCommDO
<1>t. /\ phase' \in [Obj -> Phases] /\ unread' \in [Obj -> SUBSET Addr]
      /\ cursor' \in [Obj -> SUBSET Obj]
  BY <1>a, AdvanceType DEF RemoveCommDO, IInv
<1>h. \A p \in Obj : p # c => phase'[p] = phase[p] /\ unread'[p] = unread[p]
  BY <1>a, AdvanceType DEF RemoveCommDO, IInv
<1>c. \A p \in Obj : cursor'[p] \subseteq cursor[p] \cup succ[p]
  BY <1>a, AdvanceType DEF RemoveCommDO, IInv
<1>o. /\ unread'[c] = reads[c]
      /\ phase'[c] = IF writes[c] # {} THEN "unregister"
                      ELSE IF reads[c] # {} THEN "unread" ELSE "release"
  BY <1>a, AdvanceType DEF RemoveCommDO, IInv
<1>1. TypeOK'
  BY <1>u, <1>t, <1>d DEF IInv, TypeOK
<1>2. ParentOK' /\ WaitOK'
  BY <1>u DEF IInv, ParentOK, Mode, WaitOK
<1>3. CreatingOK'
  BY <1>u, <1>a, <1>h, <1>o DEF IInv, TypeOK, ParentStates, CreatingOK, Submitting,
     ParentOK
<1>4. Fresh'
  BY <1>u, <1>c, <1>d, <1>e DEF IInv, TypeOK, ParentStates, Fresh
<1>5. BatchOK'
  BY <1>u, <1>a, <1>h, <1>o DEF IInv, TypeOK, BatchOK
<1>6. WriterOK'
  BY <1>u, <1>a, <1>h, <1>o DEF IInv, TypeOK, WriterOK, Registered
<1>7. ReaderOK'
  BY <1>u, <1>a, <1>h, <1>o DEF IInv, TypeOK, ReaderOK, Registered
<1>8. GroupOK'
  BY <1>u, <1>a, <1>d, <1>h, <1>o DEF IInv, TypeOK, GroupOK
<1> QED
  BY <1>1, <1>2, <1>3, <1>4, <1>5, <1>6, <1>7, <1>8 DEF IInv

\* An object gives up the addresses it writes.
LEMMA DeleteLastWriterStep == ASSUME IInv, NEW o \in Obj, DeleteLastWriter(o) PROVE
  IInv'
<1>u. UNCHANGED <<lastDepObjId, kind, acc, tasks, numPred, succ, writes, reads,
        submitted, readers, commDO, owner, par, components, tasksInGraph, checked,
        batch, caller>>
  BY DEF DeleteLastWriter, identity, graph, targets, domain, loops
<1>e. Created' = Created
  BY <1>u DEF Created
<1>a. phase[o] = "unregister" /\ reads[o] \in SUBSET Addr
  BY DEF DeleteLastWriter, Moves, IInv, TypeOK
<1>l. lastWriter' = [a \in Addr |-> IF a \in writes[o] /\ lastWriter[a] = o
              THEN NULL ELSE lastWriter[a]]
  BY DEF DeleteLastWriter
<1>t. /\ phase' \in [Obj -> Phases] /\ unread' \in [Obj -> SUBSET Addr]
      /\ cursor' \in [Obj -> SUBSET Obj]
  BY <1>a, AdvanceType DEF DeleteLastWriter, IInv
<1>h. \A p \in Obj : p # o => phase'[p] = phase[p] /\ unread'[p] = unread[p]
  BY <1>a, AdvanceType DEF DeleteLastWriter, IInv
<1>c. \A p \in Obj : cursor'[p] \subseteq cursor[p] \cup succ[p]
  BY <1>a, AdvanceType DEF DeleteLastWriter, IInv
<1>o. /\ unread'[o] = reads[o]
      /\ phase'[o] = IF reads[o] # {} THEN "unread" ELSE "release"
  BY <1>a, AdvanceType DEF DeleteLastWriter, IInv
<1>1. TypeOK'
  BY <1>u, <1>t, <1>l DEF IInv, TypeOK
<1>2. ParentOK' /\ WaitOK'
  BY <1>u DEF IInv, ParentOK, Mode, WaitOK
<1>3. CreatingOK'
  BY <1>u, <1>a, <1>h, <1>o DEF IInv, TypeOK, ParentStates, CreatingOK, Submitting,
     ParentOK
<1>4. Fresh'
  BY <1>u, <1>c, <1>l, <1>e DEF IInv, TypeOK, ParentStates, Fresh
<1>5. BatchOK'
  BY <1>u, <1>a, <1>h, <1>o DEF IInv, TypeOK, BatchOK
<1>6. WriterOK'
  BY <1>u, <1>a, <1>l, <1>h, <1>o DEF IInv, TypeOK, WriterOK, Registered
<1>7. ReaderOK'
  BY <1>u, <1>a, <1>h, <1>o DEF IInv, TypeOK, ReaderOK, Registered
<1>8. GroupOK'
  BY <1>u, <1>a, <1>h, <1>o DEF IInv, TypeOK, GroupOK
<1> QED
  BY <1>1, <1>2, <1>3, <1>4, <1>5, <1>6, <1>7, <1>8 DEF IInv

\* An object leaves one list of readers.
LEMMA DeleteReaderStep == ASSUME IInv, NEW o \in Obj, NEW a \in Addr, DeleteReader(o, a)
  PROVE IInv'
<1>u. UNCHANGED <<lastDepObjId, kind, acc, tasks, numPred, succ, writes, reads,
        submitted, lastWriter, commDO, owner, par, components, tasksInGraph, checked,
        batch, caller>>
  BY DEF DeleteReader, identity, graph, targets, domain, loops
<1>e. Created' = Created
  BY <1>u DEF Created
<1>a. phase[o] = "unread" /\ unread[o] \ {a} \in SUBSET Addr
  BY DEF DeleteReader, Moves, IInv, TypeOK
<1>r. readers' = [readers EXCEPT ![a] = @ \ {o}]
  BY DEF DeleteReader
<1>t. /\ phase' \in [Obj -> Phases] /\ unread' \in [Obj -> SUBSET Addr]
      /\ cursor' \in [Obj -> SUBSET Obj]
  BY <1>a, AdvanceType DEF DeleteReader, IInv
<1>h. \A p \in Obj : p # o => phase'[p] = phase[p] /\ unread'[p] = unread[p]
  BY <1>a, AdvanceType DEF DeleteReader, IInv
<1>c. \A p \in Obj : cursor'[p] \subseteq cursor[p] \cup succ[p]
  BY <1>a, AdvanceType DEF DeleteReader, IInv
<1>o. /\ unread'[o] = (unread[o] \ {a})
      /\ phase'[o] = IF (unread[o] \ {a}) # {} THEN "unread" ELSE "release"
  BY <1>a, AdvanceType DEF DeleteReader, IInv
<1>1. TypeOK'
  BY <1>u, <1>t, <1>r DEF IInv, TypeOK
<1>2. ParentOK' /\ WaitOK'
  BY <1>u DEF IInv, ParentOK, Mode, WaitOK
<1>3. CreatingOK'
  BY <1>u, <1>a, <1>h, <1>o DEF IInv, TypeOK, ParentStates, CreatingOK, Submitting,
     ParentOK
<1>4. Fresh'
  BY <1>u, <1>c, <1>r, <1>e DEF IInv, TypeOK, ParentStates, Fresh
<1>5. BatchOK'
  BY <1>u, <1>a, <1>h, <1>o DEF IInv, TypeOK, BatchOK
<1>6. WriterOK'
  BY <1>u, <1>a, <1>h, <1>o DEF IInv, TypeOK, WriterOK, Registered
<1>7. ReaderOK'
  BY <1>u, <1>a, <1>r, <1>h, <1>o DEF IInv, TypeOK, ReaderOK, Registered
<1>8. GroupOK'
  BY <1>u, <1>a, <1>h, <1>o DEF IInv, TypeOK, GroupOK
<1> QED
  BY <1>1, <1>2, <1>3, <1>4, <1>5, <1>6, <1>7, <1>8 DEF IInv

\* A successor passes canBeBatchReleased.
LEMMA CheckBatchStep == ASSUME IInv, NEW o \in Obj, NEW s \in Obj, CheckBatch(o, s)
  PROVE IInv'
<1>u. UNCHANGED <<lastDepObjId, kind, acc, tasks, phase, numPred, succ, writes, reads,
        submitted, lastWriter, readers, commDO, owner, par, components, tasksInGraph,
        unread, cursor, batch, caller>>
  BY DEF CheckBatch, identity, graph, targets, domain, loops
<1>e. Created' = Created
  BY <1>u DEF Created
<1>a. kind[s] = "submit" /\ submitted[s] /\ s \in cursor[o]
  BY DEF CheckBatch, BatchCandidate, CanBeBatchReleased
<1>c. checked' = [checked EXCEPT ![o] = s]
  BY DEF CheckBatch
<1>1. TypeOK'
  BY <1>u, <1>c DEF IInv, TypeOK
<1>2. ParentOK' /\ CreatingOK' /\ WaitOK' /\ WriterOK' /\ ReaderOK' /\ GroupOK'
  BY <1>u DEF IInv, ParentOK, Mode, CreatingOK, WaitOK, WriterOK, ReaderOK, GroupOK
<1>3. Fresh'
  BY <1>u, <1>a, <1>c, <1>e DEF IInv, TypeOK, ParentStates, Fresh
<1>4. BatchOK'
  BY <1>u, <1>a, <1>c DEF IInv, TypeOK, BatchOK, CreatingOK
<1> QED
  BY <1>1, <1>2, <1>3, <1>4 DEF IInv

\* A successor joins the batch.
LEMMA BatchReleaseStep == ASSUME IInv, NEW o \in Obj, BatchRelease(o) PROVE IInv'
<1>u. UNCHANGED <<lastDepObjId, kind, acc, tasks, phase, succ, writes, reads, submitted,
        lastWriter, readers, commDO, owner, par, components, tasksInGraph, unread,
        caller>>
  BY DEF BatchRelease, identity, graph, targets, domain, loops
<1>e. Created' = Created
  BY <1>u DEF Created
<1>a. checked[o] \in Obj /\ checked[o] \in Created
  BY DEF BatchRelease, IInv, TypeOK, Fresh
<1>b. batch' = [batch EXCEPT ![o] = @ \cup {checked[o]}]
  BY DEF BatchRelease
<1>d. /\ cursor' = [cursor EXCEPT ![o] = @ \ {checked[o]}]
      /\ checked' = [checked EXCEPT ![o] = NULL]
  BY DEF BatchRelease
<1>n. numPred' \in [Obj -> Int]
  BY DEF BatchRelease, IInv, TypeOK
<1>1. TypeOK'
  BY <1>u, <1>a, <1>b, <1>d, <1>n DEF IInv, TypeOK
<1>2. ParentOK' /\ CreatingOK' /\ WaitOK' /\ WriterOK' /\ ReaderOK' /\ GroupOK'
  BY <1>u DEF IInv, ParentOK, Mode, CreatingOK, WaitOK, WriterOK, ReaderOK, GroupOK
<1>3. Fresh'
  BY <1>u, <1>a, <1>b, <1>d, <1>e DEF IInv, TypeOK, ParentStates, Fresh
<1>4. BatchOK'
  BY <1>u, <1>a, <1>b, <1>d DEF IInv, TypeOK, BatchOK, NULL, Obj
<1> QED
  BY <1>1, <1>2, <1>3, <1>4 DEF IInv

\* An object leaves finished().
LEMMA SubmitBatchStep == ASSUME IInv, NEW o \in Obj, SubmitBatch(o) PROVE IInv'
<1>u. UNCHANGED <<lastDepObjId, kind, acc, tasks, numPred, succ, writes, reads,
        submitted, lastWriter, readers, commDO, owner, par, unread, cursor, checked,
        batch, caller>>
  BY DEF SubmitBatch, identity, graph, targets, domain, loops
<1>a. phase[o] = "release" /\ batch[o] \in SUBSET Obj
  BY DEF SubmitBatch, Moves, IInv, TypeOK
<1>h. phase' = [p \in Obj |-> IF p = o THEN "gone" ELSE
                          IF p \in batch[o] THEN "ready" ELSE phase[p]]
  BY DEF SubmitBatch
<1>t. tasksInGraph' \in Int /\ components' \in Int
  BY <1>a, ObjFinite DEF SubmitBatch, IInv, TypeOK
<1>1. TypeOK'
  BY <1>u, <1>t, <1>h DEF IInv, TypeOK, Phases
<1>2. ParentOK' /\ WaitOK' /\ Fresh'
  BY <1>u DEF IInv, ParentOK, Mode, WaitOK, Fresh, Created
<1>3. CreatingOK'
  BY <1>u, <1>a, <1>h DEF IInv, TypeOK, ParentStates, CreatingOK, Submitting, ParentOK,
     BatchOK
<1>4. BatchOK'
  BY <1>u, <1>a, <1>h DEF IInv, TypeOK, BatchOK
<1>5. WriterOK'
  BY <1>u, <1>a, <1>h DEF IInv, TypeOK, WriterOK, Registered
<1>6. ReaderOK'
  BY <1>u, <1>a, <1>h DEF IInv, TypeOK, ReaderOK, Registered
<1>7. GroupOK'
  BY <1>u, <1>a, <1>h DEF IInv, TypeOK, GroupOK, BatchOK
<1> QED
  BY <1>1, <1>2, <1>3, <1>4, <1>5, <1>6, <1>7 DEF IInv

\* Every step of the parent preserves the invariant.
LEMMA ParentStepIInv == ASSUME IInv, ParentStep PROVE IInv'
  BY CreateTaskStep, CreateWaitStep, NextAccessStep, FinalizeOneReductionStep,
     ReadLastWriterStep, LockLastWriterStep, AddAsReaderStep, SetAsWriterStep,
     LookupReadersStep, SetUpInitialCommStep, CloseOtherGroupStep, OpenGroupStep,
     JoinGroupStep, DropInitialDummyStep, SubmitStep, ReleaseFakeStep, WaitReturnsStep,
     TaskWaitStep, ClearDomainStep
     DEF ParentStep

\* Every step of finished() preserves the invariant.
LEMMA FinishStepIInv == ASSUME IInv, NEW o \in Obj, FinishStep(o) PROVE IInv'
  BY DoneStep, RemoveCommDOStep, DeleteLastWriterStep, DeleteReaderStep, CheckBatchStep,
     ReleaseSuccessorStep, BatchReleaseStep, SubmitBatchStep
     DEF FinishStep

\* So does every step of the system.
LEMMA NextIInv == ASSUME IInv, [Next]_vars PROVE IInv'
<1>1. CASE UNCHANGED vars
  <2>1. UNCHANGED <<lastDepObjId, kind, acc, tasks, phase, numPred, succ, writes, reads,
          submitted, lastWriter, readers, commDO, owner, par, components, tasksInGraph,
          unread, cursor, checked, batch, caller>>
    BY <1>1 DEF vars, identity, graph, targets, domain, loops
  <2>2. TypeOK' /\ ParentOK' /\ CreatingOK' /\ WaitOK'
    BY <2>1 DEF IInv, TypeOK, ParentOK, Mode, CreatingOK, WaitOK
  <2>3. Fresh' /\ BatchOK' /\ WriterOK' /\ ReaderOK' /\ GroupOK'
    BY <2>1 DEF IInv, Fresh, Created, BatchOK, WriterOK, ReaderOK, GroupOK
  <2> QED
    BY <2>2, <2>3 DEF IInv
<1>2. CASE ParentStep
  BY <1>2, ParentStepIInv
<1>3. ASSUME NEW o \in Obj, Start(o) \/ FinishStep(o) PROVE IInv'
  BY <1>3, StartStep, FinishStepIInv
<1>4. ASSUME NEW t \in Obj, NEW s \in Obj,
             TakeImmediateSuccessor(t, s) \/ HoldImmediateSuccessor(t, s)
      PROVE  IInv'
  BY <1>4, TakeImmediateSuccessorStep, HoldImmediateSuccessorStep
<1> QED
  BY <1>1, <1>2, <1>3, <1>4 DEF Next, Terminated

\* The invariant holds in every reachable state, whatever the program, the addresses
\* and the numbers of objects and tasks.
THEOREM Invariance == Spec => []IInv
<1>1. IInv /\ [Next]_vars => IInv'
  BY NextIInv
<1> QED
  BY <1>1, InitIInv, PTL DEF Spec

\* The state always has the shape the code's declarations give it.
THEOREM TypeCorrect == Spec => []TypeOK
<1>1. IInv => TypeOK
  BY DEF IInv
<1> QED
  BY <1>1, Invariance, PTL

-----------------------------------------------------------------------------

\* The successors of the objects finished() may be walking.
Walked == {o \in Obj : phase[o] \in {"release", "gone"}}

\* The parent adds successors only to objects that are still registered.
LEMMA ParentKeepsWalked ==
  ASSUME IInv, ParentStep, NEW o \in Walked PROVE succ'[o] = succ[o]
<1>0. o \in Obj /\ phase[o] \notin Registered /\ phase[o] # "unread"
  BY DEF Walked, Registered
<1>1. CASE LockLastWriter
  <2>1. par.addr \in Addr /\ par.lw \in Obj
    BY <1>1 DEF IInv, ParentOK, AtAccess, Submitting, LockLastWriter, ParentMoves
  <2>2. StillLastWriter => phase[par.lw] \in Registered
    BY <2>1 DEF IInv, WriterOK, StillLastWriter, Obj, NULL
  <2> QED
    BY <1>0, <1>1, <2>2 DEF LockLastWriter, DependOn, graph
<1>2. CASE SetAsWriter
  <2>1. par.addr \in Addr
    BY <1>2 DEF IInv, ParentOK, AtAccess, Submitting, SetAsWriter, ParentMoves
  <2>2. o \notin ReadersBefore
    BY <1>0, <2>1 DEF IInv, ReaderOK, ReadersBefore
  <2> QED
    BY <1>0, <1>2, <2>2 DEF SetAsWriter, DependOn
<1>3. CASE SetUpInitialComm
  <2>1. par.addr \in Addr
    BY <1>3 DEF IInv, ParentOK, AtAccess, Submitting, SetUpInitialComm, ParentMoves
  <2>2. o \notin readers[par.addr]
    BY <1>0, <2>1 DEF IInv, ReaderOK
  <2> QED
    BY <1>0, <1>3, <2>2 DEF SetUpInitialComm
<1>4. CASE OpenGroup \/ JoinGroup
  <2>1. par.cur \in Obj /\ par.addr \in Addr /\ Mode \in GroupModes /\ par.pc = "target"
    BY <1>4 DEF IInv, ParentOK, AtAccess, AtGroup, Submitting, OpenGroup, JoinGroup,
       ParentMoves
  <2>2. phase[par.cur] = "creating"
    BY <2>1 DEF IInv, TypeOK, ParentOK, CreatingOK, WaitOK, Mode, Submitting
  <2>3. o # par.cur
    BY <1>0, <2>2 DEF Registered
  <2>4. \E c : succ' = [succ EXCEPT ![par.cur] = @ \cup {c}]
    BY <1>4 DEF OpenGroup, JoinGroup
  <2> QED
    BY <1>0, <2>3, <2>4 DEF IInv, TypeOK
<1>5. CASE \E a \in Addr : NextAccess(a) \/ FinalizeOneReduction(a)
  BY <1>5, FinalizeType DEF NextAccess, FinalizeOneReduction, graph
<1>6. CASE CloseOtherGroup
  <2>1. par.addr \in Addr
    BY <1>6 DEF IInv, ParentOK, AtAccess, Submitting, CloseOtherGroup, ParentMoves
  <2> QED
    BY <1>6, <2>1, FinalizeType DEF CloseOtherGroup
<1>7. CASE \/ \E x \in TaskMenu : Create("submit", x)
           \/ \E x \in WaitMenu : Create("wait", x)
           \/ ReadLastWriter \/ AddAsReader \/ LookupReaders \/ DropInitialDummy
           \/ Submit \/ ReleaseFake \/ WaitReturns \/ TaskWait \/ ClearDomain
  BY <1>7 DEF Create, ReadLastWriter, AddAsReader, LookupReaders, DropInitialDummy, Submit,
     ReleaseFake, WaitReturns, TaskWait, ClearDomain, graph
<1> QED
  BY <1>1, <1>2, <1>3, <1>4, <1>5, <1>6, <1>7 DEF ParentStep

\* The workers remove successors only from objects that have not entered finished().
LEMMA WorkersKeepWalked ==
  ASSUME IInv, NEW o \in Walked,
         \/ \E p \in Obj : Start(p) \/ FinishStep(p)
         \/ \E t, s \in Obj : TakeImmediateSuccessor(t, s) \/ HoldImmediateSuccessor(t, s)
  PROVE  succ'[o] = succ[o]
<1>1. ASSUME NEW t \in Obj, NEW s \in Obj, TakeImmediateSuccessor(t, s)
      PROVE  succ'[o] = succ[o]
  <2>1. o # t
    BY <1>1 DEF TakeImmediateSuccessor, Walked
  <2> QED
    BY <1>1, <2>1 DEF TakeImmediateSuccessor, Walked, IInv, TypeOK
<1>2. ASSUME NEW t \in Obj, NEW s \in Obj, HoldImmediateSuccessor(t, s)
      PROVE  succ'[o] = succ[o]
  BY <1>2 DEF HoldImmediateSuccessor, graph
<1>3. ASSUME NEW p \in Obj, Start(p) \/ FinishStep(p) PROVE succ'[o] = succ[o]
  BY <1>3 DEF Start, FinishStep, Done, RemoveCommDO, DeleteLastWriter, DeleteReader,
     CheckBatch, ReleaseSuccessor, BatchRelease, SubmitBatch, graph
<1> QED
  BY <1>1, <1>2, <1>3

\* finished() walks the successors without a lock, and may: "any Object that wants to add
\* depObj as a successor has done it before we continue or, alternatively, won't do it".
THEOREM SuccessorsFrozen == Spec => NoLateSuccessor
<1>1. ASSUME IInv, Next, NEW o \in Walked PROVE succ'[o] = succ[o]
  <2>1. CASE ParentStep
    BY <1>1, <2>1, ParentKeepsWalked
  <2>2. CASE \/ \E p \in Obj : Start(p) \/ FinishStep(p)
             \/ \E t, s \in Obj : TakeImmediateSuccessor(t, s) \/ HoldImmediateSuccessor(t, s)
    BY <1>1, <2>2, WorkersKeepWalked
  <2>3. CASE Terminated
    BY <2>3 DEF Terminated, vars, graph
  <2> QED
    BY <1>1, <2>1, <2>2, <2>3 DEF Next
<1>2. IInv /\ [Next]_vars
      => [\A o \in Obj : phase[o] \in {"release", "gone"} => succ'[o] = succ[o]]_vars
  BY <1>1 DEF Walked
<1> QED
  BY <1>2, Invariance, PTL DEF Spec, NoLateSuccessor

-----------------------------------------------------------------------------
(* The counts.                                                             *)

\* Phases of an object that may still wait for predecessors.
Blocked == {"creating", "waiting", "held"}
Finishing == {"unregister", "unread", "release", "gone"}

\* The objects created so far are the ones that are alive or were.
Born == \A o \in Obj : /\ o \in Created <=> phase[o] # "none"
                       /\ phase[o] = "none" => succ[o] = {}

\* Which phases each class of objects goes through.
Lives == \A o \in Obj :
  /\ kind[o] = "comm" => phase[o] \in {"waiting", "satisfied"} \cup Finishing
  /\ kind[o] = "wait" => phase[o] \in {"creating", "waiting", "satisfied", "gone"}
  /\ kind[o] = "submit" => phase[o] # "satisfied"

\* The release loop visits successors, and the one it has checked it has still to visit.
Walk == \A o \in Obj :
  /\ phase[o] # "release" => checked[o] = NULL
  /\ phase[o] \notin {"release", "gone"} => batch[o] = {}
  /\ phase[o] = "release" => cursor[o] \subseteq succ[o]
  /\ checked[o] # NULL => checked[o] \in cursor[o]

\* A group belongs to one address, and a task that is being submitted has joined only
\* groups of the addresses it is through with; so it joins each of them once.  An initial
\* CommutationDO keeps its dummy until the parent is through with the group's access.
Groups ==
  /\ \A a, b \in Addr : commDO[a] # NULL /\ commDO[a] = commDO[b] => a = b
  /\ par.pc \in AtAccess => par.addr \notin par.todo
  /\ par.pc \in Submitting => \A a \in Addr :
       commDO[a] # NULL /\ commDO[a] \in succ[par.cur] =>
         a \notin par.todo /\ ~ (par.pc \in AtGroup /\ a = par.addr)
  /\ par.init # NULL =>
       par.pc \in {"target", "lookup", "lock", "drop"} /\ Mode \in GroupModes

\* Only tasks precede a CommutationDO, and a wait precedes nobody.
EdgeKinds ==
  /\ \A p, o \in Obj : o \in succ[p] /\ kind[o] = "comm" => kind[p] = "submit"
  /\ \A p \in Obj : kind[p] = "wait" => succ[p] = {}

\* One object is under construction at most, and the parent outlives its waits.
Building ==
  /\ par.pc \in Submitting => phase[par.cur] = "creating"
  /\ par.pc = "release" => phase[par.cur] = "waiting"
  /\ \A o \in Obj : phase[o] = "creating" => o = par.cur /\ par.pc \in Submitting
  /\ \A o \in Obj : kind[o] = "wait" /\ phase[o] # "gone" =>
       o = par.cur /\ par.pc \in Submitting \cup {"release", "wait"}

\* Whoever drops the last predecessor submits a task that waits, and not one that is held.
Submission == \A o \in Obj :
  /\ phase[o] = "waiting" /\ kind[o] # "comm" => submitted[o]
  /\ phase[o] \in {"creating", "held"} => ~ submitted[o]

\* Nobody starts or is satisfied with predecessors left.
Zero == \A o \in Obj :
  /\ phase[o] \notin Blocked \cup {"none"} => numPred[o] = 0
  /\ kind[o] = "comm" /\ phase[o] = "waiting" => numPred[o] # 0

\* What canBeBatchReleased saw stays true, and a batched task belongs to one batch.
Batches ==
  /\ \A o \in Obj : checked[o] # NULL =>
       numPred[checked[o]] = 1 /\ phase[checked[o]] = "waiting"
  /\ \A o \in Obj : phase[o] = "release" =>
       \A s \in batch[o] : numPred[s] = 0 /\ phase[s] = "waiting"
  /\ \A o, p \in Obj : o # p /\ phase[o] = "release" /\ phase[p] = "release" =>
       batch[o] \cap batch[p] = {}

\* p has still to give back a predecessor of o.
Edge(p, o) == IF phase[p] = "release" THEN o \in cursor[p]
              ELSE phase[p] \notin {"none", "gone"} /\ o \in succ[p]
Preds(o) == {p \in Obj : Edge(p, o)}

Fake(o) == IF IsFake(o) THEN 1 ELSE 0
Open(o) == IF IsOpen(o) THEN 1 ELSE 0
Initial(o) == IF o = par.init THEN 1 ELSE 0

\* The number of predecessors o should have.
CountOf(o) == Cardinality(Preds(o)) + Fake(o) + Open(o) + Initial(o)
Exact == \A o \in Created : numPred[o] = CountOf(o)

\* What _tasksInGraph and _components count.
InGraph == {o \in Obj : kind[o] # "comm" /\ phase[o] = "waiting"}
Children == {o \in Obj : kind[o] = "submit" /\ phase[o] \notin {"none", "gone"}}
TotalsExact == tasksInGraph = Cardinality(InGraph) /\ components = Cardinality(Children)

\* A CommutationDO that finishes is released inside the call of somebody who is still there.
Callers == \A c \in Obj :
  /\ caller[c] # NULL => kind[c] = "comm" /\ phase[c] # "waiting"
  /\ kind[c] = "comm" /\ phase[c] # "waiting" => caller[c] # NULL
  /\ caller[c] \in Obj /\ phase[c] # "gone" =>
       phase[caller[c]] = "release" /\ kind[caller[c]] = "submit"

\* The owner of a commutative slot named it, and has not given it back.
Owners == \A a \in Addr : owner[a] # NULL =>
  /\ phase[owner[a]] \in {"ready", "held", "running", "asked"}
  /\ acc[owner[a]][a] = Commutative

\* The inductive invariant, on top of IInv.
CInv == /\ Born /\ Lives /\ Walk /\ Groups /\ EdgeKinds /\ Building /\ Submission
        /\ Zero /\ Batches /\ Exact /\ TotalsExact /\ Callers /\ Owners

-----------------------------------------------------------------------------

\* The set of predecessors is finite.
LEMMA PredsFinite == \A o : IsFiniteSet(Preds(o)) /\ Cardinality(Preds(o)) \in Nat
<1>1. \A o : Preds(o) \in SUBSET Obj
  BY DEF Preds
<1> QED
  BY <1>1, ObjFinite

\* Sets of objects that gain or lose one member.
LEMMA OneMore ==
  ASSUME NEW S \in SUBSET Obj, NEW T \in SUBSET Obj, NEW x \in Obj, x \notin S,
         \A p \in Obj : p \in T <=> p \in S \/ p = x
  PROVE  Cardinality(T) = Cardinality(S) + 1
<1>1. T = S \cup {x} /\ IsFiniteSet(S) /\ Cardinality(S) \in Nat
  BY ObjFinite
<1> QED
  BY <1>1, FS_AddElement

\* The predecessors of an object gain or lose one, or do not change.
LEMMA PredsSame ==
  ASSUME NEW o, \A p \in Obj : Edge(p, o)' <=> Edge(p, o)
  PROVE  Cardinality(Preds(o)') = Cardinality(Preds(o))
<1>1. Preds(o)' = Preds(o)
  BY DEF Preds
<1> QED
  BY <1>1

\* A predecessor more.
LEMMA PredsMore ==
  ASSUME NEW o, NEW q \in Obj, ~ Edge(q, o),
         \A p \in Obj : Edge(p, o)' <=> Edge(p, o) \/ p = q
  PROVE  Cardinality(Preds(o)') = Cardinality(Preds(o)) + 1
<1>1. Preds(o) \in SUBSET Obj /\ Preds(o)' \in SUBSET Obj
  BY DEF Preds
<1>2. q \notin Preds(o) /\ \A p \in Obj : p \in Preds(o)' <=> p \in Preds(o) \/ p = q
  BY DEF Preds
<1> QED
  BY <1>1, <1>2, OneMore

\* A predecessor less.
LEMMA PredsLess ==
  ASSUME NEW o, NEW q \in Obj, Edge(q, o),
         \A p \in Obj : Edge(p, o)' <=> Edge(p, o) /\ p # q
  PROVE  Cardinality(Preds(o)') = Cardinality(Preds(o)) - 1
<1>1. Preds(o) \in SUBSET Obj /\ Preds(o)' \in SUBSET Obj
  BY DEF Preds
<1>2. q \notin Preds(o)' /\ \A p \in Obj : p \in Preds(o) <=> p \in Preds(o)' \/ p = q
  BY DEF Preds
<1>3. Cardinality(Preds(o)) = Cardinality(Preds(o)') + 1
  BY <1>1, <1>2, OneMore
<1>4. Cardinality(Preds(o)) \in Nat /\ Cardinality(Preds(o)') \in Nat
  BY <1>1, ObjFinite
<1> QED
  BY <1>3, <1>4

\* An object whose last predecessor is p has no dummy and no other predecessor.
LEMMA LastEdge ==
  ASSUME NEW o, NEW p \in Obj, Edge(p, o)
  PROVE  /\ CountOf(o) \in Nat /\ CountOf(o) >= 1
         /\ CountOf(o) = 1 => /\ ~ IsFake(o) /\ ~ IsOpen(o) /\ o # par.init
                              /\ \A q \in Obj : Edge(q, o) => q = p
<1>1. Preds(o) \in SUBSET Obj /\ p \in Preds(o)
  BY DEF Preds
<1>2. Cardinality(Preds(o)) \in Nat /\ Cardinality(Preds(o) \ {p}) \in Nat
  BY <1>1, ObjFinite
<1>3. Cardinality(Preds(o)) = Cardinality(Preds(o) \ {p}) + 1
  BY <1>1, <1>2, OneMore
<1>4. CountOf(o) \in Nat /\ CountOf(o) >= 1
  BY <1>2, <1>3 DEF CountOf, Fake, Open, Initial
<1>5. ASSUME CountOf(o) = 1
      PROVE  /\ ~ IsFake(o) /\ ~ IsOpen(o) /\ o # par.init
             /\ Cardinality(Preds(o) \ {p}) = 0
  BY <1>2, <1>3, <1>5 DEF CountOf, Fake, Open, Initial
<1>6. ASSUME Cardinality(Preds(o) \ {p}) = 0 PROVE \A q \in Obj : Edge(q, o) => q = p
  <2>1. IsFiniteSet(Preds(o) \ {p})
    BY <1>1, ObjFinite
  <2>2. Preds(o) \ {p} = {}
    BY <1>6, <2>1, FS_EmptySet
  <2> QED
    BY <2>2 DEF Preds
<1> QED
  BY <1>4, <1>5, <1>6

\* An object with a dummy.
LEMMA DummyCounts ==
  ASSUME NEW o, IsFake(o) \/ IsOpen(o) \/ o = par.init
  PROVE  /\ CountOf(o) \in Nat /\ CountOf(o) >= 1
         /\ CountOf(o) = 1 => ~ (\E q \in Obj : Edge(q, o))
<1>1. Cardinality(Preds(o)) \in Nat /\ IsFiniteSet(Preds(o))
  BY PredsFinite
<1>2. CountOf(o) \in Nat /\ CountOf(o) >= 1
  BY <1>1 DEF CountOf, Fake, Open, Initial
<1>3. CountOf(o) = 1 => Cardinality(Preds(o)) = 0
  BY <1>1 DEF CountOf, Fake, Open, Initial
<1>4. Cardinality(Preds(o)) = 0 => Preds(o) = {}
  BY <1>1, FS_EmptySet
<1> QED
  BY <1>2, <1>3, <1>4 DEF Preds

-----------------------------------------------------------------------------

\* The initial state satisfies the invariant.
LEMMA InitCInv == Init => CInv
<1> SUFFICES ASSUME Init PROVE CInv
  OBVIOUS
<1>1. Born /\ Lives /\ Walk /\ EdgeKinds
  BY DEF Init, Born, Created, Obj, Lives, Walk, EdgeKinds
<1>2. Groups /\ Building
  BY DEF Init, Groups, Building, ParStart, AtAccess, Submitting, NULL
<1>3. Submission /\ Zero /\ Batches
  BY DEF Init, Submission, Zero, Batches, Blocked
<1>4. Exact
  BY DEF Init, Exact, Created
<1>5. Callers /\ Owners
  BY DEF Init, Callers, Owners, NULL, Obj
<1>6. InGraph = {} /\ Children = {}
  BY DEF Init, InGraph, Children
<1>7. TotalsExact
  BY <1>6, FS_EmptySet DEF Init, TotalsExact
<1> QED
  BY <1>1, <1>2, <1>3, <1>4, <1>5, <1>7 DEF CInv

\* Identifiers given out are identifiers.
LEMMA CreatedObj == ASSUME IInv PROVE Created \subseteq Obj
BY BoundsAssumption DEF Created, Obj, IInv, TypeOK

\* Whoever has an edge left is blocked.
LEMMA EdgeFacts ==
  ASSUME IInv, CInv, NEW p \in Obj, NEW o \in Obj, Edge(p, o)
  PROVE  /\ o \in Created /\ numPred[o] = CountOf(o)
         /\ numPred[o] \in Nat /\ numPred[o] >= 1 /\ phase[o] \in Blocked
<1>1. o \in Created
  BY DEF Edge, IInv, Fresh
<1>2. numPred[o] = CountOf(o)
  BY <1>1 DEF CInv, Exact
<1>3. CountOf(o) \in Nat /\ CountOf(o) >= 1
  BY LastEdge
<1> QED
  BY <1>1, <1>2, <1>3 DEF CInv, Zero, Born

\* So is whoever has a dummy.
LEMMA DummyFacts ==
  ASSUME IInv, CInv, NEW o \in Obj, IsFake(o) \/ IsOpen(o) \/ o = par.init
  PROVE  /\ o \in Created /\ numPred[o] = CountOf(o)
         /\ numPred[o] \in Nat /\ numPred[o] >= 1 /\ phase[o] \in Blocked
<1>1. o \in Created
  BY DEF IsFake, IsOpen, IInv, Fresh, Obj, NULL
<1>2. numPred[o] = CountOf(o)
  BY <1>1 DEF CInv, Exact
<1>3. CountOf(o) \in Nat /\ CountOf(o) >= 1
  BY DummyCounts
<1> QED
  BY <1>1, <1>2, <1>3 DEF CInv, Zero, Born

\* decreasePredecessors on a blocked object: the last one satisfies it if it waits.
LEMMA DecreaseEffect ==
  ASSUME IInv, CInv, NEW o \in Obj, NEW by, DecreasePredecessors(o, by),
         phase[o] \in Blocked, numPred[o] = 1 => phase[o] # "creating"
  PROVE  /\ \A q \in Obj : q # o => /\ phase'[q] = phase[q] /\ numPred'[q] = numPred[q]
                                    /\ caller'[q] = caller[q]
         /\ numPred'[o] = numPred[o] - 1
         /\ numPred[o] = 1 /\ phase[o] = "waiting" =>
              /\ phase'[o] = IF kind[o] = "submit" THEN "ready" ELSE "satisfied"
              /\ caller'[o] = IF kind[o] = "comm" THEN by ELSE caller[o]
              /\ tasksInGraph' = IF kind[o] = "comm" THEN tasksInGraph ELSE tasksInGraph - 1
         /\ ~ (numPred[o] = 1 /\ phase[o] = "waiting") =>
              phase'[o] = phase[o] /\ caller'[o] = caller[o] /\ tasksInGraph' = tasksInGraph
<1>1. /\ numPred'[o] = numPred[o] - 1
      /\ \A q \in Obj : q # o => numPred'[q] = numPred[q]
  BY DEF DecreasePredecessors, IInv, TypeOK
<1>2. CASE numPred[o] # 1
  BY <1>1, <1>2 DEF DecreasePredecessors
<1>3. CASE numPred[o] = 1 /\ phase[o] = "held"
  <2>1. kind[o] = "submit" /\ ~ submitted[o]
    BY <1>3 DEF CInv, Lives, Submission, Finishing, IInv, TypeOK
  <2> QED
    BY <1>1, <1>3, <2>1 DEF DecreasePredecessors, LeavesGraph
<1>4. CASE numPred[o] = 1 /\ phase[o] = "waiting"
  <2>1. kind[o] # "comm" => submitted[o]
    BY <1>4 DEF CInv, Submission
  <2>2. kind[o] \in {"submit", "wait", "comm"}
    BY DEF IInv, TypeOK
  <2>3. /\ phase' = [phase EXCEPT ![o] = IF kind[o] = "submit" THEN "ready" ELSE "satisfied"]
        /\ caller' = IF kind[o] = "comm" THEN [caller EXCEPT ![o] = by] ELSE caller
        /\ tasksInGraph' = IF kind[o] = "comm" THEN tasksInGraph ELSE tasksInGraph - 1
    BY <1>4, <2>1, <2>2 DEF DecreasePredecessors, LeavesGraph
  <2> QED
    BY <1>1, <1>4, <2>3 DEF IInv, TypeOK
<1> QED
  BY <1>2, <1>3, <1>4 DEF Blocked

\* What dropping a predecessor keeps.
LEMMA DropKeeps ==
  ASSUME IInv, CInv, NEW o \in Obj, NEW by \in Obj \cup {Parent}, DecreasePredecessors(o, by),
         phase[o] \in Blocked, numPred[o] \in Nat, numPred[o] >= 1,
         numPred[o] = 1 => phase[o] # "creating",
         \A q \in Obj : checked[q] # o,
         kind[o] = "comm" /\ by \in Obj => phase[by] = "release" /\ kind[by] = "submit",
         UNCHANGED <<lastDepObjId, kind, acc, succ, submitted, owner, components, checked,
                     batch>>
  PROVE  /\ Born' /\ Lives' /\ EdgeKinds' /\ Submission' /\ Zero' /\ Batches'
         /\ TotalsExact' /\ Callers' /\ Owners'
<1> DEFINE last == numPred[o] = 1 /\ phase[o] = "waiting"
<1>1. /\ \A q \in Obj : q # o => /\ phase'[q] = phase[q] /\ numPred'[q] = numPred[q]
                                 /\ caller'[q] = caller[q]
      /\ numPred'[o] = numPred[o] - 1
      /\ last => /\ phase'[o] = IF kind[o] = "submit" THEN "ready" ELSE "satisfied"
                 /\ caller'[o] = IF kind[o] = "comm" THEN by ELSE caller[o]
                 /\ tasksInGraph' = IF kind[o] = "comm" THEN tasksInGraph
                                    ELSE tasksInGraph - 1
      /\ ~ last => phase'[o] = phase[o] /\ caller'[o] = caller[o]
                   /\ tasksInGraph' = tasksInGraph
  BY DecreaseEffect
<1> HIDE DEF last
<1>l. last <=> numPred[o] = 1 /\ phase[o] = "waiting"
  BY DEF last
<1>k. kind[o] \in {"submit", "wait", "comm"}
  BY DEF IInv, TypeOK
<1>2. Born'
  <2>1. Created' = Created
    BY DEF Created
  <2>2. phase'[o] # "none" /\ phase[o] # "none"
    BY <1>1, <1>l DEF Blocked
  <2> QED
    BY <1>1, <2>1, <2>2 DEF CInv, Born
<1>3. Lives'
  BY <1>1, <1>k DEF CInv, Lives, Finishing
<1>4. EdgeKinds'
  BY DEF CInv, EdgeKinds
<1>5. Submission'
  BY <1>1, <1>l DEF CInv, Submission
<1>6. Zero'
  <2>1. phase'[o] \notin Blocked \cup {"none"} => numPred'[o] = 0
    BY <1>1, <1>l
  <2>2. kind[o] = "comm" /\ phase'[o] = "waiting" => numPred'[o] # 0
    BY <1>1, <1>l
  <2> QED
    BY <1>1, <2>1, <2>2 DEF CInv, Zero
<1>7. Batches'
  <2>1. \A q \in Obj : phase'[q] = "release" <=> phase[q] = "release"
    BY <1>1, <1>l DEF Blocked
  <2>2. \A q \in Obj : checked'[q] # NULL => checked'[q] \in Obj /\ checked'[q] # o
    BY DEF IInv, TypeOK
  <2>3. \A q \in Obj : batch[q] \in SUBSET Obj
    BY DEF IInv, TypeOK
  <2>4. \A q \in Obj : phase[q] = "release" => o \notin batch[q]
    BY DEF CInv, Batches
  <2> QED
    BY <1>1, <2>1, <2>2, <2>3, <2>4 DEF CInv, Batches
<1>8. TotalsExact'
  <2>1. Children' = Children
    BY <1>1, <1>l DEF Children, Blocked
  <2>2. InGraph \in SUBSET Obj /\ InGraph' \in SUBSET Obj
    BY DEF InGraph
  <2>3. Cardinality(InGraph) \in Nat /\ Cardinality(InGraph') \in Nat
    BY <2>2, ObjFinite
  <2>4. CASE last /\ kind[o] # "comm"
    <3>1. o \notin InGraph' /\ \A p \in Obj : p \in InGraph <=> p \in InGraph' \/ p = o
      BY <1>1, <1>l, <2>4 DEF InGraph
    <3>2. Cardinality(InGraph) = Cardinality(InGraph') + 1
      BY <2>2, <3>1, OneMore
    <3> QED
      BY <1>1, <2>1, <2>3, <2>4, <3>2 DEF CInv, TotalsExact
  <2>5. CASE ~ (last /\ kind[o] # "comm")
    <3>1. InGraph' = InGraph
      BY <1>1, <2>5 DEF InGraph
    <3> QED
      BY <1>1, <2>1, <2>5, <3>1 DEF CInv, TotalsExact
  <2> QED
    BY <2>4, <2>5
<1>9. Callers'
  <2>1. by # NULL
    BY DEF NULL, Parent, Obj
  <2>2. \A c \in Obj : caller[c] \in Obj /\ phase[c] # "gone" => caller[c] # o
    BY DEF CInv, Callers, Blocked
  <2>3. by \in Obj /\ kind[o] = "comm" => by # o
    BY DEF Blocked
  <2> QED
    BY <1>1, <1>l, <1>k, <2>1, <2>2, <2>3 DEF CInv, Callers, Blocked
<1>10. Owners'
  <2>1. \A a \in Addr : owner[a] \in Obj \cup {NULL}
    BY DEF IInv, TypeOK
  <2> QED
    BY <1>1, <1>l, <2>1 DEF CInv, Owners
<1> QED
  BY <1>2, <1>3, <1>4, <1>5, <1>6, <1>7, <1>8, <1>9, <1>10

\* Moving on between phases other than none, release and gone keeps the edges.
LEMMA SameEdges ==
  ASSUME \A p \in Obj : /\ succ'[p] = succ[p] /\ cursor'[p] = cursor[p]
                        /\ \/ phase'[p] = phase[p]
                           \/ /\ phase[p] \notin {"none", "release", "gone"}
                              /\ phase'[p] \notin {"none", "release", "gone"}
  PROVE  \A p \in Obj : \A q : Edge(p, q)' <=> Edge(p, q)
BY DEF Edge

\* Without new edges or dummies the counts stay.
LEMMA SameCounts ==
  ASSUME CInv, Created' = Created,
         \A q \in Created : /\ numPred'[q] = numPred[q]
                            /\ \A p \in Obj : Edge(p, q)' <=> Edge(p, q)
                            /\ IsFake(q)' <=> IsFake(q)
                            /\ IsOpen(q)' <=> IsOpen(q)
                            /\ q = par'.init <=> q = par.init
  PROVE  Exact'
<1> SUFFICES ASSUME NEW q \in Created PROVE (numPred[q] = CountOf(q))'
  BY DEF Exact
<1>1. Cardinality(Preds(q)') = Cardinality(Preds(q))
  BY PredsSame
<1>2. Fake(q)' = Fake(q) /\ Open(q)' = Open(q) /\ Initial(q)' = Initial(q)
  BY DEF Fake, Open, Initial
<1> QED
  BY <1>1, <1>2 DEF CInv, Exact, CountOf

\* A task that is checked for a batch has no dummy.
LEMMA DummyUnchecked ==
  ASSUME IInv, CInv, NEW o \in Obj, IsFake(o) \/ IsOpen(o) \/ o = par.init
  PROVE  \A q \in Obj : checked[q] # o
<1> SUFFICES ASSUME NEW q \in Obj, checked[q] = o PROVE FALSE
  OBVIOUS
<1>1. checked[q] # NULL
  BY DEF NULL, Obj
<1>2. phase[q] = "release" /\ o \in cursor[q] /\ numPred[o] = 1
  BY <1>1 DEF CInv, Walk, Batches
<1>3. Edge(q, o)
  BY <1>2 DEF Edge
<1>4. numPred[o] = CountOf(o)
  BY DummyFacts
<1> QED
  BY <1>2, <1>3, <1>4, DummyCounts

\* Closing an open group: its CommutationDO loses the dummy.
LEMMA CloseKeeps ==
  ASSUME IInv, CInv, NEW a \in Addr, commDO[a] # NULL, FinalizeReduction(a),
         UNCHANGED <<lastDepObjId, kind, acc, submitted, owner, components, checked, batch,
                     cursor>>,
         par'.init = par.init, \A q \in Obj : IsFake(q)' <=> IsFake(q)
  PROVE  /\ Born' /\ Lives' /\ Walk' /\ EdgeKinds' /\ Submission' /\ Zero' /\ Batches'
         /\ Exact' /\ TotalsExact' /\ Callers' /\ Owners'
         /\ \A q \in Obj : phase'[q] = phase[q] \/ (kind[q] = "comm" /\ phase'[q] = "satisfied")
<1> DEFINE o == commDO[a]
<1>1. o \in Obj /\ IsOpen(o) /\ kind[o] = "comm"
  BY DEF IInv, TypeOK, GroupOK, IsOpen
<1>2. /\ DecreasePredecessors(o, Parent)
      /\ commDO' = [commDO EXCEPT ![a] = NULL] /\ succ' = succ
  BY DEF FinalizeReduction
<1>c. /\ commDO'[a] = NULL /\ \A b \in Addr : b # a => commDO'[b] = commDO[b]
      /\ \A b \in Addr : commDO[b] = o => b = a
  BY <1>2 DEF IInv, TypeOK, CInv, Groups
<1> HIDE DEF o
<1>3. /\ o \in Created /\ numPred[o] = CountOf(o)
      /\ numPred[o] \in Nat /\ numPred[o] >= 1 /\ phase[o] \in Blocked
      /\ \A q \in Obj : checked[q] # o
  BY <1>1, DummyFacts, DummyUnchecked
<1>4. phase[o] = "waiting"
  BY <1>1, <1>3 DEF CInv, Lives, Blocked, Finishing
<1>5. /\ Born' /\ Lives' /\ EdgeKinds' /\ Submission' /\ Zero' /\ Batches'
      /\ TotalsExact' /\ Callers' /\ Owners'
  <2>1. Parent \in Obj \cup {Parent} /\ Parent \notin Obj
    BY DEF Parent, Obj
  <2> QED
    BY <1>1, <1>2, <1>3, <1>4, <2>1, DropKeeps
<1>6. /\ \A q \in Obj : q # o => phase'[q] = phase[q] /\ numPred'[q] = numPred[q]
      /\ numPred'[o] = numPred[o] - 1 /\ phase'[o] \in {"waiting", "satisfied"}
  BY <1>1, <1>2, <1>3, <1>4, DecreaseEffect
<1>7. Walk'
  BY <1>2, <1>4, <1>6 DEF CInv, Walk
<1>8. Exact'
  <2>1. Created' = Created
    BY DEF Created
  <2>2. \A p \in Obj : \A q : Edge(p, q)' <=> Edge(p, q)
    BY <1>2, <1>4, <1>6, SameEdges
  <2>3. SUFFICES ASSUME NEW q \in Created PROVE (numPred[q] = CountOf(q))'
    BY <2>1 DEF Exact
  <2>4. q \in Obj
    BY CreatedObj
  <2>5. Cardinality(Preds(q)') = Cardinality(Preds(q)) /\ Cardinality(Preds(q)) \in Nat
    BY <2>2, PredsSame, PredsFinite
  <2>6. Fake(q)' = Fake(q) /\ Initial(q)' = Initial(q)
    BY <2>4 DEF Fake, Initial
  <2>7. IsOpen(q)' <=> IsOpen(q) /\ q # o
    BY <1>c, <2>4 DEF IsOpen, o, NULL, Obj
  <2>8. CASE q = o
    <3>1. Open(q) = 1 /\ Open(q)' = 0
      BY <1>1, <2>7, <2>8 DEF Open
    <3>2. numPred[q] = Cardinality(Preds(q)) + Fake(q) + 1 + Initial(q)
      BY <1>3, <2>8, <3>1 DEF CountOf
    <3>3. Fake(q) \in Int /\ Initial(q) \in Int
      BY DEF Fake, Initial
    <3> QED
      BY <1>6, <2>5, <2>6, <2>8, <3>1, <3>2, <3>3 DEF CountOf
  <2>9. CASE q # o
    <3>1. Open(q)' = Open(q) /\ numPred'[q] = numPred[q]
      BY <1>6, <2>4, <2>7, <2>9 DEF Open
    <3> QED
      BY <2>5, <2>6, <3>1 DEF CountOf, CInv, Exact
  <2> QED
    BY <2>8, <2>9
<1> QED
  BY <1>1, <1>4, <1>5, <1>6, <1>7, <1>8, DecreaseEffect, <1>2

-----------------------------------------------------------------------------
(* The parent's steps.                                                     *)

\* The places of the parent where its object has the fake predecessor.
LEMMA FakePlaces ==
  \A pc \in PCs : pc \notin {"idle", "wait", "taskwait", "end"} <=>
                  pc \in Submitting \cup {"release"}
BY DEF PCs, Submitting

\* What an object depends on of the parent's place.
SameParent ==
  /\ par'.cur = par.cur /\ par'.init = par.init
  /\ par'.pc \in Submitting <=> par.pc \in Submitting
  /\ par'.pc = "release" <=> par.pc = "release"
  /\ par'.pc = "wait" <=> par.pc = "wait"

\* The fake predecessor stays where it is.
LEMMA SameFake == ASSUME IInv, IInv', SameParent PROVE \A q : IsFake(q)' <=> IsFake(q)
<1>1. par.pc \in PCs /\ par'.pc \in PCs
  BY DEF IInv, TypeOK, ParentStates
<1> QED
  BY <1>1, FakePlaces DEF IsFake, SameParent

\* The parent goes on within one access.
LEMMA GroupsMove ==
  ASSUME IInv, CInv, UNCHANGED <<commDO, acc>>,
         par'.cur = par.cur, par'.init = par.init, par'.addr = par.addr, par'.todo = par.todo,
         \A S \in {Submitting, AtAccess, AtGroup} : par'.pc \in S => par.pc \in S,
         par'.init # NULL => par'.pc \in {"target", "lookup", "lock", "drop"},
         par'.pc \in Submitting =>
           \A a \in Addr : commDO[a] # NULL /\ commDO[a] \in succ'[par.cur] =>
             commDO[a] \in succ[par.cur]
  PROVE  Groups'
<1>1. Mode' = Mode
  BY DEF Mode
<1>2. /\ par'.pc \in Submitting => par.pc \in Submitting
      /\ par'.pc \in AtAccess => par.pc \in AtAccess
      /\ par'.pc \in AtGroup => par.pc \in AtGroup
  OBVIOUS
<1> QED
  BY <1>1, <1>2 DEF CInv, Groups

\* Steps that move only the parent.
LEMMA ParentOnly ==
  ASSUME IInv, CInv, IInv', SameParent, Groups',
         UNCHANGED <<lastDepObjId, kind, acc, phase, numPred, succ, submitted, commDO, owner,
                     components, tasksInGraph, cursor, checked, batch, caller>>
  PROVE  CInv'
<1>1. Created' = Created /\ InGraph' = InGraph /\ Children' = Children
  BY DEF Created, InGraph, Children
<1>2. Born' /\ Lives' /\ Walk' /\ EdgeKinds'
  BY <1>1 DEF CInv, Born, Lives, Walk, EdgeKinds
<1>3. Building'
  BY DEF SameParent, CInv, Building
<1>4. Submission' /\ Zero' /\ Batches'
  BY DEF CInv, Submission, Zero, Batches
<1>5. TotalsExact' /\ Callers' /\ Owners'
  BY <1>1 DEF CInv, TotalsExact, Callers, Owners
<1>6. Exact'
  <2>1. \A q : IsFake(q)' <=> IsFake(q)
    BY SameFake
  <2>2. \A q : IsOpen(q)' <=> IsOpen(q)
    BY DEF IsOpen
  <2>3. \A p \in Obj : \A q : Edge(p, q)' <=> Edge(p, q)
    BY DEF Edge
  <2> QED
    BY <1>1, <2>1, <2>2, <2>3, SameCounts DEF SameParent
<1> QED
  BY <1>2, <1>3, <1>4, <1>5, <1>6 DEF CInv

\* Looking at the domain, and enlisting a reader.
LEMMA LookCounts ==
  ASSUME IInv, CInv, IInv', ReadLastWriter \/ LookupReaders \/ AddAsReader
  PROVE  CInv'
<1>1. /\ UNCHANGED <<lastDepObjId, kind, acc, phase, numPred, succ, submitted, commDO, owner,
                     components, tasksInGraph, cursor, checked, batch, caller>>
      /\ par'.cur = par.cur /\ par'.init = par.init /\ par'.addr = par.addr
      /\ par'.todo = par.todo
  BY DEF ReadLastWriter, LookupReaders, AddAsReader, Goto, identity, graph, domain, loops,
     IInv, TypeOK, ParentStates
<1>2. \/ par.pc = "lookup" /\ par'.pc \in {"lock", AfterLastWriter}
      \/ par.pc = "init" /\ par'.pc \in {"target", "initReaders"}
      \/ par.pc = "enlist" /\ par'.pc = "next"
  BY DEF ReadLastWriter, LookupReaders, AddAsReader, Goto, ParentMoves, IInv, TypeOK,
     ParentStates
<1>3. SameParent
  BY <1>1, <1>2 DEF SameParent, Submitting, AfterLastWriter
<1>4. \A S \in {Submitting, AtAccess, AtGroup} : par'.pc \in S => par.pc \in S
  BY <1>2 DEF Submitting, AtAccess, AtGroup, AfterLastWriter
<1>5. par'.init # NULL => par'.pc \in {"target", "lookup", "lock", "drop"}
  BY <1>1, <1>2 DEF CInv, Groups, AfterLastWriter
<1>6. Groups'
  BY <1>1, <1>4, <1>5, GroupsMove
<1> QED
  BY <1>1, <1>3, <1>6, ParentOnly

\* Entering and leaving a taskwait.
LEMMA TaskWaitCounts == ASSUME IInv, CInv, IInv', TaskWait \/ ClearDomain PROVE CInv'
<1>1. /\ UNCHANGED <<lastDepObjId, kind, acc, phase, numPred, succ, submitted, commDO, owner,
                     components, tasksInGraph, cursor, checked, batch, caller>>
      /\ par'.cur = par.cur /\ par'.init = par.init /\ par'.addr = par.addr
      /\ par'.todo = par.todo
  BY DEF TaskWait, ClearDomain, Goto, identity, graph, domain, loops, IInv, TypeOK,
     ParentStates
<1>2. par.pc \in {"idle", "taskwait"} /\ par'.pc \in {"idle", "taskwait", "end"}
  BY DEF TaskWait, ClearDomain, Goto, ParentMoves, IInv, TypeOK, ParentStates
<1>3. SameParent
  BY <1>1, <1>2 DEF SameParent, Submitting
<1>4. \A S \in {Submitting, AtAccess, AtGroup} : par'.pc \in S => par.pc \in S
  BY <1>2 DEF Submitting, AtAccess, AtGroup
<1>5. par'.init = NULL
  BY <1>1, <1>2 DEF CInv, Groups
<1>6. Groups'
  BY <1>1, <1>4, <1>5, GroupsMove
<1> QED
  BY <1>1, <1>3, <1>6, ParentOnly

\* Closing a group changes no object the parent is about to submit or to wait for.
LEMMA BuildingKept ==
  ASSUME IInv, CInv, SameParent, UNCHANGED kind,
         \A q \in Obj : phase'[q] = phase[q] \/ (kind[q] = "comm" /\ phase'[q] = "satisfied")
  PROVE  Building'
<1>1. par.pc \in Submitting \cup {"release", "wait"} =>
        par.cur \in Obj /\ kind[par.cur] # "comm"
  BY DEF IInv, ParentOK
<1>2. par.pc \in Submitting \cup {"release", "wait"} => phase'[par.cur] = phase[par.cur]
  BY <1>1
<1>3. \A q \in Obj : /\ phase'[q] = "creating" => phase[q] = "creating"
                     /\ kind[q] = "wait" => phase'[q] = phase[q]
  OBVIOUS
<1> QED
  BY <1>2, <1>3 DEF CInv, Building, SameParent

\* A closed group concerns nobody any more.
LEMMA CommClosed ==
  ASSUME IInv, CInv, NEW a \in Addr, FinalizeReduction(a)
  PROVE  /\ \A b \in Addr : commDO'[b] \in {commDO[b], NULL}
         /\ succ' = succ
BY FinalizeType

\* The next access: an access without a group closes the group of its address.
LEMMA NextAccessCounts ==
  ASSUME IInv, CInv, IInv', NEW a \in Addr, NextAccess(a) PROVE CInv'
<1>1. /\ UNCHANGED <<lastDepObjId, kind, acc, submitted, owner, components, cursor, checked,
                     batch>>
      /\ par.pc = "next" /\ a \in par.todo
      /\ par'.cur = par.cur /\ par'.init = par.init /\ par'.addr = a
      /\ par'.todo = par.todo \ {a} /\ par'.pc \in {"init", "lookup"}
  BY DEF NextAccess, ParentMoves, identity, loops, IInv, TypeOK, ParentStates
<1>2. SameParent
  BY <1>1 DEF SameParent, Submitting
<1>3. \/ FinalizeReduction(a)
      \/ UNCHANGED <<phase, numPred, succ, commDO, tasksInGraph, caller>>
  BY DEF NextAccess, domain, graph
<1>4. (\A b \in Addr : commDO'[b] \in {commDO[b], NULL}) /\ succ' = succ
  BY <1>3, CommClosed
<1>5. Groups'
  <2>1. \A b, c \in Addr : commDO'[b] # NULL /\ commDO'[b] = commDO'[c] => b = c
    BY <1>4 DEF CInv, Groups
  <2>2. \A b \in Addr : commDO'[b] # NULL /\ commDO'[b] \in succ'[par'.cur] =>
          b \notin par'.todo /\ b # par'.addr
    BY <1>1, <1>4 DEF CInv, Groups, Submitting
  <2>3. par'.init = NULL
    BY <1>1 DEF CInv, Groups
  <2> QED
    BY <1>1, <2>1, <2>2, <2>3 DEF Groups
<1>6. CASE commDO[a] # NULL /\ FinalizeReduction(a)
  <2>1. \A q \in Obj : IsFake(q)' <=> IsFake(q)
    BY <1>2, SameFake
  <2>2. /\ Born' /\ Lives' /\ Walk' /\ EdgeKinds' /\ Submission' /\ Zero' /\ Batches'
        /\ Exact' /\ TotalsExact' /\ Callers' /\ Owners'
        /\ \A q \in Obj : phase'[q] = phase[q]
                          \/ (kind[q] = "comm" /\ phase'[q] = "satisfied")
    BY <1>1, <1>6, <2>1, CloseKeeps
  <2>3. Building'
    BY <1>1, <1>2, <2>2, BuildingKept
  <2> QED
    BY <1>5, <2>2, <2>3 DEF CInv
<1>7. CASE ~ (commDO[a] # NULL /\ FinalizeReduction(a))
  <2>1. UNCHANGED <<phase, numPred, succ, commDO, tasksInGraph, caller>>
    BY <1>3, <1>7 DEF FinalizeReduction, domain, graph
  <2> QED
    BY <1>1, <1>2, <1>5, <2>1, ParentOnly
<1> QED
  BY <1>6, <1>7

\* Closing a group of the other kind, or one after the other at a taskwait.
LEMMA CloseCounts ==
  ASSUME IInv, CInv, IInv', NEW a \in Addr, commDO[a] # NULL, FinalizeReduction(a),
         UNCHANGED <<identity, submitted, owner, par, components, loops>>
  PROVE  CInv'
<1>1. /\ UNCHANGED <<lastDepObjId, kind, acc, submitted, owner, components, cursor, checked,
                     batch, par>>
      /\ SameParent
  BY DEF SameParent, identity, loops
<1>2. \A q \in Obj : IsFake(q)' <=> IsFake(q)
  BY <1>1, SameFake
<1>3. /\ Born' /\ Lives' /\ Walk' /\ EdgeKinds' /\ Submission' /\ Zero' /\ Batches'
      /\ Exact' /\ TotalsExact' /\ Callers' /\ Owners'
      /\ \A q \in Obj : phase'[q] = phase[q]
                        \/ (kind[q] = "comm" /\ phase'[q] = "satisfied")
  BY <1>1, <1>2, CloseKeeps
<1>4. Building'
  BY <1>1, <1>3, BuildingKept
<1>5. Groups'
  <2>1. (\A b \in Addr : commDO'[b] \in {commDO[b], NULL}) /\ succ' = succ
    BY CommClosed
  <2>2. \A b, c \in Addr : commDO'[b] # NULL /\ commDO'[b] = commDO'[c] => b = c
    BY <2>1 DEF CInv, Groups
  <2>3. Mode' = Mode
    BY <1>1 DEF Mode
  <2> QED
    BY <1>1, <2>1, <2>2, <2>3 DEF CInv, Groups
<1> QED
  BY <1>3, <1>4, <1>5 DEF CInv

\* The parent adds an edge from P to the object under construction.
LEMMA DependOnEffect ==
  ASSUME IInv, CInv, NEW o \in Obj, NEW P \in SUBSET Obj, DependOn(o, P), o \in Created,
         UNCHANGED <<phase, cursor>>,
         \A p \in P : phase[p] \notin {"none", "release", "gone"}
  PROVE  /\ \A p \in Obj : \A q \in Obj : Edge(p, q)' <=> Edge(p, q) \/ (q = o /\ p \in P)
         /\ Cardinality(Preds(o)') = Cardinality(Preds(o)) + (numPred'[o] - numPred[o])
         /\ numPred[o] \in Int /\ numPred'[o] \in Int
         /\ \A q \in Obj : q # o => numPred'[q] = numPred[q]
         /\ \A p \in Obj : succ'[p] = IF p \in P THEN succ[p] \cup {o} ELSE succ[p]
<1>1. \A p \in Obj : succ'[p] = IF p \in P THEN succ[p] \cup {o} ELSE succ[p]
  BY DEF DependOn
<1>2. \A p \in Obj : \A q \in Obj : Edge(p, q)' <=> Edge(p, q) \/ (q = o /\ p \in P)
  BY <1>1 DEF Edge
<1>3. NewEdges(o, P) \in SUBSET Obj /\ Preds(o) \in SUBSET Obj
  BY DEF NewEdges, Preds
<1>4. Preds(o)' = Preds(o) \cup NewEdges(o, P) /\ Preds(o) \cap NewEdges(o, P) = {}
  BY <1>1, <1>2 DEF Preds, NewEdges, Edge
<1>5. /\ IsFiniteSet(Preds(o)) /\ IsFiniteSet(NewEdges(o, P))
      /\ Cardinality(Preds(o)) \in Nat /\ Cardinality(NewEdges(o, P)) \in Nat
  BY <1>3, ObjFinite
<1>6. Cardinality(Preds(o)') = Cardinality(Preds(o)) + Cardinality(NewEdges(o, P))
  <2>1. Cardinality(Preds(o) \cup NewEdges(o, P))
          = Cardinality(Preds(o)) + Cardinality(NewEdges(o, P))
            - Cardinality(Preds(o) \cap NewEdges(o, P))
    BY <1>5, FS_Union
  <2>2. Cardinality(Preds(o) \cap NewEdges(o, P)) = 0
    BY <1>4, FS_EmptySet
  <2> QED
    BY <1>4, <1>5, <2>1, <2>2
<1>7. /\ numPred[o] \in Int /\ numPred'[o] = numPred[o] + Cardinality(NewEdges(o, P))
      /\ \A q \in Obj : q # o => numPred'[q] = numPred[q]
  BY DEF DependOn, IInv, TypeOK
<1>8. /\ Cardinality(Preds(o)') = Cardinality(Preds(o)) + (numPred'[o] - numPred[o])
      /\ numPred'[o] \in Int
  BY <1>5, <1>6, <1>7
<1> QED
  BY <1>1, <1>2, <1>7, <1>8

\* New predecessors of the object under construction keep the invariant.
LEMMA DependKeeps ==
  ASSUME IInv, CInv, IInv', par.pc \in Submitting, NEW P \in SUBSET Obj,
         DependOn(par.cur, P),
         \A p \in P : phase[p] \notin {"none", "release", "gone"} /\ kind[p] # "wait",
         SameParent, par'.addr = par.addr, par'.todo = par.todo,
         \A S \in {AtAccess, AtGroup} : par'.pc \in S => par.pc \in S,
         par'.init # NULL => par'.pc \in {"target", "lookup", "lock", "drop"},
         UNCHANGED <<lastDepObjId, kind, acc, phase, submitted, commDO, owner, components,
                     tasksInGraph, cursor, checked, batch, caller>>
  PROVE  CInv'
<1>0. PICK o \in Obj : o = par.cur
  BY DEF IInv, ParentOK
<1>1. o \in Created /\ phase[o] = "creating" /\ kind[o] # "comm"
  BY <1>0 DEF IInv, ParentOK, Fresh, NULL, Obj, CInv, Building
<1>2. /\ \A p \in Obj : \A q \in Obj : Edge(p, q)' <=> Edge(p, q) \/ (q = o /\ p \in P)
      /\ Cardinality(Preds(o)') = Cardinality(Preds(o)) + (numPred'[o] - numPred[o])
      /\ numPred[o] \in Int /\ numPred'[o] \in Int
      /\ \A q \in Obj : q # o => numPred'[q] = numPred[q]
      /\ \A p \in Obj : succ'[p] = IF p \in P THEN succ[p] \cup {o} ELSE succ[p]
  BY <1>0, <1>1, DependOnEffect
<1>g. Groups'
  <2>1. \A S \in {Submitting, AtAccess, AtGroup} : par'.pc \in S => par.pc \in S
    BY DEF SameParent
  <2>2. \A a \in Addr : commDO[a] # NULL => commDO[a] # o
    BY <1>1 DEF IInv, GroupOK
  <2>3. \A a \in Addr : commDO[a] # NULL /\ commDO[a] \in succ'[o] => commDO[a] \in succ[o]
    BY <1>1, <1>2, <2>2
  <2> QED
    BY <1>0, <2>1, <2>3, GroupsMove DEF SameParent
<1>3. Created' = Created /\ InGraph' = InGraph /\ Children' = Children
  BY DEF Created, InGraph, Children
<1>4. Born' /\ Lives' /\ Walk'
  <2>1. \A p \in Obj : phase[p] \in {"none", "release"} => succ'[p] = succ[p]
    BY <1>2
  <2> QED
    BY <1>3, <2>1 DEF CInv, Born, Lives, Walk
<1>5. EdgeKinds'
  <2>1. \A p \in Obj : succ'[p] \subseteq succ[p] \cup {o}
    BY <1>2
  <2>2. \A p, q \in Obj : kind[q] = "comm" /\ q \in succ'[p] => q \in succ[p]
    BY <1>1, <2>1
  <2>3. \A p \in Obj : kind[p] = "wait" => succ'[p] = succ[p]
    BY <1>2
  <2> QED
    BY <2>2, <2>3 DEF CInv, EdgeKinds
<1>6. Building' /\ Submission'
  BY DEF CInv, Building, Submission, SameParent
<1>7. Zero' /\ Batches'
  <2>1. \A q \in Obj : phase[q] # "creating" => numPred'[q] = numPred[q]
    BY <1>1, <1>2
  <2>2. \A q \in Obj : checked[q] # NULL => checked[q] \in Obj
    BY DEF IInv, TypeOK
  <2>3. \A q \in Obj : batch[q] \in SUBSET Obj
    BY DEF IInv, TypeOK
  <2>4. Zero'
    BY <2>1 DEF CInv, Zero, Blocked
  <2> QED
    BY <2>1, <2>2, <2>3, <2>4 DEF CInv, Batches
<1>8. TotalsExact' /\ Callers' /\ Owners'
  BY <1>3 DEF CInv, TotalsExact, Callers, Owners
<1>9. Exact'
  <2>1. SUFFICES ASSUME NEW q \in Created PROVE (numPred[q] = CountOf(q))'
    BY <1>3 DEF Exact
  <2>2. q \in Obj
    BY CreatedObj
  <2>3. Fake(q)' = Fake(q) /\ Open(q)' = Open(q) /\ Initial(q)' = Initial(q)
    BY SameFake DEF Fake, Open, Initial, IsOpen, SameParent
  <2>4. numPred[q] = Cardinality(Preds(q)) + Fake(q) + Open(q) + Initial(q)
    BY DEF CInv, Exact, CountOf
  <2>5. CASE q = o
    <3>1. Cardinality(Preds(q)) \in Nat /\ Cardinality(Preds(q)') \in Int
      BY <1>2, <2>5, PredsFinite
    <3>2. Fake(q) \in Int /\ Open(q) \in Int /\ Initial(q) \in Int
      BY DEF Fake, Open, Initial
    <3> QED
      BY <1>2, <2>3, <2>4, <2>5, <3>1, <3>2 DEF CountOf
  <2>6. CASE q # o
    <3>1. Cardinality(Preds(q)') = Cardinality(Preds(q))
      BY <1>2, <2>2, <2>6, PredsSame
    <3> QED
      BY <1>2, <2>2, <2>3, <2>4, <2>6, <3>1 DEF CountOf
  <2> QED
    BY <2>5, <2>6
<1> QED
  BY <1>g, <1>4, <1>5, <1>6, <1>7, <1>8, <1>9 DEF CInv

\* The edge from the last writer, which is still registered.
LEMMA LockLastWriterCounts == ASSUME IInv, CInv, IInv', LockLastWriter PROVE CInv'
<1>1. /\ UNCHANGED <<lastDepObjId, kind, acc, phase, submitted, commDO, owner, components,
                     tasksInGraph, cursor, checked, batch, caller>>
      /\ par.pc = "lock" /\ par'.pc = AfterLastWriter
      /\ par'.cur = par.cur /\ par'.init = par.init /\ par'.addr = par.addr
      /\ par'.todo = par.todo
  BY DEF LockLastWriter, ParentMoves, identity, domain, loops, IInv, TypeOK, ParentStates
<1>2. SameParent
  BY <1>1 DEF SameParent, Submitting, AfterLastWriter
<1>3. \A S \in {AtAccess, AtGroup} : par'.pc \in S => par.pc \in S
  BY <1>1 DEF Submitting, AtAccess, AtGroup, AfterLastWriter
<1>4. par'.init # NULL => par'.pc \in {"target", "lookup", "lock", "drop"}
  BY <1>1 DEF CInv, Groups, AfterLastWriter
<1>5. CASE StillLastWriter
  <2>1. DependOn(par.cur, {par.lw}) /\ par.addr \in Addr /\ par.lw \in Obj
    BY <1>1, <1>5 DEF LockLastWriter, IInv, ParentOK, AtAccess, Submitting
  <2>2. phase[par.lw] \in Registered /\ kind[par.lw] # "wait"
    BY <1>5, <2>1 DEF IInv, WriterOK, StillLastWriter, Obj, NULL
  <2>3. \A p \in {par.lw} : phase[p] \notin {"none", "release", "gone"} /\ kind[p] # "wait"
    BY <2>2 DEF Registered
  <2>4. {par.lw} \in SUBSET Obj /\ par.pc \in Submitting
    BY <1>1, <2>1 DEF Submitting
  <2> QED
    BY <1>1, <1>2, <1>3, <1>4, <2>1, <2>3, <2>4, DependKeeps
<1>6. CASE ~ StillLastWriter
  <2>1. UNCHANGED <<numPred, succ>>
    BY <1>6 DEF LockLastWriter, graph
  <2>2. \A S \in {Submitting, AtAccess, AtGroup} : par'.pc \in S => par.pc \in S
    BY <1>1, <1>3 DEF Submitting
  <2>3. Groups'
    BY <1>1, <1>4, <2>1, <2>2, GroupsMove
  <2> QED
    BY <1>1, <1>2, <2>1, <2>3, ParentOnly
<1> QED
  BY <1>5, <1>6

\* The edges from the readers.
LEMMA SetAsWriterCounts == ASSUME IInv, CInv, IInv', SetAsWriter PROVE CInv'
<1>1. /\ UNCHANGED <<lastDepObjId, kind, acc, phase, submitted, commDO, owner, components,
                     tasksInGraph, cursor, checked, batch, caller>>
      /\ par.pc = "enlist" /\ par'.pc = "next"
      /\ par'.cur = par.cur /\ par'.init = par.init /\ par'.addr = par.addr
      /\ par'.todo = par.todo
  BY DEF SetAsWriter, ParentMoves, Goto, identity, domain, loops, IInv, TypeOK, ParentStates
<1>2. SameParent /\ par.pc \in Submitting
  BY <1>1 DEF SameParent, Submitting
<1>3. \A S \in {AtAccess, AtGroup} : par'.pc \in S => par.pc \in S
  BY <1>1 DEF Submitting, AtAccess, AtGroup
<1>4. par'.init = NULL
  BY <1>1 DEF CInv, Groups
<1>5. par.addr \in Addr
  BY <1>1 DEF IInv, ParentOK, AtAccess, Submitting
<1>6. ReadersBefore \in SUBSET Obj
  BY <1>5 DEF IInv, TypeOK, ReadersBefore
<1>7. \A p \in ReadersBefore : phase[p] \notin {"none", "release", "gone"} /\ kind[p] # "wait"
  BY <1>5 DEF IInv, ReaderOK, Registered, ReadersBefore
<1>8. DependOn(par.cur, ReadersBefore)
  BY DEF SetAsWriter
<1> QED
  BY <1>1, <1>2, <1>3, <1>4, <1>6, <1>7, <1>8, DependKeeps

\* An object that is about to be created.
LEMMA NewbornFacts ==
  ASSUME IInv, CInv, NEW o \in Obj, o = lastDepObjId + 1
  PROVE  /\ o \notin Created /\ phase[o] = "none" /\ succ[o] = {} /\ kind[o] = "submit"
         /\ \A p \in Obj : o \notin succ[p] \cup cursor[p] \cup batch[p] /\ checked[p] # o
         /\ batch[o] = {} /\ checked[o] = NULL /\ caller[o] = NULL /\ ~ submitted[o]
         /\ \A a \in Addr : commDO[a] # o /\ owner[a] # o
         /\ o # par.cur /\ o # par.init /\ o # NULL
<1>1. o \notin Created /\ o # NULL /\ lastDepObjId \in Nat
  BY DEF Created, NULL, Obj, IInv, TypeOK
<1>2. phase[o] = "none" /\ succ[o] = {}
  BY <1>1 DEF CInv, Born
<1>3. kind[o] = "submit"
  BY <1>2 DEF CInv, Lives, Finishing, IInv, TypeOK
<1>4. \A p \in Obj : o \notin succ[p] \cup cursor[p] \cup batch[p] /\ checked[p] # o
  BY <1>1 DEF IInv, Fresh
<1>5. ~ submitted[o] /\ (\A a \in Addr : commDO[a] # o) /\ o # par.cur /\ o # par.init
  BY <1>1 DEF IInv, Fresh
<1>6. batch[o] = {} /\ checked[o] = NULL
  BY <1>2 DEF CInv, Walk
<1>7. caller[o] = NULL
  BY <1>3 DEF CInv, Callers
<1>8. \A a \in Addr : owner[a] # o
  BY <1>1, <1>2 DEF CInv, Owners
<1> QED
  BY <1>1, <1>2, <1>3, <1>4, <1>5, <1>6, <1>7, <1>8

\* What the creation of an object o keeps, with edges from some tasks to it.
LEMMA NewbornKeeps ==
  ASSUME IInv, CInv, NEW o \in Obj, o = lastDepObjId + 1, lastDepObjId' = o,
         NEW k \in {"submit", "wait", "comm"},
         kind' = [kind EXCEPT ![o] = k],
         phase' = [phase EXCEPT ![o] = IF k = "comm" THEN "waiting" ELSE "creating"],
         \A q \in Obj : q # o => numPred'[q] = numPred[q], numPred'[o] # 0,
         \A q \in Obj : q # o => acc'[q] = acc[q],
         components' = IF k = "submit" THEN components + 1 ELSE components,
         NEW P \in SUBSET Obj,
         \A p \in P : kind[p] = "submit" /\ phase[p] \notin {"none", "release", "gone"},
         \A p \in Obj : succ'[p] = IF p \in P THEN succ[p] \cup {o} ELSE succ[p],
         UNCHANGED <<submitted, owner, tasksInGraph, cursor, checked, batch, caller>>
  PROVE  /\ Born' /\ Lives' /\ Walk' /\ EdgeKinds' /\ Submission' /\ Zero' /\ Batches'
         /\ TotalsExact' /\ Callers' /\ Owners'
         /\ Created' = Created \cup {o}
         /\ \A p \in Obj : \A q \in Obj : q # o => (Edge(p, q)' <=> Edge(p, q))
         /\ Preds(o)' = P
<1>n. /\ o \notin Created /\ phase[o] = "none" /\ succ[o] = {} /\ kind[o] = "submit"
      /\ \A p \in Obj : o \notin succ[p] \cup cursor[p] \cup batch[p] /\ checked[p] # o
      /\ batch[o] = {} /\ checked[o] = NULL /\ caller[o] = NULL /\ ~ submitted[o]
      /\ \A a \in Addr : owner[a] # o
      /\ o # NULL
  BY NewbornFacts
<1>1. Created' = Created \cup {o}
  BY DEF Created, Obj, IInv, TypeOK
<1>2. /\ kind'[o] = k /\ phase'[o] = IF k = "comm" THEN "waiting" ELSE "creating"
      /\ \A q \in Obj : q # o => kind'[q] = kind[q] /\ phase'[q] = phase[q]
  BY DEF IInv, TypeOK
<1>s. /\ o \notin P /\ succ'[o] = {}
      /\ \A p \in Obj : phase[p] \in {"none", "release", "gone"} => succ'[p] = succ[p]
      /\ \A p \in Obj : succ'[p] \subseteq succ[p] \cup {o}
      /\ \A p \in Obj : o \in succ'[p] => kind[p] = "submit"
  BY <1>n
<1>3. Born'
  BY <1>n, <1>1, <1>2, <1>s DEF CInv, Born
<1>4. Lives'
  BY <1>2 DEF CInv, Lives
<1>5. Walk'
  BY <1>n, <1>2, <1>s DEF CInv, Walk
<1>6. EdgeKinds'
  <2>0. \A p \in Obj : kind'[p] = "wait" => succ'[p] = {}
    BY <1>2, <1>s DEF CInv, EdgeKinds
  <2> SUFFICES ASSUME NEW p \in Obj, NEW q \in Obj, q \in succ'[p], kind'[q] = "comm"
               PROVE  kind'[p] = "submit"
    BY <2>0 DEF EdgeKinds
  <2>1. p # o /\ kind'[p] = kind[p]
    BY <1>2, <1>s
  <2>2. CASE q = o
    BY <1>s, <2>1, <2>2
  <2>3. CASE q # o
    BY <1>2, <1>s, <2>1, <2>3 DEF CInv, EdgeKinds
  <2> QED
    BY <2>2, <2>3
<1>7. Submission'
  BY <1>n, <1>2 DEF CInv, Submission
<1>8. Zero'
  BY <1>2 DEF CInv, Zero, Blocked
<1>9. Batches'
  <2>1. \A q \in Obj : checked[q] # NULL => checked[q] \in Obj /\ checked[q] # o
    BY <1>n DEF IInv, TypeOK
  <2>2. \A q \in Obj : batch[q] \in SUBSET Obj /\ o \notin batch[q]
    BY <1>n DEF IInv, TypeOK
  <2>3. \A q \in Obj : phase'[q] = "release" <=> phase[q] = "release"
    BY <1>n, <1>2
  <2>4. \A q \in Obj : checked'[q] # NULL =>
          numPred'[checked'[q]] = 1 /\ phase'[checked'[q]] = "waiting"
    <3> SUFFICES ASSUME NEW q \in Obj, checked[q] # NULL
                 PROVE  numPred'[checked[q]] = 1 /\ phase'[checked[q]] = "waiting"
      OBVIOUS
    <3>1. numPred[checked[q]] = 1 /\ phase[checked[q]] = "waiting"
      BY DEF CInv, Batches
    <3> QED
      BY <1>2, <2>1, <3>1
  <2>5. \A q \in Obj : phase'[q] = "release" =>
          \A s \in batch'[q] : numPred'[s] = 0 /\ phase'[s] = "waiting"
    <3> SUFFICES ASSUME NEW q \in Obj, phase'[q] = "release", NEW s \in batch[q]
                 PROVE  numPred'[s] = 0 /\ phase'[s] = "waiting"
      OBVIOUS
    <3>1. numPred[s] = 0 /\ phase[s] = "waiting"
      BY <2>3 DEF CInv, Batches
    <3>2. s \in Obj /\ s # o
      BY <2>2
    <3> QED
      BY <1>2, <3>1, <3>2
  <2>6. \A q, p \in Obj : q # p /\ phase'[q] = "release" /\ phase'[p] = "release" =>
          batch'[q] \cap batch'[p] = {}
    BY <2>3 DEF CInv, Batches
  <2> QED
    BY <2>4, <2>5, <2>6 DEF Batches
<1>10. TotalsExact'
  <2>1. InGraph' = InGraph
    BY <1>n, <1>2 DEF InGraph
  <2>2. Children \in SUBSET Obj /\ Children' \in SUBSET Obj
    BY DEF Children
  <2>3. Cardinality(Children) \in Nat
    BY <2>2, ObjFinite
  <2>4. CASE k = "submit"
    <3>1. o \notin Children /\ \A q \in Obj : q \in Children' <=> q \in Children \/ q = o
      BY <1>n, <1>2, <2>4 DEF Children
    <3>2. Cardinality(Children') = Cardinality(Children) + 1
      BY <2>2, <3>1, OneMore
    <3> QED
      BY <2>1, <2>4, <3>2 DEF CInv, TotalsExact
  <2>5. CASE k # "submit"
    <3>1. Children' = Children
      BY <1>n, <1>2, <2>5 DEF Children
    <3> QED
      BY <2>1, <2>5, <3>1 DEF CInv, TotalsExact
  <2> QED
    BY <2>4, <2>5
<1>11. Callers'
  <2>1. \A c \in Obj : caller[c] \in Obj /\ phase[c] # "gone" => caller[c] # o
    BY <1>n DEF CInv, Callers
  <2>2. \A c \in Obj : c # o => phase'[c] = phase[c]
    BY <1>2
  <2> QED
    BY <1>n, <1>2, <2>1, <2>2 DEF CInv, Callers
<1>12. Owners'
  <2>1. \A a \in Addr : owner[a] \in Obj \cup {NULL}
    BY DEF IInv, TypeOK
  <2>2. \A a \in Addr : owner[a] # NULL =>
          phase'[owner[a]] = phase[owner[a]] /\ acc'[owner[a]] = acc[owner[a]]
    BY <1>n, <1>2, <2>1
  <2> QED
    BY <2>2 DEF CInv, Owners
<1>13. \A p \in Obj : \A q \in Obj : q # o => (Edge(p, q)' <=> Edge(p, q))
  <2> SUFFICES ASSUME NEW p \in Obj, NEW q \in Obj, q # o PROVE Edge(p, q)' <=> Edge(p, q)
    OBVIOUS
  <2>1. q \in succ'[p] <=> q \in succ[p]
    OBVIOUS
  <2>2. CASE p = o
    BY <1>n, <1>2, <1>s, <2>2 DEF Edge
  <2>3. CASE p # o
    BY <1>2, <2>1, <2>3 DEF Edge
  <2> QED
    BY <2>2, <2>3
<1>14. Preds(o)' = P
  <2>1. \A p \in Obj : Edge(p, o)' <=> p \in P
    BY <1>n, <1>2, <1>s DEF Edge
  <2> QED
    BY <2>1 DEF Preds
<1> QED
  BY <1>1, <1>3, <1>4, <1>5, <1>6, <1>7, <1>8, <1>9, <1>10, <1>11, <1>12, <1>13, <1>14

\* The counts after a creation.
LEMMA NewbornExact ==
  ASSUME IInv, CInv, NEW o \in Obj, o = lastDepObjId + 1, Created' = Created \cup {o},
         \A q \in Obj : q # o => numPred'[q] = numPred[q],
         \A p \in Obj : \A q \in Obj : q # o => (Edge(p, q)' <=> Edge(p, q)),
         \A q \in Obj : q # o => /\ IsFake(q)' <=> IsFake(q)
                                 /\ IsOpen(q)' <=> IsOpen(q)
                                 /\ q = par'.init <=> q = par.init,
         (numPred[o] = CountOf(o))'
  PROVE  Exact'
<1>1. SUFFICES ASSUME NEW q \in Created, q # o PROVE (numPred[q] = CountOf(q))'
  BY DEF Exact
<1>2. q \in Obj
  BY CreatedObj
<1>3. Cardinality(Preds(q)') = Cardinality(Preds(q))
  BY <1>1, <1>2, PredsSame
<1>4. Fake(q)' = Fake(q) /\ Open(q)' = Open(q) /\ Initial(q)' = Initial(q)
  BY <1>1, <1>2 DEF Fake, Open, Initial
<1> QED
  BY <1>1, <1>2, <1>3, <1>4 DEF CInv, Exact, CountOf

\* A new task or wait has the fake predecessor and no other.
LEMMA CreateCounts ==
  ASSUME IInv, CInv, IInv', NEW k \in {"submit", "wait"}, NEW x \in Accesses, Create(k, x)
  PROVE  CInv'
<1>0. lastDepObjId + 1 \in Obj
  BY IdsNeededPositive, BoundsAssumption DEF IInv, TypeOK, Create, WithinBounds, Obj
<1>1. PICK o \in Obj : o = lastDepObjId + 1
  BY <1>0
<1>2. /\ lastDepObjId' = o /\ par.pc = "idle"
      /\ kind' = [kind EXCEPT ![o] = k]
      /\ phase' = [phase EXCEPT ![o] = "creating"]
      /\ components' = IF k = "submit" THEN components + 1 ELSE components
      /\ par' = [par EXCEPT !.pc = "next", !.cur = o, !.todo = Touched(x)]
      /\ UNCHANGED <<succ, submitted, commDO, owner, tasksInGraph, cursor, checked, batch,
                     caller>>
  BY <1>1 DEF Create, ParentMoves, domain, loops
<1>3. /\ numPred'[o] = 1 /\ \A q \in Obj : q # o => numPred'[q] = numPred[q]
      /\ \A q \in Obj : q # o => acc'[q] = acc[q]
  BY <1>1 DEF Create, IInv, TypeOK
<1>4. /\ par'.pc = "next" /\ par'.cur = o /\ par'.todo = Touched(x) /\ par'.init = par.init
      /\ par.init = NULL
  BY <1>2 DEF IInv, TypeOK, ParentStates, CInv, Groups
<1>n. /\ succ[o] = {} /\ o # NULL /\ o # par.init /\ phase[o] = "none"
      /\ \A a \in Addr : commDO[a] # o
  BY <1>1, NewbornFacts
<1>5. /\ Born' /\ Lives' /\ Walk' /\ EdgeKinds' /\ Submission' /\ Zero' /\ Batches'
      /\ TotalsExact' /\ Callers' /\ Owners'
      /\ Created' = Created \cup {o}
      /\ \A p \in Obj : \A q \in Obj : q # o => (Edge(p, q)' <=> Edge(p, q))
      /\ Preds(o)' = {}
  <2>p. PICK P \in SUBSET Obj : P = {}
    OBVIOUS
  <2>1. \A p \in Obj : succ'[p] = IF p \in P THEN succ[p] \cup {o} ELSE succ[p]
    BY <1>2, <2>p
  <2>2. /\ \A p \in P : kind[p] = "submit" /\ phase[p] \notin {"none", "release", "gone"}
        /\ numPred'[o] # 0
    BY <1>3, <2>p
  <2>3. phase' = [phase EXCEPT ![o] = IF k = "comm" THEN "waiting" ELSE "creating"]
    BY <1>2
  <2>4. k \in {"submit", "wait", "comm"}
    OBVIOUS
  <2> QED
    BY <1>1, <1>2, <1>3, <2>p, <2>1, <2>2, <2>3, <2>4, NewbornKeeps
<1>6. Building'
  <2>1. /\ phase'[o] = "creating" /\ kind'[o] = k
        /\ \A q \in Obj : q # o => phase'[q] = phase[q] /\ kind'[q] = kind[q]
    BY <1>2 DEF IInv, TypeOK
  <2>2. \A q \in Obj : phase[q] # "creating" /\ (kind[q] = "wait" => phase[q] = "gone")
    BY <1>2 DEF CInv, Building, Submitting
  <2> QED
    BY <1>4, <2>1, <2>2 DEF Building, Submitting
<1>7. Groups'
  BY <1>2, <1>4, <1>n DEF CInv, Groups, AtAccess, Submitting
<1>8. Exact'
  <2>1. \A q \in Obj : IsFake(q)' <=> q = o
    BY <1>4 DEF IsFake
  <2>2. \A q \in Obj : ~ IsFake(q)
    BY <1>2 DEF IsFake
  <2>3. \A q : IsOpen(q)' <=> IsOpen(q)
    BY <1>2 DEF IsOpen
  <2>4. ~ IsOpen(o)
    BY <1>n DEF IsOpen
  <2>5. (numPred[o] = CountOf(o))'
    <3>1. Cardinality(Preds(o)') = 0
      BY <1>5, FS_EmptySet
    <3>2. Fake(o)' = 1 /\ Open(o)' = 0 /\ Initial(o)' = 0
      BY <1>4, <1>n, <2>1, <2>3, <2>4 DEF Fake, Open, Initial
    <3> QED
      BY <1>3, <3>1, <3>2 DEF CountOf
  <2> QED
    BY <1>1, <1>3, <1>4, <1>5, <2>1, <2>2, <2>3, <2>5, NewbornExact
<1> QED
  BY <1>5, <1>6, <1>7, <1>8 DEF CInv

\* The parent at a group access is a task under construction.
LEMMA AtGroupFacts ==
  ASSUME IInv, CInv, par.pc \in AtGroup
  PROVE  /\ par.cur \in Obj /\ par.cur \in Created /\ par.addr \in Addr /\ Mode \in GroupModes
         /\ kind[par.cur] = "submit" /\ phase[par.cur] = "creating"
<1>1. /\ par.pc \in Submitting /\ par.pc \in AtAccess
  BY DEF AtGroup, AtAccess, Submitting
<1>2. /\ par.cur \in Obj /\ par.addr \in Addr /\ Mode \in GroupModes
      /\ kind[par.cur] \in {"submit", "wait"}
  BY <1>1 DEF IInv, ParentOK
<1> QED
  BY <1>1, <1>2 DEF IInv, WaitOK, Mode, Fresh, NULL, Obj, CInv, Building

\* A new CommutationDO does not concern the object under construction.
LEMMA BuildingNewComm ==
  ASSUME IInv, CInv, par.pc \in AtGroup, SameParent, NEW o \in Obj, o # par.cur,
         phase[o] = "none",
         kind' = [kind EXCEPT ![o] = "comm"], phase' = [phase EXCEPT ![o] = "waiting"]
  PROVE  Building'
<1>1. /\ phase'[o] = "waiting" /\ kind'[o] = "comm"
      /\ \A q \in Obj : q # o => phase'[q] = phase[q] /\ kind'[q] = kind[q]
  BY DEF IInv, TypeOK
<1>2. par.cur \in Obj /\ par.pc \in Submitting
  BY AtGroupFacts DEF AtGroup, Submitting
<1> QED
  BY <1>1, <1>2 DEF CInv, Building, SameParent, Submitting

\* A new group: the dummy and the task are its predecessors.
LEMMA OpenGroupCounts == ASSUME IInv, CInv, IInv', OpenGroup PROVE CInv'
<1>0. lastDepObjId + 1 \in Obj
  BY DEF OpenGroup, NewComm
<1>1. PICK o \in Obj : o = lastDepObjId + 1
  BY <1>0
<1>2. /\ lastDepObjId' = o /\ par.pc = "target" /\ commDO[par.addr] = NULL
      /\ kind' = [kind EXCEPT ![o] = "comm"]
      /\ phase' = [phase EXCEPT ![o] = "waiting"]
      /\ commDO' = [commDO EXCEPT ![par.addr] = o]
      /\ succ' = [succ EXCEPT ![par.cur] = @ \cup {o}]
      /\ par' = [par EXCEPT !.pc = "lookup"]
      /\ UNCHANGED <<submitted, owner, components, tasksInGraph, cursor, checked, batch,
                     caller>>
  BY <1>1 DEF OpenGroup, NewComm, ParentMoves, Goto, loops
<1>3. /\ numPred'[o] = 2 /\ \A q \in Obj : q # o => numPred'[q] = numPred[q]
      /\ \A q \in Obj : q # o => acc'[q] = acc[q]
  BY <1>1 DEF OpenGroup, NewComm, FirstPredecessors, IInv, TypeOK
<1>4. /\ par'.pc = "lookup" /\ par'.cur = par.cur /\ par'.todo = par.todo
      /\ par'.init = par.init /\ par'.addr = par.addr
  BY <1>2 DEF IInv, TypeOK, ParentStates
<1>n. /\ o # NULL /\ o # par.init /\ o # par.cur /\ phase[o] = "none"
      /\ \A a \in Addr : commDO[a] # o
  BY <1>1, NewbornFacts
<1>g. /\ par.cur \in Obj /\ par.addr \in Addr /\ Mode \in GroupModes
      /\ kind[par.cur] = "submit" /\ phase[par.cur] = "creating" /\ par.pc \in AtGroup
  BY <1>2, AtGroupFacts DEF AtGroup
<1>c. /\ commDO'[par.addr] = o /\ \A a \in Addr : a # par.addr => commDO'[a] = commDO[a]
      /\ succ'[par.cur] = succ[par.cur] \cup {o}
  BY <1>2, <1>g DEF IInv, TypeOK
<1>p. SameParent
  BY <1>2, <1>4 DEF SameParent, Submitting
<1>5. /\ Born' /\ Lives' /\ Walk' /\ EdgeKinds' /\ Submission' /\ Zero' /\ Batches'
      /\ TotalsExact' /\ Callers' /\ Owners'
      /\ Created' = Created \cup {o}
      /\ \A p \in Obj : \A q \in Obj : q # o => (Edge(p, q)' <=> Edge(p, q))
      /\ Preds(o)' = {par.cur}
  <2>1. \A p \in Obj : succ'[p] = IF p \in {par.cur} THEN succ[p] \cup {o} ELSE succ[p]
    BY <1>2, <1>g DEF IInv, TypeOK
  <2>2. {par.cur} \in SUBSET Obj /\ numPred'[o] # 0
    BY <1>3, <1>g
  <2>3. /\ phase' = [phase EXCEPT ![o] = IF "comm" = "comm" THEN "waiting" ELSE "creating"]
        /\ components' = IF "comm" = "submit" THEN components + 1 ELSE components
        /\ "comm" \in {"submit", "wait", "comm"}
    BY <1>2
  <2>4. \A p \in {par.cur} :
          kind[p] = "submit" /\ phase[p] \notin {"none", "release", "gone"}
    BY <1>g
  <2> QED
    BY <1>1, <1>2, <1>3, <2>1, <2>2, <2>3, <2>4, NewbornKeeps
<1>6. Building'
  BY <1>2, <1>g, <1>n, <1>p, BuildingNewComm
<1>7. Groups'
  <2>1. \A a, b \in Addr : commDO'[a] # NULL /\ commDO'[a] = commDO'[b] => a = b
    BY <1>c, <1>n DEF CInv, Groups
  <2>2. par.addr \notin par.todo /\ par.pc \in Submitting
    BY <1>2 DEF CInv, Groups, AtAccess, Submitting
  <2>3. \A a \in Addr : commDO'[a] # NULL /\ commDO'[a] \in succ'[par.cur] => a \notin par.todo
    BY <1>c, <1>n, <2>2 DEF CInv, Groups
  <2>4. Mode' = Mode
    BY <1>3, <1>4, <1>g, <1>n DEF Mode
  <2> QED
    BY <1>4, <1>g, <2>1, <2>2, <2>3, <2>4 DEF Groups, AtGroup
<1>8. Exact'
  <2>1. \A q : IsFake(q)' <=> IsFake(q)
    BY <1>p, SameFake
  <2>2. \A q \in Obj : IsOpen(q)' <=> IsOpen(q) \/ q = o
    BY <1>2, <1>c, <1>g DEF IsOpen, NULL, Obj
  <2>3. (numPred[o] = CountOf(o))'
    <3>1. Cardinality(Preds(o)') = 1
      BY <1>5, FS_Singleton
    <3>2. Fake(o)' = 0 /\ Open(o)' = 1 /\ Initial(o)' = 0
      BY <1>4, <1>n, <2>1, <2>2 DEF Fake, Open, Initial, IsFake
    <3> QED
      BY <1>3, <3>1, <3>2 DEF CountOf
  <2> QED
    BY <1>1, <1>3, <1>4, <1>5, <2>1, <2>2, <2>3, NewbornExact
<1> QED
  BY <1>5, <1>6, <1>7, <1>8 DEF CInv

\* An initial CommutationDO: the dummy and the readers are its predecessors.
LEMMA SetUpInitialCommCounts == ASSUME IInv, CInv, IInv', SetUpInitialComm PROVE CInv'
<1>0. lastDepObjId + 1 \in Obj
  BY DEF SetUpInitialComm, NewComm
<1>1. PICK o \in Obj : o = lastDepObjId + 1
  BY <1>0
<1>g. /\ par.cur \in Obj /\ par.addr \in Addr /\ Mode \in GroupModes
      /\ par.pc = "initReaders" /\ par.pc \in AtGroup
  BY AtGroupFacts DEF AtGroup, SetUpInitialComm, ParentMoves
<1>r. PICK R \in SUBSET Obj : R = readers[par.addr]
  BY <1>g DEF IInv, TypeOK
<1>2. /\ lastDepObjId' = o
      /\ kind' = [kind EXCEPT ![o] = "comm"]
      /\ phase' = [phase EXCEPT ![o] = "waiting"]
      /\ \A p \in Obj : succ'[p] = IF p \in R THEN succ[p] \cup {o} ELSE succ[p]
      /\ par' = [par EXCEPT !.pc = "target", !.init = o]
      /\ UNCHANGED <<submitted, commDO, owner, components, tasksInGraph, cursor, checked,
                     batch, caller>>
  BY <1>1, <1>r DEF SetUpInitialComm, NewComm, loops
<1>3. /\ numPred'[o] = 1 + Cardinality(R)
      /\ \A q \in Obj : q # o => numPred'[q] = numPred[q]
      /\ \A q \in Obj : q # o => acc'[q] = acc[q]
  BY <1>1, <1>r DEF SetUpInitialComm, NewComm, IInv, TypeOK
<1>4. /\ par'.pc = "target" /\ par'.cur = par.cur /\ par'.todo = par.todo
      /\ par'.init = o /\ par'.addr = par.addr /\ par.init = NULL
  BY <1>2, <1>g DEF IInv, TypeOK, ParentStates, CInv, Groups
<1>n. /\ o # NULL /\ o # par.cur /\ phase[o] = "none"
      /\ \A a \in Addr : commDO[a] # o
  BY <1>1, NewbornFacts
<1>c. Cardinality(R) \in Nat
  BY ObjFinite
<1>5. /\ Born' /\ Lives' /\ Walk' /\ EdgeKinds' /\ Submission' /\ Zero' /\ Batches'
      /\ TotalsExact' /\ Callers' /\ Owners'
      /\ Created' = Created \cup {o}
      /\ \A p \in Obj : \A q \in Obj : q # o => (Edge(p, q)' <=> Edge(p, q))
      /\ Preds(o)' = R
  <2>1. numPred'[o] # 0
    BY <1>3, <1>c
  <2>2. /\ phase' = [phase EXCEPT ![o] = IF "comm" = "comm" THEN "waiting" ELSE "creating"]
        /\ components' = IF "comm" = "submit" THEN components + 1 ELSE components
        /\ "comm" \in {"submit", "wait", "comm"}
    BY <1>2
  <2>3. \A p \in R : kind[p] = "submit" /\ phase[p] \notin {"none", "release", "gone"}
    BY <1>g, <1>r DEF IInv, ReaderOK, Registered
  <2> QED
    BY <1>1, <1>2, <1>3, <2>1, <2>2, <2>3, NewbornKeeps
<1>6. Building'
  <2>1. /\ phase'[o] = "waiting" /\ kind'[o] = "comm"
        /\ \A q \in Obj : q # o => phase'[q] = phase[q] /\ kind'[q] = kind[q]
    BY <1>2 DEF IInv, TypeOK
  <2> QED
    BY <1>4, <1>g, <1>n, <2>1 DEF CInv, Building, Submitting
<1>7. Groups'
  <2>1. \A a \in Addr : commDO[a] # NULL /\ commDO[a] \in succ'[par.cur] =>
          commDO[a] \in succ[par.cur]
    BY <1>2, <1>g, <1>n
  <2>2. Mode' = Mode
    BY <1>3, <1>4, <1>g, <1>n DEF Mode
  <2> QED
    BY <1>2, <1>4, <1>g, <2>1, <2>2 DEF CInv, Groups, AtAccess, AtGroup, Submitting
<1>8. Exact'
  <2>1. \A q : IsFake(q)' <=> IsFake(q)
    BY <1>4, <1>g DEF IsFake
  <2>2. \A q : IsOpen(q)' <=> IsOpen(q)
    BY <1>2 DEF IsOpen
  <2>3. \A q \in Obj : q # o => (q = par'.init <=> q = par.init)
    BY <1>4 DEF NULL, Obj
  <2>4. (numPred[o] = CountOf(o))'
    <3>1. Fake(o)' = 0 /\ Open(o)' = 0 /\ Initial(o)' = 1
      BY <1>4, <1>n, <2>1, <2>2 DEF Fake, Open, Initial, IsFake, IsOpen
    <3> QED
      BY <1>3, <1>5, <1>c, <3>1 DEF CountOf
  <2> QED
    BY <1>1, <1>3, <1>5, <2>1, <2>2, <2>3, <2>4, NewbornExact
<1> QED
  BY <1>5, <1>6, <1>7, <1>8 DEF CInv

\* Objects that are neither under construction nor gone may go on; the object the parent is
\* about to release may not.
LEMMA BuildingMove ==
  ASSUME IInv, CInv, UNCHANGED kind, par'.cur = par.cur,
         par'.pc \in Submitting <=> par.pc \in Submitting,
         par'.pc = "release" <=> par.pc = "release", par'.pc = "wait" <=> par.pc = "wait",
         \A q \in Obj : \/ phase'[q] = phase[q]
                        \/ /\ phase'[q] # "creating" /\ phase[q] \notin {"creating", "gone"}
                           /\ ~ (q = par.cur /\ par.pc = "release")
  PROVE  Building'
<1>1. par.pc \in Submitting \cup {"release"} => par.cur \in Obj
  BY DEF IInv, ParentOK
<1>2. par.pc \in Submitting \cup {"release"} => phase'[par.cur] = phase[par.cur]
  BY <1>1 DEF CInv, Building
<1>3. \A q \in Obj : phase'[q] = "creating" => phase[q] = "creating"
  OBVIOUS
<1>4. \A q \in Obj : phase'[q] # "gone" => phase[q] # "gone"
  OBVIOUS
<1> QED
  BY <1>2, <1>3, <1>4 DEF CInv, Building

\* The dummy of an initial CommutationDO is dropped.
LEMMA DropInitialDummyCounts == ASSUME IInv, CInv, IInv', DropInitialDummy PROVE CInv'
<1>1. /\ UNCHANGED <<lastDepObjId, kind, acc, succ, submitted, commDO, owner, components,
                     cursor, checked, batch>>
      /\ par.pc = "drop" /\ par'.pc = "next"
      /\ par'.cur = par.cur /\ par'.init = NULL /\ par'.addr = par.addr
      /\ par'.todo = par.todo
  BY DEF DropInitialDummy, ParentMoves, identity, domain, loops, IInv, TypeOK, ParentStates
<1>2. Groups'
  BY <1>1 DEF CInv, Groups, AtAccess, AtGroup, Submitting
<1>3. CASE par.init = NULL
  <2>1. UNCHANGED <<numPred, phase, tasksInGraph, caller>>
    BY <1>3 DEF DropInitialDummy
  <2>2. SameParent
    BY <1>1, <1>3 DEF SameParent, Submitting
  <2> QED
    BY <1>1, <1>2, <2>1, <2>2, ParentOnly
<1>4. CASE par.init # NULL
  <2>1. PICK o \in Obj : o = par.init
    BY <1>4 DEF IInv, TypeOK, ParentStates
  <2>2. DecreasePredecessors(o, Parent)
    BY <1>4, <2>1 DEF DropInitialDummy
  <2>3. /\ o \in Created /\ numPred[o] = CountOf(o)
        /\ numPred[o] \in Nat /\ numPred[o] >= 1 /\ phase[o] \in Blocked
        /\ \A q \in Obj : checked[q] # o
    BY <2>1, DummyFacts, DummyUnchecked
  <2>4. numPred[o] = 1 => phase[o] # "creating"
    <3> SUFFICES ASSUME numPred[o] = 1, phase[o] = "creating" PROVE FALSE
      OBVIOUS
    <3>1. IsFake(o)
      BY <1>1 DEF CInv, Building, IsFake
    <3>2. Fake(o) = 1 /\ Initial(o) = 1 /\ Open(o) \in Nat
      BY <2>1, <3>1 DEF Fake, Initial, Open
    <3>3. Cardinality(Preds(o)) \in Nat
      BY PredsFinite
    <3> QED
      BY <2>3, <3>2, <3>3 DEF CountOf
  <2>5. /\ Born' /\ Lives' /\ EdgeKinds' /\ Submission' /\ Zero' /\ Batches'
        /\ TotalsExact' /\ Callers' /\ Owners'
    <3>1. Parent \in Obj \cup {Parent} /\ Parent \notin Obj
      BY DEF Parent, Obj
    <3> QED
      BY <1>1, <2>2, <2>3, <2>4, <3>1, DropKeeps
  <2>6. /\ \A q \in Obj : q # o => phase'[q] = phase[q] /\ numPred'[q] = numPred[q]
        /\ numPred'[o] = numPred[o] - 1
        /\ \/ phase'[o] = phase[o]
           \/ phase[o] = "waiting" /\ phase'[o] \in {"ready", "satisfied"}
    BY <2>2, <2>3, <2>4, DecreaseEffect
  <2>7. Walk'
    BY <1>1, <2>6 DEF CInv, Walk
  <2>8. Building'
    <3>1. \A q \in Obj : \/ phase'[q] = phase[q]
                         \/ /\ phase'[q] # "creating" /\ phase[q] \notin {"creating", "gone"}
                            /\ ~ (q = par.cur /\ par.pc = "release")
      BY <1>1, <2>6
    <3> QED
      BY <1>1, <3>1, BuildingMove DEF Submitting
  <2>9. Exact'
    <3>1. \A p \in Obj : \A q : Edge(p, q)' <=> Edge(p, q)
      BY <1>1, <2>6, SameEdges
    <3>2. \A q : (IsFake(q)' <=> IsFake(q)) /\ (IsOpen(q)' <=> IsOpen(q))
      BY <1>1 DEF IsFake, IsOpen
    <3>3. SUFFICES ASSUME NEW q \in Created PROVE (numPred[q] = CountOf(q))'
      BY <1>1 DEF Exact, Created
    <3>4. q \in Obj /\ q # NULL
      BY CreatedObj DEF NULL, Obj
    <3>5. Cardinality(Preds(q)') = Cardinality(Preds(q)) /\ Cardinality(Preds(q)) \in Nat
      BY <3>1, PredsSame, PredsFinite
    <3>6. /\ Fake(q)' = Fake(q) /\ Open(q)' = Open(q) /\ Initial(q)' = 0
          /\ Fake(q) \in Nat /\ Open(q) \in Nat
      BY <1>1, <3>2, <3>4 DEF Fake, Open, Initial
    <3>7. numPred[q] = CountOf(q)
      BY DEF CInv, Exact
    <3>8. CASE q = o
      <4>1. Initial(q) = 1
        BY <2>1, <3>8 DEF Initial
      <4> QED
        BY <2>6, <3>5, <3>6, <3>7, <3>8, <4>1 DEF CountOf
    <3>9. CASE q # o
      <4>1. Initial(q) = 0 /\ numPred'[q] = numPred[q]
        BY <2>1, <2>6, <3>4, <3>9 DEF Initial
      <4> QED
        BY <3>5, <3>6, <3>7, <4>1 DEF CountOf
    <3> QED
      BY <3>8, <3>9
  <2> QED
    BY <1>2, <2>5, <2>7, <2>8, <2>9 DEF CInv
<1> QED
  BY <1>3, <1>4

\* The fake predecessor is dropped.
LEMMA ReleaseFakeCounts == ASSUME IInv, CInv, IInv', ReleaseFake PROVE CInv'
<1>1. /\ UNCHANGED <<lastDepObjId, kind, acc, succ, submitted, commDO, owner, components,
                     cursor, checked, batch>>
      /\ par.pc = "release" /\ par'.pc = IF Waits THEN "wait" ELSE "idle"
      /\ par'.cur = par.cur /\ par'.init = par.init /\ par.init = NULL
  BY DEF ReleaseFake, ParentMoves, Goto, identity, domain, loops, IInv, TypeOK, ParentStates,
     CInv, Groups
<1>2. Groups'
  BY <1>1 DEF CInv, Groups, AtAccess, Submitting
<1>3. PICK o \in Obj : o = par.cur
  BY <1>1 DEF IInv, ParentOK
<1>4. DecreasePredecessors(o, Parent) /\ IsFake(o) /\ phase[o] = "waiting"
  BY <1>1, <1>3 DEF ReleaseFake, IsFake, CInv, Building
<1>5. /\ o \in Created /\ numPred[o] = CountOf(o)
      /\ numPred[o] \in Nat /\ numPred[o] >= 1 /\ phase[o] \in Blocked
      /\ \A q \in Obj : checked[q] # o
  BY <1>4, DummyFacts, DummyUnchecked
<1>6. /\ Born' /\ Lives' /\ EdgeKinds' /\ Submission' /\ Zero' /\ Batches'
      /\ TotalsExact' /\ Callers' /\ Owners'
  <2>1. Parent \in Obj \cup {Parent} /\ Parent \notin Obj
    BY DEF Parent, Obj
  <2> QED
    BY <1>1, <1>4, <1>5, <2>1, DropKeeps
<1>7. /\ \A q \in Obj : q # o => phase'[q] = phase[q] /\ numPred'[q] = numPred[q]
      /\ numPred'[o] = numPred[o] - 1
      /\ phase'[o] \in {"waiting", "ready", "satisfied"}
  BY <1>4, <1>5, DecreaseEffect
<1>8. Walk'
  BY <1>1, <1>4, <1>7 DEF CInv, Walk
<1>9. Building'
  <2>1. \A q \in Obj : phase'[q] # "creating"
    BY <1>1, <1>7 DEF CInv, Building, Submitting
  <2>2. \A q \in Obj : kind[q] = "wait" /\ phase'[q] # "gone" => q = par.cur
    BY <1>3, <1>7 DEF CInv, Building
  <2> QED
    BY <1>1, <2>1, <2>2 DEF Building, Submitting, Waits
<1>10. Exact'
  <2>1. \A p \in Obj : \A q : Edge(p, q)' <=> Edge(p, q)
    BY <1>1, <1>4, <1>7, SameEdges
  <2>2. \A q : ~ IsFake(q)' /\ (IsOpen(q)' <=> IsOpen(q)) /\ (IsFake(q) <=> q = o)
    BY <1>1, <1>3 DEF IsFake, IsOpen
  <2>3. SUFFICES ASSUME NEW q \in Created PROVE (numPred[q] = CountOf(q))'
    BY <1>1 DEF Exact, Created
  <2>4. q \in Obj
    BY CreatedObj
  <2>5. Cardinality(Preds(q)') = Cardinality(Preds(q)) /\ Cardinality(Preds(q)) \in Nat
    BY <2>1, PredsSame, PredsFinite
  <2>6. /\ Fake(q)' = 0 /\ Open(q)' = Open(q) /\ Initial(q)' = Initial(q)
        /\ Initial(q) \in Nat /\ Open(q) \in Nat
    BY <1>1, <2>2 DEF Fake, Open, Initial
  <2>7. numPred[q] = CountOf(q)
    BY DEF CInv, Exact
  <2>8. CASE q = o
    <3>1. Fake(q) = 1
      BY <2>2, <2>8 DEF Fake
    <3> QED
      BY <1>7, <2>5, <2>6, <2>7, <2>8, <3>1 DEF CountOf
  <2>9. CASE q # o
    <3>1. Fake(q) = 0 /\ numPred'[q] = numPred[q]
      BY <1>7, <2>2, <2>4, <2>9 DEF Fake
    <3> QED
      BY <2>5, <2>6, <2>7, <3>1 DEF CountOf
  <2> QED
    BY <2>8, <2>9
<1> QED
  BY <1>2, <1>6, <1>8, <1>9, <1>10 DEF CInv

\* The task joins an open group, which it has not joined before.
LEMMA JoinGroupCounts == ASSUME IInv, CInv, IInv', JoinGroup PROVE CInv'
<1>1. /\ UNCHANGED <<lastDepObjId, kind, acc, phase, submitted, commDO, owner, components,
                     tasksInGraph, cursor, checked, batch, caller>>
      /\ par.pc = "target" /\ par'.pc = "lookup"
      /\ par'.cur = par.cur /\ par'.init = par.init /\ par'.addr = par.addr
      /\ par'.todo = par.todo
  BY DEF JoinGroup, ParentMoves, Goto, identity, domain, loops, IInv, TypeOK, ParentStates
<1>p. SameParent
  BY <1>1 DEF SameParent, Submitting
<1>g. /\ par.cur \in Obj /\ par.addr \in Addr /\ Mode \in GroupModes
      /\ kind[par.cur] = "submit" /\ phase[par.cur] = "creating" /\ par.pc \in AtGroup
  BY <1>1, AtGroupFacts DEF AtGroup
<1>2. PICK t \in Obj : t = par.cur
  BY <1>g
<1>3. PICK c \in Obj : c = commDO[par.addr]
  BY <1>g DEF JoinGroup, IInv, TypeOK
<1>4. /\ IsOpen(c) /\ kind[c] = "comm" /\ c # NULL
  BY <1>3, <1>g DEF IsOpen, JoinGroup, IInv, GroupOK
<1>5. /\ c \in Created /\ numPred[c] = CountOf(c)
      /\ numPred[c] \in Nat /\ numPred[c] >= 1 /\ phase[c] \in Blocked
      /\ \A q \in Obj : checked[q] # c
  BY <1>4, DummyFacts, DummyUnchecked
<1>6. /\ c \notin succ[t] /\ c # t /\ phase[t] = "creating" /\ kind[t] = "submit"
  BY <1>2, <1>3, <1>4, <1>g DEF CInv, Groups, AtGroup, Submitting
<1>7. /\ numPred'[c] = numPred[c] + 1
      /\ \A q \in Obj : q # c => numPred'[q] = numPred[q]
      /\ succ'[t] = succ[t] \cup {c}
      /\ \A q \in Obj : q # t => succ'[q] = succ[q]
  BY <1>2, <1>3 DEF JoinGroup, IInv, TypeOK
<1>8. Created' = Created /\ InGraph' = InGraph /\ Children' = Children
  BY <1>1 DEF Created, InGraph, Children
<1>9. Born' /\ Lives' /\ Walk'
  BY <1>1, <1>6, <1>7, <1>8 DEF CInv, Born, Lives, Walk
<1>10. EdgeKinds'
  BY <1>1, <1>6, <1>7 DEF CInv, EdgeKinds
<1>11. Building' /\ Submission'
  BY <1>1, <1>p DEF CInv, Building, Submission, SameParent
<1>12. Zero'
  BY <1>1, <1>5, <1>7 DEF CInv, Zero
<1>13. Batches'
  <2>1. \A q \in Obj : checked[q] # NULL => checked[q] \in Obj /\ checked[q] # c
    BY <1>5 DEF IInv, TypeOK
  <2>2. \A q \in Obj : batch[q] \in SUBSET Obj /\ (phase[q] = "release" => c \notin batch[q])
    BY <1>5 DEF IInv, TypeOK, CInv, Batches
  <2> QED
    BY <1>1, <1>7, <2>1, <2>2 DEF CInv, Batches
<1>14. TotalsExact' /\ Callers' /\ Owners'
  BY <1>1, <1>8 DEF CInv, TotalsExact, Callers, Owners
<1>15. Groups'
  <2>1. par.addr \notin par.todo /\ par.pc \in Submitting
    BY <1>1 DEF CInv, Groups, AtAccess, Submitting
  <2>2. \A a \in Addr : commDO[a] = c => a = par.addr
    BY <1>3, <1>4, <1>g DEF CInv, Groups
  <2>3. \A a \in Addr : commDO[a] # NULL /\ commDO[a] \in succ'[par.cur] => a \notin par.todo
    BY <1>2, <1>7, <2>1, <2>2 DEF CInv, Groups
  <2>4. Mode' = Mode
    BY <1>1 DEF Mode
  <2> QED
    BY <1>1, <1>g, <2>1, <2>3, <2>4 DEF CInv, Groups, AtGroup
<1>16. Exact'
  <2>1. \A q : IsFake(q)' <=> IsFake(q)
    BY <1>p, SameFake
  <2>2. \A q : IsOpen(q)' <=> IsOpen(q)
    BY <1>1 DEF IsOpen
  <2>3. \A p \in Obj : \A q \in Obj : Edge(p, q)' <=> Edge(p, q) \/ (q = c /\ p = t)
    BY <1>1, <1>6, <1>7 DEF Edge
  <2>4. ~ Edge(t, c)
    BY <1>6 DEF Edge
  <2>5. SUFFICES ASSUME NEW q \in Created PROVE (numPred[q] = CountOf(q))'
    BY <1>8 DEF Exact
  <2>6. q \in Obj
    BY CreatedObj
  <2>7. /\ Fake(q)' = Fake(q) /\ Open(q)' = Open(q) /\ Initial(q)' = Initial(q)
        /\ Fake(q) \in Nat /\ Open(q) \in Nat /\ Initial(q) \in Nat
    BY <1>1, <2>1, <2>2 DEF Fake, Open, Initial
  <2>8. numPred[q] = CountOf(q) /\ Cardinality(Preds(q)) \in Nat
    BY PredsFinite DEF CInv, Exact
  <2>9. CASE q = c
    <3>1. Cardinality(Preds(q)') = Cardinality(Preds(q)) + 1
      BY <2>3, <2>4, <2>9, PredsMore
    <3> QED
      BY <1>7, <2>7, <2>8, <2>9, <3>1 DEF CountOf
  <2>10. CASE q # c
    <3>1. Cardinality(Preds(q)') = Cardinality(Preds(q)) /\ numPred'[q] = numPred[q]
      BY <1>7, <2>3, <2>6, <2>10, PredsSame
    <3> QED
      BY <2>7, <2>8, <3>1 DEF CountOf
  <2> QED
    BY <2>9, <2>10
<1> QED
  BY <1>9, <1>10, <1>11, <1>12, <1>13, <1>14, <1>15, <1>16 DEF CInv

\* The object is complete and counted.
LEMMA SubmitCounts == ASSUME IInv, CInv, IInv', Submit PROVE CInv'
<1>1. /\ UNCHANGED <<lastDepObjId, kind, acc, numPred, succ, commDO, owner, components,
                     cursor, checked, batch, caller>>
      /\ tasksInGraph' = tasksInGraph + 1
      /\ par.pc = "next" /\ par'.pc = "release"
      /\ par'.cur = par.cur /\ par'.init = par.init /\ par.init = NULL
  BY DEF Submit, ParentMoves, Goto, identity, graph, domain, loops, IInv, TypeOK,
     ParentStates, CInv, Groups
<1>2. PICK o \in Obj : o = par.cur
  BY <1>1 DEF IInv, ParentOK, Submitting
<1>3. /\ phase[o] = "creating" /\ kind[o] \in {"submit", "wait"}
      /\ \A q \in Obj : phase[q] = "creating" => q = o
      /\ \A q \in Obj : kind[q] = "wait" /\ phase[q] # "gone" => q = o
  BY <1>1, <1>2 DEF CInv, Building, Submitting, IInv, ParentOK
<1>4. /\ phase'[o] = "waiting" /\ submitted'[o]
      /\ \A q \in Obj : q # o => phase'[q] = phase[q] /\ submitted'[q] = submitted[q]
  BY <1>2 DEF Submit, IInv, TypeOK
<1>5. Created' = Created
  BY <1>1 DEF Created
<1>6. Born' /\ Lives' /\ Walk' /\ EdgeKinds'
  <2>1. Born'
    BY <1>1, <1>3, <1>4, <1>5 DEF CInv, Born
  <2>2. Lives'
    BY <1>1, <1>3, <1>4 DEF CInv, Lives
  <2>3. Walk'
    BY <1>1, <1>3, <1>4 DEF CInv, Walk
  <2> QED
    BY <1>1, <2>1, <2>2, <2>3 DEF CInv, EdgeKinds
<1>7. Building'
  BY <1>1, <1>2, <1>3, <1>4 DEF Building, Submitting
<1>8. Submission' /\ Zero'
  BY <1>1, <1>3, <1>4 DEF CInv, Submission, Zero, Blocked
<1>9. Batches'
  <2>1. \A q \in Obj : checked[q] # NULL => checked[q] \in Obj /\ checked[q] # o
    BY <1>3 DEF IInv, TypeOK, CInv, Batches
  <2>2. \A q \in Obj : batch[q] \in SUBSET Obj /\ (phase[q] = "release" => o \notin batch[q])
    BY <1>3 DEF IInv, TypeOK, CInv, Batches
  <2>3. \A q \in Obj : phase'[q] = "release" <=> phase[q] = "release"
    BY <1>3, <1>4
  <2> QED
    BY <1>1, <1>4, <2>1, <2>2, <2>3 DEF CInv, Batches
<1>10. TotalsExact'
  <2>1. Children' = Children
    BY <1>1, <1>3, <1>4 DEF Children
  <2>2. InGraph \in SUBSET Obj /\ InGraph' \in SUBSET Obj
    BY DEF InGraph
  <2>3. o \notin InGraph /\ \A p \in Obj : p \in InGraph' <=> p \in InGraph \/ p = o
    BY <1>1, <1>3, <1>4 DEF InGraph
  <2>4. Cardinality(InGraph') = Cardinality(InGraph) + 1
    BY <2>2, <2>3, OneMore
  <2> QED
    BY <1>1, <2>1, <2>4 DEF CInv, TotalsExact
<1>11. Callers'
  <2>1. \A c \in Obj : caller[c] \in Obj /\ phase[c] # "gone" => caller[c] # o
    BY <1>3 DEF CInv, Callers
  <2>2. \A c \in Obj : /\ phase'[c] # "gone" <=> phase[c] # "gone"
                       /\ kind[c] = "comm" => phase'[c] = phase[c]
    BY <1>3, <1>4
  <2> QED
    BY <1>1, <1>4, <2>1, <2>2 DEF CInv, Callers
<1>12. Owners'
  <2>1. \A a \in Addr : owner[a] \in Obj \cup {NULL}
    BY DEF IInv, TypeOK
  <2>2. \A a \in Addr : owner[a] # NULL => owner[a] # o
    BY <1>3 DEF CInv, Owners
  <2> QED
    BY <1>1, <1>4, <2>1, <2>2 DEF CInv, Owners
<1>13. Groups'
  BY <1>1 DEF CInv, Groups, AtAccess, Submitting
<1>14. Exact'
  <2>1. \A p \in Obj : \A q : Edge(p, q)' <=> Edge(p, q)
    BY <1>1, <1>3, <1>4, SameEdges
  <2>2. \A q : (IsFake(q)' <=> IsFake(q)) /\ (IsOpen(q)' <=> IsOpen(q))
    BY <1>1 DEF IsFake, IsOpen
  <2> QED
    BY <1>1, <1>5, <2>1, <2>2, SameCounts
<1> QED
  BY <1>6, <1>7, <1>8, <1>9, <1>10, <1>11, <1>12, <1>13, <1>14 DEF CInv

\* A wait returns; it precedes nobody.
LEMMA WaitReturnsCounts == ASSUME IInv, CInv, IInv', WaitReturns PROVE CInv'
<1>1. /\ UNCHANGED <<lastDepObjId, kind, acc, numPred, succ, submitted, commDO, owner,
                     components, tasksInGraph, cursor, checked, batch, caller>>
      /\ par.pc = "wait" /\ par'.pc = "idle"
      /\ par'.cur = par.cur /\ par'.init = par.init /\ par.init = NULL
  BY DEF WaitReturns, ParentMoves, Goto, identity, graph, domain, loops, IInv, TypeOK,
     ParentStates, CInv, Groups
<1>2. PICK o \in Obj : o = par.cur
  BY <1>1 DEF IInv, ParentOK, Submitting
<1>3. /\ phase[o] = "satisfied" /\ kind[o] = "wait" /\ succ[o] = {}
      /\ \A q \in Obj : phase[q] # "creating"
      /\ \A q \in Obj : kind[q] = "wait" /\ phase[q] # "gone" => q = o
  BY <1>1, <1>2 DEF WaitReturns, CInv, Building, EdgeKinds, Submitting, IInv, ParentOK
<1>4. phase'[o] = "gone" /\ \A q \in Obj : q # o => phase'[q] = phase[q]
  BY <1>2 DEF WaitReturns, IInv, TypeOK
<1>5. Created' = Created /\ InGraph' = InGraph /\ Children' = Children
  BY <1>1, <1>3, <1>4 DEF Created, InGraph, Children
<1>6. Born' /\ Lives' /\ Walk' /\ EdgeKinds'
  <2>1. Born'
    BY <1>1, <1>3, <1>4, <1>5 DEF CInv, Born
  <2>2. Lives'
    BY <1>1, <1>3, <1>4 DEF CInv, Lives
  <2>3. Walk'
    BY <1>1, <1>3, <1>4 DEF CInv, Walk
  <2> QED
    BY <1>1, <2>1, <2>2, <2>3 DEF CInv, EdgeKinds
<1>7. Building'
  BY <1>1, <1>2, <1>3, <1>4 DEF Building, Submitting
<1>8. Submission' /\ Zero'
  BY <1>1, <1>3, <1>4 DEF CInv, Submission, Zero, Blocked
<1>9. Batches'
  <2>1. \A q \in Obj : checked[q] # NULL => checked[q] \in Obj /\ checked[q] # o
    BY <1>3 DEF IInv, TypeOK, CInv, Batches
  <2>2. \A q \in Obj : batch[q] \in SUBSET Obj /\ (phase[q] = "release" => o \notin batch[q])
    BY <1>3 DEF IInv, TypeOK, CInv, Batches
  <2>3. \A q \in Obj : phase'[q] = "release" <=> phase[q] = "release"
    BY <1>3, <1>4
  <2> QED
    BY <1>1, <1>4, <2>1, <2>2, <2>3 DEF CInv, Batches
<1>10. TotalsExact'
  BY <1>1, <1>5 DEF CInv, TotalsExact
<1>11. Callers'
  <2>1. \A c \in Obj : caller[c] \in Obj /\ phase[c] # "gone" => caller[c] # o
    BY <1>3 DEF CInv, Callers
  <2>2. \A c \in Obj : /\ phase'[c] # "gone" => phase[c] # "gone"
                       /\ kind[c] = "comm" => phase'[c] = phase[c]
    BY <1>3, <1>4
  <2> QED
    BY <1>1, <1>4, <2>1, <2>2 DEF CInv, Callers
<1>12. Owners'
  <2>1. \A a \in Addr : owner[a] \in Obj \cup {NULL}
    BY DEF IInv, TypeOK
  <2>2. \A a \in Addr : owner[a] # NULL => owner[a] # o
    BY <1>3 DEF CInv, Owners
  <2> QED
    BY <1>1, <1>4, <2>1, <2>2 DEF CInv, Owners
<1>13. Groups'
  BY <1>1 DEF CInv, Groups, AtAccess, Submitting
<1>14. Exact'
  <2>1. \A p \in Obj : \A q : Edge(p, q)' <=> Edge(p, q)
    BY <1>1, <1>3, <1>4 DEF Edge
  <2>2. \A q : (IsFake(q)' <=> IsFake(q)) /\ (IsOpen(q)' <=> IsOpen(q))
    BY <1>1 DEF IsFake, IsOpen
  <2> QED
    BY <1>1, <1>5, <2>1, <2>2, SameCounts
<1> QED
  BY <1>6, <1>7, <1>8, <1>9, <1>10, <1>11, <1>12, <1>13, <1>14 DEF CInv

-----------------------------------------------------------------------------
(* The workers' steps.                                                     *)

\* A worker changes nothing that the groups depend on.
LEMMA GroupsKept ==
  ASSUME IInv, CInv, UNCHANGED <<acc, commDO, par>>,
         \A p \in Obj : succ'[p] \subseteq succ[p]
  PROVE  Groups'
<1>1. Mode' = Mode
  BY DEF Mode
<1>2. par.pc \in Submitting => par.cur \in Obj
  BY DEF IInv, ParentOK
<1> QED
  BY <1>1, <1>2 DEF CInv, Groups

\* An object that waits for nobody goes on: it runs, or goes on in finished(); the release
\* loop starts from its successors.
LEMMA MoveCounts ==
  ASSUME IInv, CInv, IInv', Owners', NEW o \in Obj,
         UNCHANGED <<lastDepObjId, kind, acc, numPred, succ, submitted, commDO, par,
                     components, tasksInGraph, checked, batch, caller>>,
         \A q \in Obj : q # o => phase'[q] = phase[q] /\ cursor'[q] = cursor[q],
         phase[o] \in {"ready", "held", "running", "asked", "satisfied", "unregister", "unread"},
         phase[o] = "held" => numPred[o] = 0,
         phase[o] = "satisfied" => kind[o] = "comm",
         phase'[o] \in {"running", "unregister", "unread", "release"},
         phase'[o] = "running" => kind[o] = "submit",
         phase'[o] = "release" => cursor'[o] = succ[o]
  PROVE  CInv'
<1>1. kind[o] \in {"submit", "comm"}
  BY DEF IInv, TypeOK, CInv, Lives
<1>2. Created' = Created /\ InGraph' = InGraph /\ Children' = Children
  BY DEF Created, InGraph, Children
<1>3. Born' /\ EdgeKinds' /\ TotalsExact'
  BY <1>2 DEF CInv, Born, EdgeKinds, TotalsExact
<1>4. Lives'
  BY <1>1 DEF CInv, Lives, Finishing
<1>5. Walk'
  BY DEF CInv, Walk
<1>6. Groups'
  BY GroupsKept
<1>7. Building'
  <2>1. ~ (o = par.cur /\ par.pc = "release")
    BY DEF CInv, Building
  <2> QED
    BY <2>1, BuildingMove
<1>8. Submission' /\ Zero'
  BY DEF CInv, Submission, Zero, Blocked
<1>9. Batches'
  <2>1. \A q \in Obj : checked[q] # NULL => checked[q] # o
    BY DEF CInv, Batches
  <2>2. \A q \in Obj : checked[q] \in Obj \cup {NULL} /\ batch[q] \in SUBSET Obj
    BY DEF IInv, TypeOK
  <2>3. \A q \in Obj : phase[q] = "release" => o \notin batch[q]
    BY DEF CInv, Batches
  <2>4. batch[o] = {}
    BY DEF CInv, Walk
  <2> QED
    BY <2>1, <2>2, <2>3, <2>4 DEF CInv, Batches
<1>10. Callers'
  <2>1. \A c \in Obj : caller[c] \in Obj /\ phase[c] # "gone" => caller[c] # o
    BY DEF CInv, Callers
  <2> QED
    BY <2>1 DEF CInv, Callers
<1>11. Exact'
  <2>1. \A p \in Obj : \A q : Edge(p, q)' <=> Edge(p, q)
    BY DEF Edge
  <2>2. \A q : (IsFake(q)' <=> IsFake(q)) /\ (IsOpen(q)' <=> IsOpen(q))
    BY DEF IsFake, IsOpen
  <2> QED
    BY <1>2, <2>1, <2>2, SameCounts
<1> QED
  BY <1>3, <1>4, <1>5, <1>6, <1>7, <1>8, <1>9, <1>10, <1>11 DEF CInv

\* A task starts.
LEMMA StartCounts == ASSUME IInv, CInv, IInv', NEW t \in Obj, Start(t) PROVE CInv'
<1>1. /\ UNCHANGED <<lastDepObjId, kind, acc, numPred, succ, submitted, commDO, par,
                     components, tasksInGraph, cursor, checked, batch, caller>>
      /\ phase[t] = "ready" \/ (phase[t] = "held" /\ numPred[t] = 0)
      /\ phase'[t] = "running" /\ \A q \in Obj : q # t => phase'[q] = phase[q]
  BY DEF Start, identity, graph, domain, loops, IInv, TypeOK
<1>2. kind[t] = "submit"
  BY <1>1 DEF IInv, TypeOK, CInv, Lives, Finishing
<1>3. Owners'
  <2>1. \A a \in Addr : owner[a] \in Obj \cup {NULL}
    BY DEF IInv, TypeOK
  <2>2. \A a \in Addr : owner'[a] = IF acc[t][a] = Commutative THEN t ELSE owner[a]
    BY DEF Start, Acquire, GroupsOf
  <2> QED
    BY <1>1, <2>1, <2>2 DEF CInv, Owners
<1> QED
  BY <1>1, <1>2, <1>3, MoveCounts

\* What a step of finished() does to the phase and to the release loop.
LEMMA AdvanceEffect ==
  ASSUME IInv, NEW o \in Obj, NEW W, NEW R, Advance(o, W, R)
  PROVE  /\ \A q \in Obj : q # o => phase'[q] = phase[q] /\ cursor'[q] = cursor[q]
         /\ phase'[o] \in {"unregister", "unread", "release"}
         /\ phase'[o] = "release" => cursor'[o] = succ[o]
BY DEF Advance, IInv, TypeOK

\* A task ends: it gives its owner slots back and enters finished().
LEMMA DoneCounts == ASSUME IInv, CInv, IInv', NEW t \in Obj, Done(t) PROVE CInv'
<1>1. /\ UNCHANGED <<lastDepObjId, kind, acc, numPred, succ, submitted, commDO, par,
                     components, tasksInGraph, checked, batch, caller>>
      /\ phase[t] \in {"running", "asked"}
  BY DEF Done, identity, graph, domain
<1>2. /\ \A q \in Obj : q # t => phase'[q] = phase[q] /\ cursor'[q] = cursor[q]
      /\ phase'[t] \in {"unregister", "unread", "release"}
      /\ phase'[t] = "release" => cursor'[t] = succ[t]
  BY AdvanceEffect DEF Done
<1>3. Owners'
  <2>1. \A a \in Addr : owner[a] \in Obj \cup {NULL}
    BY DEF IInv, TypeOK
  <2>2. \A a \in Addr : owner'[a] = IF acc[t][a] = Commutative THEN NULL ELSE owner[a]
    BY DEF Done, GroupsOf
  <2>3. \A a \in Addr : owner'[a] # NULL => owner'[a] = owner[a] /\ owner[a] # t
    BY <2>2 DEF CInv, Owners
  <2> QED
    BY <1>1, <1>2, <2>1, <2>3 DEF CInv, Owners
<1> QED
  BY <1>1, <1>2, <1>3, MoveCounts

\* A CommutationDO without predecessors is in no open group any more.
LEMMA RemoveNothing ==
  ASSUME IInv, CInv, NEW c \in Obj, RemoveCommDO(c) PROVE commDO' = commDO
<1>1. phase[c] \notin Blocked
  BY DEF RemoveCommDO, Moves, Blocked
<1>2. ~ IsOpen(c)
  BY <1>1, DummyFacts
<1>3. \A a \in Addr : commDO[a] # c
  BY <1>2 DEF IsOpen
<1> QED
  BY <1>3 DEF RemoveCommDO, IInv, TypeOK

\* The steps of finished() before the release loop leave the owner slots alone.
LEMMA FinishCounts ==
  ASSUME IInv, CInv, IInv', NEW o \in Obj,
         RemoveCommDO(o) \/ DeleteLastWriter(o) \/ \E a \in Addr : DeleteReader(o, a)
  PROVE  CInv'
<1>1. /\ UNCHANGED <<lastDepObjId, kind, acc, numPred, succ, submitted, owner, par,
                     components, tasksInGraph, checked, batch, caller>>
      /\ \/ phase[o] = "satisfied" /\ kind[o] = "comm"
         \/ phase[o] \in {"unregister", "unread"}
  BY DEF RemoveCommDO, DeleteLastWriter, DeleteReader, Moves, identity, graph, domain
<1>2. \E W, R : Advance(o, W, R)
  BY DEF RemoveCommDO, DeleteLastWriter, DeleteReader
<1>3. /\ \A q \in Obj : q # o => phase'[q] = phase[q] /\ cursor'[q] = cursor[q]
      /\ phase'[o] \in {"unregister", "unread", "release"}
      /\ phase'[o] = "release" => cursor'[o] = succ[o]
  BY <1>2, AdvanceEffect
<1>4. commDO' = commDO
  BY RemoveNothing DEF DeleteLastWriter, DeleteReader
<1>5. Owners'
  <2>1. \A a \in Addr : owner[a] \in Obj \cup {NULL}
    BY DEF IInv, TypeOK
  <2>2. \A a \in Addr : owner[a] # NULL => owner[a] # o
    BY <1>1 DEF CInv, Owners
  <2> QED
    BY <1>1, <1>3, <2>1, <2>2 DEF CInv, Owners
<1> QED
  BY <1>1, <1>3, <1>4, <1>5, MoveCounts

\* The successor that an immediate-successor scheduler finds has no other predecessor,
\* waits in the graph and is being looked at by nobody else.
LEMMA ImmediateFacts ==
  ASSUME IInv, CInv, NEW t \in Obj, NEW s \in Obj, phase[t] \in {"held", "running"},
         IsImmediateSuccessor(t, s)
  PROVE  /\ s \in Created /\ kind[s] = "submit" /\ numPred[s] = 1 /\ submitted[s]
         /\ phase[s] = "waiting" /\ s # t /\ s \in succ[t]
         /\ ~ IsFake(s) /\ ~ IsOpen(s) /\ s # par.init
         /\ \A q \in Obj : Edge(q, s) <=> q = t
         /\ \A q \in Obj : checked[q] # s
<1>1. Edge(t, s) /\ kind[s] = "submit" /\ numPred[s] = 1 /\ submitted[s] /\ s \in succ[t]
  BY DEF IsImmediateSuccessor, Edge
<1>2. s \in Created /\ numPred[s] = CountOf(s) /\ phase[s] \in Blocked
  BY <1>1, EdgeFacts
<1>3. phase[s] = "waiting"
  BY <1>1, <1>2 DEF CInv, Submission, Blocked
<1>4. /\ ~ IsFake(s) /\ ~ IsOpen(s) /\ s # par.init
      /\ \A q \in Obj : Edge(q, s) <=> q = t
  BY <1>1, <1>2, LastEdge
<1>5. \A q \in Obj : checked[q] # s
  <2>1. SUFFICES ASSUME NEW q \in Obj, checked[q] = s PROVE FALSE
    OBVIOUS
  <2>2. checked[q] # NULL
    BY <2>1 DEF NULL, Obj
  <2>3. phase[q] = "release" /\ s \in cursor[q]
    BY <2>1, <2>2 DEF CInv, Walk
  <2>4. Edge(q, s)
    BY <2>3 DEF Edge
  <2> QED
    BY <1>4, <2>3, <2>4
<1> QED
  BY <1>1, <1>2, <1>3, <1>4, <1>5

\* A task that leaves the graph before it is released: what it keeps.
LEMMA LeaveKeeps ==
  ASSUME IInv, CInv, NEW s \in Obj, kind[s] = "submit", phase[s] = "waiting",
         ~ IsFake(s), \A q \in Obj : checked[q] # s, numPred[s] = 1,
         UNCHANGED <<lastDepObjId, kind, acc, commDO, par, components, cursor, checked, batch,
                     caller>>,
         \A q \in Obj : /\ succ'[q] \subseteq succ[q]
                        /\ q # s => numPred'[q] = numPred[q] /\ submitted'[q] = submitted[q],
         \A q \in Obj : \/ q # s /\ phase'[q] = phase[q]
                        \/ q # s /\ phase[q] = "running" /\ phase'[q] = "asked"
                        \/ q = s /\ phase'[q] = "ready" /\ numPred'[q] = 0
                        \/ q = s /\ phase'[q] = "held" /\ ~ submitted'[q],
         tasksInGraph' = tasksInGraph - 1,
         \A a \in Addr : owner'[a] = IF acc[s][a] = Commutative THEN s ELSE owner[a]
  PROVE  /\ Born' /\ Lives' /\ Groups' /\ EdgeKinds' /\ Building' /\ Submission' /\ Zero'
         /\ Batches' /\ TotalsExact' /\ Callers' /\ Owners'
<1>1. Born'
  BY DEF CInv, Born, Created
<1>2. Lives'
  BY DEF CInv, Lives, Finishing
<1>3. Groups' /\ EdgeKinds'
  BY GroupsKept DEF CInv, EdgeKinds
<1>4. Building'
  <2>1. ~ (s = par.cur /\ par.pc = "release")
    BY DEF IsFake
  <2>2. \A q \in Obj : phase[q] = "running" => ~ (q = par.cur /\ par.pc = "release")
    BY DEF CInv, Building
  <2> QED
    BY <2>1, <2>2, BuildingMove
<1>5. Submission'
  BY DEF CInv, Submission
<1>6. Zero'
  BY DEF CInv, Zero, Blocked
<1>7. Batches'
  <2>1. \A q \in Obj : checked[q] \in Obj \cup {NULL} /\ batch[q] \in SUBSET Obj
    BY DEF IInv, TypeOK
  <2>2. \A q \in Obj : phase[q] = "release" => s \notin batch[q]
    BY DEF CInv, Batches
  <2>3. \A q \in Obj : phase'[q] = "release" <=> phase[q] = "release"
    OBVIOUS
  <2>4. \A q \in Obj : q # s /\ phase[q] = "waiting" =>
          phase'[q] = "waiting" /\ numPred'[q] = numPred[q]
    OBVIOUS
  <2> QED
    BY <2>1, <2>2, <2>3, <2>4 DEF CInv, Batches
<1>8. TotalsExact'
  <2>1. Children' = Children
    BY DEF Children
  <2>2. InGraph \in SUBSET Obj /\ InGraph' \in SUBSET Obj
    BY DEF InGraph
  <2>3. s \notin InGraph' /\ \A p \in Obj : p \in InGraph <=> p \in InGraph' \/ p = s
    BY DEF InGraph
  <2>4. Cardinality(InGraph) = Cardinality(InGraph') + 1 /\ Cardinality(InGraph') \in Nat
    BY <2>2, <2>3, OneMore, ObjFinite
  <2> QED
    BY <2>1, <2>4 DEF CInv, TotalsExact
<1>9. Callers'
  <2>1. \A c \in Obj : caller[c] \in Obj /\ phase[c] # "gone" =>
          phase'[caller[c]] = "release" /\ kind[caller[c]] = "submit"
    BY DEF CInv, Callers
  <2>2. \A c \in Obj : kind[c] = "comm" => phase'[c] = phase[c]
    BY DEF CInv, Lives, Finishing
  <2> QED
    BY <2>1, <2>2 DEF CInv, Callers
<1>10. Owners'
  <2>1. \A a \in Addr : owner[a] \in Obj \cup {NULL}
    BY DEF IInv, TypeOK
  <2> QED
    BY <2>1 DEF CInv, Owners
<1> QED
  BY <1>1, <1>2, <1>3, <1>4, <1>5, <1>6, <1>7, <1>8, <1>9, <1>10

\* An immediate successor is taken, and its edge removed.
LEMMA TakeCounts ==
  ASSUME IInv, CInv, IInv', NEW t \in Obj, NEW s \in Obj, TakeImmediateSuccessor(t, s)
  PROVE  CInv'
<1>1. /\ UNCHANGED <<lastDepObjId, kind, acc, submitted, commDO, par, components, cursor,
                     checked, batch, caller>>
      /\ phase[t] = "running" /\ tasksInGraph' = tasksInGraph - 1
      /\ \A a \in Addr : owner'[a] = IF acc[s][a] = Commutative THEN s ELSE owner[a]
  BY DEF TakeImmediateSuccessor, Acquire, GroupsOf, identity, domain, loops
<1>2. /\ s \in Created /\ kind[s] = "submit" /\ numPred[s] = 1 /\ submitted[s]
      /\ phase[s] = "waiting" /\ s # t /\ s \in succ[t]
      /\ ~ IsFake(s) /\ ~ IsOpen(s) /\ s # par.init
      /\ \A q \in Obj : Edge(q, s) <=> q = t
      /\ \A q \in Obj : checked[q] # s
  BY <1>1, ImmediateFacts DEF TakeImmediateSuccessor
<1>3. /\ succ'[t] = succ[t] \ {s} /\ \A q \in Obj : q # t => succ'[q] = succ[q]
      /\ numPred'[s] = 0 /\ \A q \in Obj : q # s => numPred'[q] = numPred[q]
      /\ phase'[t] = "asked" /\ phase'[s] = "ready"
      /\ \A q \in Obj : q # s /\ q # t => phase'[q] = phase[q]
  BY <1>2 DEF TakeImmediateSuccessor, IInv, TypeOK
<1>4. /\ Born' /\ Lives' /\ Groups' /\ EdgeKinds' /\ Building' /\ Submission' /\ Zero'
      /\ Batches' /\ TotalsExact' /\ Callers' /\ Owners'
  BY <1>1, <1>2, <1>3, LeaveKeeps
<1>5. Walk'
  BY <1>1, <1>2, <1>3 DEF CInv, Walk
<1>6. Exact'
  <2>1. \A p, q \in Obj : Edge(p, q)' <=> Edge(p, q) /\ ~ (p = t /\ q = s)
    BY <1>1, <1>2, <1>3 DEF Edge
  <2>2. \A q : (IsFake(q)' <=> IsFake(q)) /\ (IsOpen(q)' <=> IsOpen(q))
    BY <1>1 DEF IsFake, IsOpen
  <2>3. SUFFICES ASSUME NEW q \in Created PROVE (numPred[q] = CountOf(q))'
    BY <1>1 DEF Exact, Created
  <2>4. q \in Obj
    BY CreatedObj
  <2>5. /\ Fake(q)' = Fake(q) /\ Open(q)' = Open(q) /\ Initial(q)' = Initial(q)
        /\ Fake(q) \in Nat /\ Open(q) \in Nat /\ Initial(q) \in Nat
    BY <1>1, <2>2 DEF Fake, Open, Initial
  <2>6. numPred[q] = CountOf(q) /\ Cardinality(Preds(q)) \in Nat
    BY PredsFinite DEF CInv, Exact
  <2>7. CASE q = s
    <3>1. Edge(t, s) /\ \A p \in Obj : Edge(p, s)' <=> Edge(p, s) /\ p # t
      BY <1>2, <2>1
    <3>2. Cardinality(Preds(q)') = Cardinality(Preds(q)) - 1
      BY <2>7, <3>1, PredsLess
    <3> QED
      BY <1>2, <1>3, <2>5, <2>6, <2>7, <3>2 DEF CountOf
  <2>8. CASE q # s
    <3>1. Cardinality(Preds(q)') = Cardinality(Preds(q)) /\ numPred'[q] = numPred[q]
      BY <1>3, <2>1, <2>4, <2>8, PredsSame
    <3> QED
      BY <2>5, <2>6, <3>1 DEF CountOf
  <2> QED
    BY <2>7, <2>8
<1> QED
  BY <1>4, <1>5, <1>6 DEF CInv

\* An immediate successor is held, and its edge kept.
LEMMA HoldCounts ==
  ASSUME IInv, CInv, IInv', NEW t \in Obj, NEW s \in Obj, HoldImmediateSuccessor(t, s)
  PROVE  CInv'
<1>1. /\ UNCHANGED <<lastDepObjId, kind, acc, numPred, succ, commDO, par, components, cursor,
                     checked, batch, caller>>
      /\ phase[t] \in {"held", "running"} /\ tasksInGraph' = tasksInGraph - 1
      /\ \A a \in Addr : owner'[a] = IF acc[s][a] = Commutative THEN s ELSE owner[a]
  BY DEF HoldImmediateSuccessor, Acquire, GroupsOf, identity, graph, domain, loops
<1>2. /\ s \in Created /\ kind[s] = "submit" /\ numPred[s] = 1
      /\ phase[s] = "waiting" /\ ~ IsFake(s)
      /\ \A q \in Obj : checked[q] # s
  BY <1>1, ImmediateFacts DEF HoldImmediateSuccessor
<1>3. /\ phase'[s] = "held" /\ ~ submitted'[s]
      /\ \A q \in Obj : q # s => phase'[q] = phase[q] /\ submitted'[q] = submitted[q]
  BY DEF HoldImmediateSuccessor, DisableSubmission, IInv, TypeOK
<1>4. /\ Born' /\ Lives' /\ Groups' /\ EdgeKinds' /\ Building' /\ Submission' /\ Zero'
      /\ Batches' /\ TotalsExact' /\ Callers' /\ Owners'
  BY <1>1, <1>2, <1>3, LeaveKeeps
<1>5. Walk'
  BY <1>1, <1>2, <1>3 DEF CInv, Walk
<1>6. Exact'
  <2>1. \A p \in Obj : \A q : Edge(p, q)' <=> Edge(p, q)
    BY <1>1, <1>2, <1>3, SameEdges
  <2>2. \A q : (IsFake(q)' <=> IsFake(q)) /\ (IsOpen(q)' <=> IsOpen(q))
    BY <1>1 DEF IsFake, IsOpen
  <2>3. Created' = Created
    BY <1>1 DEF Created
  <2> QED
    BY <1>1, <2>1, <2>2, <2>3, SameCounts
<1> QED
  BY <1>4, <1>5, <1>6 DEF CInv

\* A successor that passed canBeBatchReleased is still waiting for the object alone.
LEMMA CheckBatchCounts ==
  ASSUME IInv, CInv, IInv', NEW o \in Obj, NEW s \in Obj, CheckBatch(o, s) PROVE CInv'
<1>1. /\ UNCHANGED <<lastDepObjId, kind, acc, phase, numPred, succ, submitted, commDO, owner,
                     par, components, tasksInGraph, cursor, batch, caller>>
      /\ phase[o] = "release" /\ s \in cursor[o] /\ numPred[s] = 1 /\ submitted[s]
  BY DEF CheckBatch, Moves, BatchCandidate, CanBeBatchReleased, identity, graph, domain
<1>2. checked'[o] = s /\ \A q \in Obj : q # o => checked'[q] = checked[q]
  BY DEF CheckBatch, IInv, TypeOK
<1>3. Edge(o, s)
  BY <1>1 DEF Edge
<1>4. phase[s] = "waiting"
  BY <1>1, <1>3, EdgeFacts DEF CInv, Submission, Blocked
<1>5. Created' = Created /\ InGraph' = InGraph /\ Children' = Children
  BY <1>1 DEF Created, InGraph, Children
<1>6. Born' /\ Lives' /\ EdgeKinds' /\ Building' /\ Submission' /\ Zero'
  BY <1>1, <1>5 DEF CInv, Born, Lives, EdgeKinds, Building, Submission, Zero
<1>7. Walk'
  BY <1>1, <1>2 DEF CInv, Walk
<1>8. Groups'
  BY <1>1, GroupsKept
<1>9. Batches'
  BY <1>1, <1>2, <1>4 DEF CInv, Batches
<1>10. TotalsExact' /\ Callers' /\ Owners'
  BY <1>1, <1>5 DEF CInv, TotalsExact, Callers, Owners
<1>11. Exact'
  <2>1. \A p \in Obj : \A q : Edge(p, q)' <=> Edge(p, q)
    BY <1>1 DEF Edge
  <2>2. \A q : (IsFake(q)' <=> IsFake(q)) /\ (IsOpen(q)' <=> IsOpen(q))
    BY <1>1 DEF IsFake, IsOpen
  <2> QED
    BY <1>1, <1>5, <2>1, <2>2, SameCounts
<1> QED
  BY <1>6, <1>7, <1>8, <1>9, <1>10, <1>11 DEF CInv

\* An object inside its release loop gives one predecessor of s back.
LEMMA LoopExact ==
  ASSUME IInv, CInv, NEW o \in Obj, NEW s \in Obj, phase[o] = "release", s \in cursor[o],
         UNCHANGED <<lastDepObjId, succ, commDO, par>>,
         \A q \in Obj : \/ phase'[q] = phase[q]
                        \/ /\ phase[q] \notin {"none", "release", "gone"}
                           /\ phase'[q] \notin {"none", "release", "gone"},
         cursor' = [cursor EXCEPT ![o] = @ \ {s}],
         numPred'[s] = numPred[s] - 1,
         \A q \in Obj : q # s => numPred'[q] = numPred[q]
  PROVE  Exact'
<1>1. cursor'[o] = cursor[o] \ {s} /\ \A q \in Obj : q # o => cursor'[q] = cursor[q]
  BY DEF IInv, TypeOK
<1>2. Edge(o, s)
  BY DEF Edge
<1>3. \A p, q \in Obj : Edge(p, q)' <=> Edge(p, q) /\ ~ (p = o /\ q = s)
  <2>1. phase'[o] = "release"
    OBVIOUS
  <2>2. \A p \in Obj : p # o => \A q \in Obj : Edge(p, q)' <=> Edge(p, q)
    BY <1>1 DEF Edge
  <2>3. \A q \in Obj : Edge(o, q)' <=> Edge(o, q) /\ q # s
    BY <1>1, <2>1 DEF Edge
  <2> QED
    BY <2>2, <2>3
<1>4. \A q : (IsFake(q)' <=> IsFake(q)) /\ (IsOpen(q)' <=> IsOpen(q))
  BY DEF IsFake, IsOpen
<1>5. SUFFICES ASSUME NEW q \in Created PROVE (numPred[q] = CountOf(q))'
  BY DEF Exact, Created
<1>6. q \in Obj
  BY CreatedObj
<1>7. /\ Fake(q)' = Fake(q) /\ Open(q)' = Open(q) /\ Initial(q)' = Initial(q)
      /\ Fake(q) \in Nat /\ Open(q) \in Nat /\ Initial(q) \in Nat
  BY <1>4 DEF Fake, Open, Initial
<1>8. numPred[q] = CountOf(q) /\ Cardinality(Preds(q)) \in Nat
  BY PredsFinite DEF CInv, Exact
<1>9. CASE q = s
  <2>1. \A p \in Obj : Edge(p, s)' <=> Edge(p, s) /\ p # o
    BY <1>3
  <2>2. Cardinality(Preds(q)') = Cardinality(Preds(q)) - 1
    BY <1>2, <1>9, <2>1, PredsLess
  <2> QED
    BY <1>7, <1>8, <1>9, <2>2 DEF CountOf
<1>10. CASE q # s
  <2>1. Cardinality(Preds(q)') = Cardinality(Preds(q)) /\ numPred'[q] = numPred[q]
    BY <1>3, <1>6, <1>10, PredsSame
  <2> QED
    BY <1>7, <1>8, <2>1 DEF CountOf
<1> QED
  BY <1>9, <1>10

\* It loses that predecessor and joins the batch.
LEMMA BatchReleaseCounts ==
  ASSUME IInv, CInv, IInv', NEW o \in Obj, BatchRelease(o) PROVE CInv'
<1>1. /\ UNCHANGED <<lastDepObjId, kind, acc, phase, succ, submitted, commDO, owner,
                     par, components, tasksInGraph, caller>>
      /\ phase[o] = "release" /\ checked[o] # NULL
  BY DEF BatchRelease, Moves, identity, domain
<1>2. PICK s \in Obj : s = checked[o]
  BY <1>1 DEF IInv, TypeOK
<1>3. /\ s \in cursor[o] /\ numPred[s] = 1 /\ phase[s] = "waiting" /\ kind[s] = "submit"
  BY <1>1, <1>2 DEF CInv, Walk, Batches, IInv, BatchOK
<1>4. /\ numPred'[s] = 0 /\ numPred'[s] = numPred[s] - 1
      /\ \A q \in Obj : q # s => numPred'[q] = numPred[q]
  BY <1>2, <1>3 DEF BatchRelease, IInv, TypeOK
<1>5. /\ batch'[o] = batch[o] \cup {s} /\ checked'[o] = NULL /\ cursor'[o] = cursor[o] \ {s}
      /\ \A q \in Obj : q # o => /\ batch'[q] = batch[q] /\ checked'[q] = checked[q]
                                 /\ cursor'[q] = cursor[q]
  BY <1>2 DEF BatchRelease, IInv, TypeOK
<1>6. Created' = Created /\ InGraph' = InGraph /\ Children' = Children
  BY <1>1 DEF Created, InGraph, Children
<1>7. Born' /\ Lives' /\ EdgeKinds' /\ Building' /\ Submission'
  BY <1>1, <1>6 DEF CInv, Born, Lives, EdgeKinds, Building, Submission
<1>8. Walk'
  BY <1>1, <1>5 DEF CInv, Walk
<1>9. Groups'
  BY <1>1, GroupsKept
<1>10. Zero'
  BY <1>1, <1>3, <1>4 DEF CInv, Zero
<1>11. Batches'
  <2>1. \A q \in Obj : q # o => checked[q] # s
    <3>1. SUFFICES ASSUME NEW q \in Obj, q # o, checked[q] = s PROVE FALSE
      OBVIOUS
    <3>2. phase[q] = "release" /\ s \in cursor[q]
      BY <1>1, <1>2, <3>1 DEF CInv, Walk
    <3>3. Edge(q, s) /\ Edge(o, s)
      BY <1>1, <1>3, <3>2 DEF Edge
    <3>4. CountOf(s) = 1
      BY <1>3, <3>3, EdgeFacts
    <3> QED
      BY <3>1, <3>3, <3>4, LastEdge
  <2>2. \A q \in Obj : phase[q] = "release" => s \notin batch[q]
    BY <1>3 DEF CInv, Batches
  <2>3. \A q \in Obj : checked[q] \in Obj \cup {NULL} /\ batch[q] \in SUBSET Obj
    BY DEF IInv, TypeOK
  <2>4. \A q \in Obj : checked'[q] # NULL =>
          numPred'[checked'[q]] = 1 /\ phase'[checked'[q]] = "waiting"
    BY <1>1, <1>4, <1>5, <2>1, <2>3 DEF CInv, Batches
  <2>5. \A q \in Obj : phase'[q] = "release" =>
          \A p \in batch'[q] : numPred'[p] = 0 /\ phase'[p] = "waiting"
    BY <1>1, <1>3, <1>4, <1>5, <2>3 DEF CInv, Batches
  <2>6. \A p, q \in Obj : p # q /\ phase'[p] = "release" /\ phase'[q] = "release" =>
          batch'[p] \cap batch'[q] = {}
    BY <1>1, <1>5, <2>2 DEF CInv, Batches
  <2> QED
    BY <2>4, <2>5, <2>6 DEF Batches
<1>12. TotalsExact' /\ Callers' /\ Owners'
  BY <1>1, <1>6 DEF CInv, TotalsExact, Callers, Owners
<1>13. Exact'
  <2>1. cursor' = [cursor EXCEPT ![o] = @ \ {s}]
    BY <1>2 DEF BatchRelease
  <2> QED
    BY <1>1, <1>3, <1>4, <2>1, LoopExact
<1> QED
  BY <1>7, <1>8, <1>9, <1>10, <1>11, <1>12, <1>13 DEF CInv

\* Any other successor loses its predecessor, and is released with the last one.
LEMMA ReleaseSuccessorCounts ==
  ASSUME IInv, CInv, IInv', NEW o \in Obj, NEW s \in Obj, ReleaseSuccessor(o, s) PROVE CInv'
<1>1. /\ UNCHANGED <<lastDepObjId, kind, acc, succ, submitted, commDO, owner, par, components,
                     checked, batch>>
      /\ phase[o] = "release" /\ s \in cursor[o] /\ checked[o] = NULL
      /\ DecreasePredecessors(s, o) /\ cursor' = [cursor EXCEPT ![o] = @ \ {s}]
  BY DEF ReleaseSuccessor, Moves, identity, domain
<1>2. Edge(o, s)
  BY <1>1 DEF Edge
<1>3. /\ numPred[s] = CountOf(s) /\ numPred[s] \in Nat /\ numPred[s] >= 1
      /\ phase[s] \in Blocked
  BY <1>2, EdgeFacts
<1>4. numPred[s] = 1 => ~ IsFake(s) /\ \A q \in Obj : Edge(q, s) => q = o
  BY <1>2, <1>3, LastEdge
<1>5. numPred[s] = 1 => phase[s] # "creating"
  <2>1. SUFFICES ASSUME phase[s] = "creating" PROVE IsFake(s)
    BY <1>4
  <2>2. s = par.cur /\ par.pc \in Submitting
    BY <2>1 DEF CInv, Building
  <2> QED
    BY <2>2 DEF IsFake, Submitting
<1>6. \A q \in Obj : checked[q] # s
  <2>1. SUFFICES ASSUME NEW q \in Obj, checked[q] = s PROVE FALSE
    OBVIOUS
  <2>2. checked[q] # NULL
    BY <2>1 DEF NULL, Obj
  <2>3. phase[q] = "release" /\ s \in cursor[q] /\ numPred[s] = 1
    BY <2>1, <2>2 DEF CInv, Walk, Batches
  <2>4. Edge(q, s)
    BY <2>3 DEF Edge
  <2> QED
    BY <1>1, <1>4, <2>2, <2>3, <2>4
<1>7. kind[s] = "comm" => kind[o] = "submit"
  BY <1>1 DEF CInv, EdgeKinds, Walk
<1>8. /\ Born' /\ Lives' /\ EdgeKinds' /\ Submission' /\ Zero' /\ Batches'
      /\ TotalsExact' /\ Callers' /\ Owners'
  BY <1>1, <1>3, <1>5, <1>6, <1>7, DropKeeps
<1>9. /\ \A q \in Obj : q # s => phase'[q] = phase[q] /\ numPred'[q] = numPred[q]
      /\ numPred'[s] = numPred[s] - 1
      /\ \/ phase'[s] = phase[s]
         \/ phase'[s] \in {"ready", "satisfied"} /\ phase[s] = "waiting" /\ numPred[s] = 1
  BY <1>1, <1>3, <1>5, DecreaseEffect
<1>10. Walk'
  <2>1. cursor'[o] = cursor[o] \ {s} /\ \A q \in Obj : q # o => cursor'[q] = cursor[q]
    BY <1>1 DEF IInv, TypeOK
  <2> QED
    BY <1>1, <1>9, <2>1 DEF CInv, Walk
<1>11. Groups'
  BY <1>1, GroupsKept
<1>12. Building'
  <2>1. s = par.cur /\ par.pc = "release" => numPred[s] # 1
    BY <1>4 DEF IsFake
  <2> QED
    BY <1>1, <1>9, <2>1, BuildingMove
<1>13. Exact'
  BY <1>1, <1>9, LoopExact
<1> QED
  BY <1>8, <1>10, <1>11, <1>12, <1>13 DEF CInv

\* The loop is over: the batch is submitted and the object is gone.
LEMMA SubmitBatchCounts ==
  ASSUME IInv, CInv, IInv', NEW o \in Obj, SubmitBatch(o) PROVE CInv'
<1>1. /\ UNCHANGED <<lastDepObjId, kind, acc, numPred, succ, submitted, commDO, owner, par,
                     cursor, checked, batch, caller>>
      /\ phase[o] = "release" /\ cursor[o] = {} /\ checked[o] = NULL /\ ~ Nested(o)
      /\ tasksInGraph' = tasksInGraph - Cardinality(batch[o])
      /\ components' = IF kind[o] = "submit" THEN components - 1 ELSE components
  BY DEF SubmitBatch, Moves, identity, graph, domain, loops
<1>2. /\ batch[o] \in SUBSET Obj
      /\ \A s \in batch[o] : numPred[s] = 0 /\ phase[s] = "waiting" /\ kind[s] = "submit"
  <2>1. batch[o] \in SUBSET Obj
    BY DEF IInv, TypeOK
  <2>2. \A s \in batch[o] : numPred[s] = 0 /\ phase[s] = "waiting"
    BY <1>1 DEF CInv, Batches
  <2>3. \A s \in batch[o] : kind[s] = "submit"
    BY <2>1 DEF IInv, BatchOK
  <2> QED
    BY <2>1, <2>2, <2>3
<1>3. /\ phase'[o] = "gone" /\ \A s \in batch[o] : s # o /\ phase'[s] = "ready"
      /\ \A q \in Obj : q # o /\ q \notin batch[o] => phase'[q] = phase[q]
  BY <1>1, <1>2 DEF SubmitBatch
<1>4. kind[o] \in {"submit", "comm"}
  BY <1>1 DEF IInv, TypeOK, CInv, Lives
<1>5. Born' /\ EdgeKinds' /\ Submission' /\ Zero'
  <2>1. Born'
    BY <1>1, <1>2, <1>3 DEF CInv, Born, Created
  <2>2. Submission'
    BY <1>1, <1>3 DEF CInv, Submission
  <2>3. Zero'
    BY <1>1, <1>2, <1>3 DEF CInv, Zero, Blocked
  <2> QED
    BY <1>1, <2>1, <2>2, <2>3 DEF CInv, EdgeKinds
<1>6. Lives'
  BY <1>1, <1>2, <1>3, <1>4 DEF CInv, Lives, Finishing
<1>7. Walk'
  BY <1>1, <1>2, <1>3 DEF CInv, Walk
<1>8. Groups'
  BY <1>1, GroupsKept
<1>9. Building'
  <2>1. \A s \in batch[o] : ~ (s = par.cur /\ par.pc = "release")
    <3>1. SUFFICES ASSUME NEW s \in batch[o], s = par.cur, par.pc = "release" PROVE FALSE
      OBVIOUS
    <3>2. IsFake(s) /\ s \in Obj
      BY <1>2, <3>1 DEF IsFake
    <3> QED
      BY <1>2, <3>1, <3>2, DummyFacts
  <2>2. ~ (o = par.cur /\ par.pc = "release")
    BY <1>1 DEF CInv, Building
  <2>3. \A q \in Obj : \/ phase'[q] = phase[q]
                       \/ /\ phase'[q] # "creating" /\ phase[q] \notin {"creating", "gone"}
                          /\ ~ (q = par.cur /\ par.pc = "release")
    BY <1>1, <1>2, <1>3, <2>1, <2>2
  <2> QED
    BY <1>1, <2>3, BuildingMove
<1>10. Batches'
  <2>1. \A q \in Obj : checked[q] # NULL =>
          checked[q] \in Obj /\ checked[q] # o /\ checked[q] \notin batch[o]
    <3>1. \A q \in Obj : checked[q] # NULL =>
            numPred[checked[q]] = 1 /\ phase[checked[q]] = "waiting"
      BY DEF CInv, Batches
    <3>2. \A q \in Obj : checked[q] \in Obj \cup {NULL}
      BY DEF IInv, TypeOK
    <3> QED
      BY <1>1, <1>2, <3>1, <3>2
  <2>2. \A q \in Obj : batch[q] \in SUBSET Obj
    BY DEF IInv, TypeOK
  <2>3. \A q \in Obj : phase'[q] = "release" <=> phase[q] = "release" /\ q # o
    BY <1>2, <1>3
  <2>4. \A q \in Obj : phase[q] = "release" /\ q # o =>
          o \notin batch[q] /\ batch[q] \cap batch[o] = {}
    BY <1>1 DEF CInv, Batches
  <2> QED
    BY <1>1, <1>3, <2>1, <2>2, <2>3, <2>4 DEF CInv, Batches
<1>11. TotalsExact'
  <2>1. /\ InGraph \in SUBSET Obj /\ InGraph' \in SUBSET Obj
        /\ Children \in SUBSET Obj /\ Children' \in SUBSET Obj
    BY DEF InGraph, Children
  <2>2. /\ IsFiniteSet(InGraph') /\ IsFiniteSet(batch[o])
        /\ Cardinality(InGraph') \in Nat /\ Cardinality(batch[o]) \in Nat
        /\ Cardinality(Children') \in Nat
    BY <1>2, <2>1, ObjFinite
  <2>3. InGraph = InGraph' \cup batch[o] /\ InGraph' \cap batch[o] = {}
    BY <1>1, <1>2, <1>3 DEF InGraph
  <2>4. Cardinality(InGraph) = Cardinality(InGraph') + Cardinality(batch[o])
    <3>1. Cardinality(InGraph' \cup batch[o])
            = Cardinality(InGraph') + Cardinality(batch[o])
              - Cardinality(InGraph' \cap batch[o])
      BY <2>2, FS_Union
    <3>2. Cardinality(InGraph' \cap batch[o]) = 0
      BY <2>3, FS_EmptySet
    <3> QED
      BY <2>2, <2>3, <3>1, <3>2
  <2>5. tasksInGraph' = Cardinality(InGraph')
    BY <1>1, <2>2, <2>4 DEF CInv, TotalsExact
  <2>6. CASE kind[o] = "submit"
    <3>1. o \notin Children' /\ \A p \in Obj : p \in Children <=> p \in Children' \/ p = o
      BY <1>1, <1>2, <1>3, <2>6 DEF Children
    <3>2. Cardinality(Children) = Cardinality(Children') + 1
      BY <2>1, <3>1, OneMore
    <3> QED
      BY <1>1, <2>2, <2>5, <2>6, <3>2 DEF CInv, TotalsExact
  <2>7. CASE kind[o] # "submit"
    <3>1. Children' = Children
      BY <1>1, <1>2, <1>3, <2>7 DEF Children
    <3> QED
      BY <1>1, <2>5, <2>7, <3>1 DEF CInv, TotalsExact
  <2> QED
    BY <2>6, <2>7
<1>12. Callers'
  <2>1. \A c \in Obj : caller[c] \in Obj /\ phase[c] # "gone" =>
          caller[c] # o /\ caller[c] \notin batch[o]
    BY <1>1, <1>2 DEF CInv, Callers, Nested
  <2>2. \A c \in Obj : kind[c] = "comm" => phase'[c] = phase[c] \/ c = o
    BY <1>2, <1>3
  <2>3. \A c \in Obj : phase'[c] # "gone" => phase[c] # "gone"
    BY <1>2, <1>3
  <2>4. \A c \in Obj : caller[c] # NULL => kind[c] = "comm" /\ phase'[c] # "waiting"
    BY <1>2, <1>3 DEF CInv, Callers
  <2>5. \A c \in Obj : kind[c] = "comm" /\ phase'[c] # "waiting" => caller[c] # NULL
    BY <1>1, <2>2 DEF CInv, Callers
  <2>6. \A c \in Obj : caller[c] \in Obj /\ phase'[c] # "gone" =>
          phase'[caller[c]] = "release" /\ kind[caller[c]] = "submit"
    BY <1>3, <2>1, <2>3 DEF CInv, Callers
  <2> QED
    BY <1>1, <2>4, <2>5, <2>6 DEF Callers
<1>13. Owners'
  <2>1. \A a \in Addr : owner[a] \in Obj \cup {NULL}
    BY DEF IInv, TypeOK
  <2>2. \A a \in Addr : owner[a] # NULL => owner[a] # o /\ owner[a] \notin batch[o]
    BY <1>1, <1>2 DEF CInv, Owners
  <2> QED
    BY <1>1, <1>3, <2>1, <2>2 DEF CInv, Owners
<1>14. Exact'
  <2>1. \A p \in Obj : \A q : Edge(p, q)' <=> Edge(p, q)
    <3>1. \A q : ~ Edge(o, q) /\ ~ Edge(o, q)'
      BY <1>1, <1>3 DEF Edge
    <3>2. \A p \in Obj : p # o => \A q : Edge(p, q)' <=> Edge(p, q)
      BY <1>1, <1>2, <1>3 DEF Edge
    <3> QED
      BY <3>1, <3>2
  <2>2. \A q : (IsFake(q)' <=> IsFake(q)) /\ (IsOpen(q)' <=> IsOpen(q))
    BY <1>1 DEF IsFake, IsOpen
  <2>3. Created' = Created
    BY <1>1 DEF Created
  <2> QED
    BY <1>1, <2>1, <2>2, <2>3, SameCounts
<1> QED
  BY <1>5, <1>6, <1>7, <1>8, <1>9, <1>10, <1>11, <1>12, <1>13, <1>14 DEF CInv

-----------------------------------------------------------------------------
(* The theorems.                                                           *)

\* Every step of the parent preserves the invariant.
LEMMA ParentStepCInv == ASSUME IInv, CInv, IInv', ParentStep PROVE CInv'
<1>1. ASSUME NEW a \in Addr, FinalizeOneReduction(a) PROVE CInv'
  BY <1>1, CloseCounts DEF FinalizeOneReduction
<1>2. CASE CloseOtherGroup
  <2>1. par.addr \in Addr
    BY <1>2 DEF IInv, ParentOK, AtAccess, Submitting, CloseOtherGroup, ParentMoves
  <2> QED
    BY <1>2, <2>1, CloseCounts DEF CloseOtherGroup
<1>3. CASE \/ \E x \in TaskMenu : Create("submit", x)
           \/ \E x \in WaitMenu : Create("wait", x)
  BY <1>3, CreateCounts, MenuAssumption
<1> QED
  BY <1>1, <1>2, <1>3, NextAccessCounts, LookCounts, LockLastWriterCounts, SetAsWriterCounts,
     SetUpInitialCommCounts, OpenGroupCounts, JoinGroupCounts, DropInitialDummyCounts,
     SubmitCounts, ReleaseFakeCounts, WaitReturnsCounts, TaskWaitCounts
     DEF ParentStep

\* So does every step of finished().
LEMMA FinishStepCInv == ASSUME IInv, CInv, IInv', NEW o \in Obj, FinishStep(o) PROVE CInv'
  BY DoneCounts, FinishCounts, CheckBatchCounts, ReleaseSuccessorCounts, BatchReleaseCounts,
     SubmitBatchCounts
     DEF FinishStep

\* So does every step of the system.
LEMMA NextCInv == ASSUME IInv, CInv, [Next]_vars PROVE CInv'
<1>0. IInv'
  BY NextIInv
<1>1. CASE UNCHANGED vars
  <2>1. /\ UNCHANGED <<lastDepObjId, kind, acc, phase, numPred, succ, submitted, commDO, owner,
                       par, components, tasksInGraph, cursor, checked, batch, caller>>
        /\ SameParent
    BY <1>1 DEF vars, identity, graph, domain, loops, SameParent
  <2>2. Groups'
    BY <2>1, GroupsKept
  <2> QED
    BY <1>0, <2>1, <2>2, ParentOnly
<1>2. CASE ParentStep
  BY <1>0, <1>2, ParentStepCInv
<1>3. ASSUME NEW o \in Obj, Start(o) \/ FinishStep(o) PROVE CInv'
  BY <1>0, <1>3, StartCounts, FinishStepCInv
<1>4. ASSUME NEW t \in Obj, NEW s \in Obj,
             TakeImmediateSuccessor(t, s) \/ HoldImmediateSuccessor(t, s)
      PROVE  CInv'
  BY <1>0, <1>4, TakeCounts, HoldCounts
<1> QED
  BY <1>1, <1>2, <1>3, <1>4 DEF Next, Terminated

\* The counts are exact in every reachable state, whatever the program, the scheduling
\* policy and the numbers of addresses, objects and tasks.
THEOREM CountsInvariance == Spec => [](IInv /\ CInv)
<1>1. IInv /\ CInv /\ [Next]_vars => IInv' /\ CInv'
  BY NextIInv, NextCInv
<1>2. Init => IInv /\ CInv
  BY InitIInv, InitCInv
<1> QED
  BY <1>1, <1>2, PTL DEF Spec

\* The three dummies, one by one.
LEMMA DummiesSum == \A o : Dummies(o) = Fake(o) + Open(o) + Initial(o)
<1> SUFFICES ASSUME NEW o PROVE Dummies(o) = Fake(o) + Open(o) + Initial(o)
  OBVIOUS
<1> DEFINE third == IF o = par.init THEN {3} ELSE {}
           second == IF IsOpen(o) THEN third \cup {2} ELSE third
           first == IF IsFake(o) THEN second \cup {1} ELSE second
<1>1. IsFiniteSet(third) /\ Cardinality(third) = Initial(o) /\ Initial(o) \in Nat
  BY FS_EmptySet, FS_Singleton DEF Initial
<1>2. 2 \notin third /\ 1 \notin third
  OBVIOUS
<1>3. IsFiniteSet(second) /\ Cardinality(second) = Open(o) + Initial(o) /\ Open(o) \in Nat
  <2> HIDE DEF third
  <2> QED
    BY <1>1, <1>2, FS_AddElement DEF Open
<1>4. 1 \notin second
  BY <1>2
<1>5. Cardinality(first) = Fake(o) + Open(o) + Initial(o)
  <2>1. Initial(o) \in Nat
    BY <1>1
  <2> HIDE DEF second
  <2>2. CASE IsFake(o)
    <3>1. Cardinality(second \cup {1}) = Cardinality(second) + 1
      BY <1>3, <1>4, FS_AddElement
    <3> QED
      BY <1>3, <2>1, <2>2, <3>1 DEF Fake
  <2>3. CASE ~ IsFake(o)
    BY <1>3, <2>1, <2>3 DEF Fake
  <2> QED
    BY <2>2, <2>3
<1>6. first = {i \in 1 .. 3 : \/ i = 1 /\ IsFake(o)
                              \/ i = 2 /\ IsOpen(o)
                              \/ i = 3 /\ o = par.init}
  OBVIOUS
<1> QED
  BY <1>5, <1>6 DEF Dummies

\* No release of a predecessor is lost or given twice: the number of predecessors of an
\* object is that of the edges still to be released plus the dummies, in every state.
THEOREM ExactCounts == Spec => []PredecessorCountExact
<1>1. ASSUME IInv, CInv PROVE PredecessorCountExact
  <2>1. SUFFICES ASSUME NEW o \in Created
                 PROVE  numPred[o] = Cardinality({p \in Obj : o \in PendingSucc(p)}) + Dummies(o)
    BY DEF PredecessorCountExact, Created
  <2>2. {p \in Obj : o \in PendingSucc(p)} = Preds(o)
    BY DEF PendingSucc, Preds, Edge
  <2>3. numPred[o] = CountOf(o)
    BY <1>1 DEF CInv, Exact
  <2>4. /\ Cardinality(Preds(o)) \in Nat
        /\ Fake(o) \in Nat /\ Open(o) \in Nat /\ Initial(o) \in Nat
    BY PredsFinite DEF Fake, Open, Initial
  <2>5. Dummies(o) = Fake(o) + Open(o) + Initial(o)
    BY DummiesSum
  <2>6. numPred[o] = Cardinality(Preds(o)) + Dummies(o)
    BY <2>3, <2>4, <2>5 DEF CountOf
  <2> QED
    BY <2>2, <2>6
<1> QED
  BY <1>1, CountsInvariance, PTL

\* The third branch of setUpTargetCommutationDependableObject is dead: an open group is
\* never without predecessors, and removeCommDO never closes one.
THEOREM GroupsAlive == Spec => []OpenGroupAlive
<1>1. ASSUME IInv, CInv PROVE OpenGroupAlive
  <2>1. SUFFICES ASSUME NEW a \in Addr, commDO[a] # NULL
                 PROVE  numPred[commDO[a]] >= 1 /\ phase[commDO[a]] = "waiting"
    BY DEF OpenGroupAlive
  <2>2. commDO[a] \in Obj /\ kind[commDO[a]] = "comm" /\ IsOpen(commDO[a])
    BY <1>1, <2>1 DEF IInv, TypeOK, GroupOK, IsOpen
  <2>3. numPred[commDO[a]] >= 1 /\ phase[commDO[a]] \in Blocked
    BY <1>1, <2>2, DummyFacts
  <2> QED
    BY <1>1, <2>2, <2>3 DEF CInv, Lives, Blocked, Finishing
<1> QED
  BY <1>1, CountsInvariance, PTL

\* fatal_cond( numPred != 0, "Num predecessors is not 0" ) never fires, and nobody else
\* dispatches a task of a batch.
THEOREM BatchesExact == Spec => []BatchReleaseExact
<1>1. CInv => BatchReleaseExact
  BY DEF CInv, Batches, BatchReleaseExact
<1> QED
  BY <1>1, CountsInvariance, PTL

\* _tasksInGraph counts the tasks and waits that are submitted and not released.
THEOREM GraphCounted == Spec => []TasksInGraphExact
<1>1. CInv => TasksInGraphExact
  BY DEF CInv, TotalsExact, InGraph, TasksInGraphExact
<1> QED
  BY <1>1, CountsInvariance, PTL

\* Once a taskwait has closed all groups and sees no component, all objects are gone.
LEMMA AllGone ==
  ASSUME IInv, CInv, ParentMoves("taskwait"), components = 0, \A a \in Addr : commDO[a] = NULL
  PROVE  \A o \in Created : phase[o] = "gone"
<1>1. \A o \in Obj : kind[o] = "submit" => phase[o] \in {"none", "gone"}
  <2>1. Children \in SUBSET Obj
    BY DEF Children
  <2>2. IsFiniteSet(Children) /\ Cardinality(Children) = 0
    BY <2>1, ObjFinite DEF CInv, TotalsExact
  <2>3. Children = {}
    BY <2>2, FS_EmptySet
  <2> QED
    BY <2>3 DEF Children
<1>2. SUFFICES ASSUME NEW o \in Created, phase[o] # "gone" PROVE FALSE
  OBVIOUS
<1>3. o \in Obj /\ phase[o] # "none" /\ kind[o] \in {"submit", "wait", "comm"}
  BY CreatedObj DEF CInv, Born, IInv, TypeOK
<1>4. par.pc = "taskwait" /\ ~ Nested(Parent)
  BY DEF ParentMoves
<1>5. kind[o] = "comm"
  BY <1>1, <1>2, <1>3, <1>4 DEF CInv, Building, Submitting
<1>6. CASE phase[o] = "waiting"
  <2>1. numPred[o] # 0 /\ numPred[o] = CountOf(o)
    BY <1>3, <1>5, <1>6 DEF CInv, Zero, Exact
  <2>2. ~ IsFake(o) /\ ~ IsOpen(o) /\ o # par.init
    BY <1>3, <1>4 DEF IsFake, IsOpen, CInv, Groups, NULL, Obj
  <2>3. Cardinality(Preds(o)) # 0
    BY <2>1, <2>2, PredsFinite DEF CountOf, Fake, Open, Initial
  <2>4. PICK p \in Obj : Edge(p, o)
    BY <2>3, FS_EmptySet DEF Preds
  <2>5. o \in succ[p] /\ phase[p] \notin {"none", "gone"}
    BY <2>4 DEF Edge, CInv, Walk
  <2> QED
    BY <1>1, <1>3, <1>5, <2>5 DEF CInv, EdgeKinds
<1>7. CASE phase[o] # "waiting"
  <2>1. caller[o] \in Obj \cup {Parent}
    BY <1>3, <1>5, <1>7 DEF CInv, Callers, IInv, TypeOK
  <2>2. caller[o] # Parent
    BY <1>2, <1>3, <1>4 DEF Nested
  <2>3. phase[caller[o]] = "release" /\ kind[caller[o]] = "submit" /\ caller[o] \in Obj
    BY <1>2, <1>3, <2>1, <2>2 DEF CInv, Callers
  <2> QED
    BY <1>1, <2>3
<1> QED
  BY <1>6, <1>7

\* clearDependenciesDomain runs "when other tasks can not update the domain": once the
\* taskwait sees no component, no release is under way and nothing is registered.
THEOREM ClearQuiescent == Spec => []QuiescentAtClear
<1>1. ASSUME IInv, CInv PROVE QuiescentAtClear
  <2>1. SUFFICES ASSUME ParentMoves("taskwait"), components = 0,
                        \A a \in Addr : commDO[a] = NULL
                 PROVE  /\ \A a \in Addr : /\ lastWriter[a] = NULL /\ readers[a] = {}
                                           /\ owner[a] = NULL
                        /\ \A o \in Created : phase[o] = "gone"
    BY DEF QuiescentAtClear, Created
  <2>2. \A o \in Created : phase[o] = "gone"
    BY <1>1, <2>1, AllGone
  <2>3. \A a \in Addr : lastWriter[a] = NULL
    BY <1>1, <2>2 DEF IInv, WriterOK, Fresh, Registered
  <2>4. \A a \in Addr : readers[a] = {}
    BY <1>1, <2>2 DEF IInv, ReaderOK, Fresh, Registered
  <2>5. \A a \in Addr : owner[a] = NULL
    <3>1. SUFFICES ASSUME NEW a \in Addr, owner[a] # NULL PROVE FALSE
      OBVIOUS
    <3>2. owner[a] \in Obj
      BY <1>1, <3>1 DEF IInv, TypeOK
    <3>3. phase[owner[a]] \in {"ready", "held", "running", "asked"}
      BY <1>1, <3>1 DEF CInv, Owners
    <3> QED
      BY <1>1, <2>2, <3>2, <3>3 DEF CInv, Born
  <2> QED
    BY <2>2, <2>3, <2>4, <2>5
<1> QED
  BY <1>1, CountsInvariance, PTL

-----------------------------------------------------------------------------

\* What one step may do to the objects that become ready or held.
Dispatches ==
  \A o \in Obj : (phase'[o] # phase[o] /\ phase'[o] \in {"ready", "held"})
                   => phase[o] = "waiting"

\* Dropping a predecessor dispatches only a task that waits.
LEMMA DropDispatches ==
  ASSUME IInv, CInv, NEW o \in Obj, NEW by, DecreasePredecessors(o, by), phase[o] \in Blocked
  PROVE  Dispatches
<1>1. \/ phase' = phase
      \/ phase' = [phase EXCEPT ![o] = "satisfied"]
      \/ submitted[o] /\ phase' = [phase EXCEPT ![o] = "ready"]
  BY DEF DecreasePredecessors
<1>2. submitted[o] => phase[o] = "waiting"
  BY DEF CInv, Submission, Blocked
<1> QED
  BY <1>1, <1>2 DEF Dispatches, IInv, TypeOK

\* So does closing a group.
LEMMA CloseDispatches ==
  ASSUME IInv, CInv, NEW a \in Addr, FinalizeReduction(a) PROVE Dispatches
<1>1. CASE commDO[a] = NULL
  BY <1>1 DEF FinalizeReduction, Dispatches
<1>2. CASE commDO[a] # NULL
  <2>1. commDO[a] \in Obj /\ IsOpen(commDO[a])
    BY <1>2 DEF IInv, TypeOK, IsOpen
  <2>2. DecreasePredecessors(commDO[a], Parent)
    BY <1>2 DEF FinalizeReduction
  <2> QED
    BY <2>1, <2>2, DummyFacts, DropDispatches
<1> QED
  BY <1>1, <1>2

\* The parent dispatches a task with the fake predecessor, or a group with its dummy.
LEMMA ParentDispatches == ASSUME IInv, CInv, ParentStep PROVE Dispatches
<1>1. ASSUME NEW a \in Addr, NextAccess(a) \/ FinalizeOneReduction(a) PROVE Dispatches
  BY <1>1, CloseDispatches DEF NextAccess, FinalizeOneReduction, Dispatches
<1>2. CASE CloseOtherGroup
  <2>1. par.addr \in Addr
    BY <1>2 DEF IInv, ParentOK, AtAccess, Submitting, CloseOtherGroup, ParentMoves
  <2> QED
    BY <1>2, <2>1, CloseDispatches DEF CloseOtherGroup
<1>3. CASE DropInitialDummy
  <2>1. par.init = NULL => phase' = phase
    BY <1>3 DEF DropInitialDummy
  <2>2. ASSUME par.init # NULL PROVE Dispatches
    <3>1. par.init \in Obj /\ DecreasePredecessors(par.init, Parent)
      BY <1>3, <2>2 DEF DropInitialDummy, IInv, TypeOK, ParentStates
    <3> QED
      BY <3>1, DummyFacts, DropDispatches
  <2> QED
    BY <2>1, <2>2 DEF Dispatches
<1>4. CASE ReleaseFake
  <2>1. par.cur \in Obj /\ IsFake(par.cur) /\ DecreasePredecessors(par.cur, Parent)
    BY <1>4 DEF ReleaseFake, ParentMoves, IInv, ParentOK, IsFake
  <2> QED
    BY <2>1, DummyFacts, DropDispatches
<1>5. CASE \/ \E k, x : Create(k, x)
           \/ SetUpInitialComm \/ OpenGroup \/ Submit \/ WaitReturns
  <2>1. \E o : \E ph \in {"creating", "waiting", "gone"} : phase' = [phase EXCEPT ![o] = ph]
    BY <1>5 DEF Create, SetUpInitialComm, OpenGroup, NewComm, Submit, WaitReturns
  <2> QED
    BY <2>1 DEF Dispatches, IInv, TypeOK
<1>6. CASE \/ ReadLastWriter \/ LockLastWriter \/ AddAsReader \/ SetAsWriter
           \/ LookupReaders \/ JoinGroup \/ TaskWait \/ ClearDomain
  BY <1>6 DEF ReadLastWriter, LockLastWriter, AddAsReader, SetAsWriter, LookupReaders,
     JoinGroup, TaskWait, ClearDomain, Dispatches
<1> QED
  BY <1>1, <1>2, <1>3, <1>4, <1>5, <1>6 DEF ParentStep

\* The workers dispatch successors that wait, and batches.
LEMMA WorkersDispatch ==
  ASSUME IInv, CInv,
         \/ \E p \in Obj : Start(p) \/ FinishStep(p)
         \/ \E t, s \in Obj : TakeImmediateSuccessor(t, s) \/ HoldImmediateSuccessor(t, s)
  PROVE  Dispatches
<1>1. ASSUME NEW t \in Obj, NEW s \in Obj, TakeImmediateSuccessor(t, s) PROVE Dispatches
  <2>1. phase[s] = "waiting"
    BY <1>1, ImmediateFacts DEF TakeImmediateSuccessor
  <2> QED
    BY <1>1, <2>1 DEF TakeImmediateSuccessor, Dispatches, IInv, TypeOK
<1>2. ASSUME NEW t \in Obj, NEW s \in Obj, HoldImmediateSuccessor(t, s) PROVE Dispatches
  <2>1. phase[s] = "waiting"
    BY <1>2, ImmediateFacts DEF HoldImmediateSuccessor
  <2> QED
    BY <1>2, <2>1 DEF HoldImmediateSuccessor, Dispatches, IInv, TypeOK
<1>3. ASSUME NEW o \in Obj, NEW W, NEW R, Advance(o, W, R) PROVE Dispatches
  <2>1. /\ \A q \in Obj : q # o => phase'[q] = phase[q]
        /\ phase'[o] \in {"unregister", "unread", "release"}
    BY <1>3, AdvanceEffect
  <2> QED
    BY <2>1 DEF Dispatches
<1>4. ASSUME NEW o \in Obj, NEW s \in Obj, ReleaseSuccessor(o, s) PROVE Dispatches
  <2>1. Edge(o, s) /\ DecreasePredecessors(s, o)
    BY <1>4 DEF ReleaseSuccessor, Moves, Edge
  <2> QED
    BY <2>1, EdgeFacts, DropDispatches
<1>5. ASSUME NEW o \in Obj, SubmitBatch(o) PROVE Dispatches
  <2>1. \A s \in batch[o] : phase[s] = "waiting"
    BY <1>5 DEF SubmitBatch, Moves, CInv, Batches
  <2> QED
    BY <1>5, <2>1 DEF SubmitBatch, Dispatches
<1>6. ASSUME NEW o \in Obj, NEW s \in Obj, CheckBatch(o, s) \/ BatchRelease(o)
      PROVE  Dispatches
  BY <1>6 DEF CheckBatch, BatchRelease, Dispatches
<1>7. ASSUME NEW o \in Obj, Start(o) PROVE Dispatches
  BY <1>7 DEF Start, Dispatches, IInv, TypeOK
<1>8. ASSUME NEW o \in Obj, FinishStep(o) PROVE Dispatches
  <2>1. CASE \/ Done(o) \/ RemoveCommDO(o) \/ DeleteLastWriter(o)
             \/ \E a \in Addr : DeleteReader(o, a)
    <3>1. \E W, R : Advance(o, W, R)
      BY <2>1 DEF Done, RemoveCommDO, DeleteLastWriter, DeleteReader
    <3> QED
      BY <1>3, <3>1
  <2> QED
    BY <1>4, <1>5, <1>6, <1>8, <2>1 DEF FinishStep
<1> QED
  BY <1>1, <1>2, <1>7, <1>8

\* Every task is handed to the scheduler, or to the thread that holds it, exactly once and
\* only while it waits in the graph, whichever release path gives its last predecessor back.
THEOREM OneDispatch == Spec => DispatchedOnce
<1>1. ASSUME IInv, CInv, Next PROVE Dispatches
  <2>1. CASE Terminated
    BY <2>1 DEF Terminated, vars, Dispatches
  <2> QED
    BY <1>1, <2>1, ParentDispatches, WorkersDispatch DEF Next
<1>2. IInv /\ CInv /\ [Next]_vars
      => [\A o \in Obj : (phase'[o] # phase[o] /\ phase'[o] \in {"ready", "held"})
                           => phase[o] = "waiting"]_vars
  BY <1>1 DEF Dispatches
<1> QED
  BY <1>2, CountsInvariance, PTL DEF Spec, DispatchedOnce
=============================================================================
