----------------------------- MODULE PlainDeps ------------------------------
(***************************************************************************)
(* The dependence graph of one parent task, as the "plain" plugin keeps it *)
(* (plugins/deps/plain_deps.cpp, basedependenciesdomain.hpp,               *)
(* core/dependableobject.cpp, core/commutationdepobj.hpp).                 *)
(*                                                                         *)
(* Actors: the parent, which submits tasks and waits, and every task,      *)
(* which is picked, runs and then releases its successors on the thread    *)
(* that ran it.  A CommutationDO has no thread: it is released inside the  *)
(* call that dropped its last predecessor, and that caller goes on when    *)
(* it is over.                                                             *)
(*                                                                         *)
(* One step is what the code does under one lock, or one access to shared  *)
(* state outside locks.  Dependable objects are the numbers                *)
(* 1..MaxDepObjId given out by _lastDepObjId++.                            *)
(***************************************************************************)
EXTENDS Access, Integers, FiniteSets

CONSTANTS
  MaxDepObjId,        \* bound: dependable objects one behaviour creates
  MaxTasks,           \* bound: tasks and waits one behaviour creates
  TaskMenu,           \* accesses a created task may declare
  WaitMenu,           \* accesses a "taskwait on" may name
  TaskWaitAfter,      \* numbers of tasks after which the program has a taskwait
  ValidForBatch,      \* SchedulePolicy::isValidForBatch of the policy in use
  KeepWDDeps          \* the values keepWDDeps() has on the team's threads

ASSUME AddrAssumption == IsFiniteSet(Addr)
ASSUME BoundsAssumption == MaxDepObjId \in Nat /\ MaxTasks \in Nat
ASSUME MenuAssumption == TaskMenu \subseteq Accesses /\ WaitMenu \subseteq Accesses
\* ensure(!depObj.waits()): a wait names no concurrent or commutative access.
ASSUME WaitAssumption ==
  \A x \in WaitMenu : \A a \in Addr : x[a] \notin GroupModes
ASSUME TaskWaitAssumption == TaskWaitAfter \subseteq Nat
ASSUME PolicyAssumption == ValidForBatch \in BOOLEAN /\ KeepWDDeps \subseteq BOOLEAN

Obj == 1 .. MaxDepObjId
NULL == 0
Parent == -1          \* the parent as the caller of a nested release

VARIABLES
  \* dependable objects
  lastDepObjId,       \* last identifier given out
  kind,               \* "submit" (DOSubmit), "wait" (DOWait), "comm" (CommutationDO)
  acc,                \* declared accesses; for a CommutationDO its target and mode
  phase,              \* where the object is in its life, see Phases
  numPred,            \* _numPredecessors
  succ,               \* _successors
  writes,             \* _outputObjects
  reads,              \* _readObjects
  submitted,          \* _submitted and _needsSubmission, always set together
  \* the domain: one TrackableObject for each address
  lastWriter, readers, commDO,
  owner,              \* _commutativeOwnerMap of the parent
  \* the parent
  par,                \* its place in submitDependableObject or waitCompletion
  tasks,              \* tasks and waits created so far
  components,         \* _components: children not yet exited
  tasksInGraph,       \* _tasksInGraph
  \* objects inside finished()
  unread,             \* read targets still to be deleted from their lists
  cursor,             \* successors the release loop has not visited
  checked,            \* successor that passed canBeBatchReleased
  batch,              \* immediateSucc
  caller              \* who runs the release of a CommutationDO

identity == <<lastDepObjId, kind, acc, tasks>>
graph == <<numPred, succ>>
targets == <<writes, reads>>
domain == <<lastWriter, readers, commDO>>
loops == <<unread, cursor, checked, batch>>
vars == <<identity, phase, graph, targets, submitted, domain, owner, par,
          components, tasksInGraph, loops, caller>>

(***************************************************************************)
(* A DOSubmit goes creating, waiting, ready or held, running, asked (the   *)
(* body has returned and finishWork took an immediate successor) and       *)
(* through finished(): unregister, unread, release.  A DOWait goes         *)
(* creating, waiting, satisfied.  A CommutationDO goes waiting, satisfied  *)
(* and through finished().                                                 *)
(***************************************************************************)
Phases == {"none", "creating", "waiting", "held", "ready", "running", "asked",
           "satisfied", "unregister", "unread", "release", "gone"}

PCs == {"idle", "next", "lookup", "lock", "enlist", "init", "initReaders", "target",
        "drop", "release", "wait", "taskwait", "end"}

ParentStates ==
  [pc : PCs, cur : Obj \cup {NULL}, todo : SUBSET Addr, addr : Addr \cup {NULL},
   lw : Obj \cup {NULL}, init : Obj \cup {NULL}]

ParStart == [pc |-> "idle", cur |-> NULL, todo |-> {}, addr |-> NULL, lw |-> NULL,
             init |-> NULL]

Init ==
  /\ lastDepObjId = 0 /\ tasks = 0
  /\ kind = [o \in Obj |-> "submit"]
  /\ acc = [o \in Obj |-> NoAccess]
  /\ phase = [o \in Obj |-> "none"]
  /\ numPred = [o \in Obj |-> 0]
  /\ succ = [o \in Obj |-> {}]
  /\ writes = [o \in Obj |-> {}] /\ reads = [o \in Obj |-> {}]
  /\ submitted = [o \in Obj |-> FALSE]
  /\ lastWriter = [a \in Addr |-> NULL]
  /\ readers = [a \in Addr |-> {}]
  /\ commDO = [a \in Addr |-> NULL]
  /\ owner = [a \in Addr |-> NULL]
  /\ par = ParStart
  /\ components = 0 /\ tasksInGraph = 0
  /\ unread = [o \in Obj |-> {}] /\ cursor = [o \in Obj |-> {}]
  /\ checked = [o \in Obj |-> NULL] /\ batch = [o \in Obj |-> {}]
  /\ caller = [o \in Obj |-> NULL]

-----------------------------------------------------------------------------
(* Predecessor counts *)

\* The caller waits for the nested release of a CommutationDO it satisfied.
Nested(x) == \E c \in Obj : caller[c] = x /\ phase[c] # "gone"

\* _successors.insert(o).second for the objects of P.
NewEdges(o, P) == {p \in P : o \notin succ[p]}

\* addSuccessor(o) on every object of P, with increasePredecessors on each new edge.
DependOn(o, P) ==
  /\ succ' = [p \in Obj |-> IF p \in P THEN succ[p] \cup {o} ELSE succ[p]]
  /\ numPred' = [numPred EXCEPT ![o] = @ + Cardinality(NewEdges(o, P))]

\* Mutant of LeavesGraph: needsSubmission is not asked.
LeavesGraphAlways(o) == kind[o] # "comm"

\* dependenciesSatisfied() of a DOSubmit that still needs submission, or of a DOWait.
LeavesGraph(o) == kind[o] = "wait" \/ (kind[o] = "submit" /\ submitted[o])

\* decreasePredecessors(o) without batch release: the call that reaches zero
\* runs dependenciesSatisfied().
DecreasePredecessors(o, by) ==
  /\ numPred' = [numPred EXCEPT ![o] = @ - 1]
  /\ IF numPred[o] = 1
       THEN /\ tasksInGraph' = IF LeavesGraph(o) THEN tasksInGraph - 1 ELSE tasksInGraph
            /\ phase' = IF kind[o] # "submit" THEN [phase EXCEPT ![o] = "satisfied"]
                        ELSE IF submitted[o] THEN [phase EXCEPT ![o] = "ready"]
                        ELSE phase
            /\ caller' = IF kind[o] = "comm" THEN [caller EXCEPT ![o] = by] ELSE caller
       ELSE UNCHANGED <<tasksInGraph, phase, caller>>

-----------------------------------------------------------------------------
(* The parent: submitDependableObjectInternal *)

Mode == acc[par.cur][par.addr]
Waits == kind[par.cur] = "wait"
ParentMoves(pc) == par.pc = pc /\ ~ Nested(Parent)
Goto(pc) == par' = [par EXCEPT !.pc = pc]

\* Identifiers a task with accesses x may need: its own and, for each group
\* access, an initial and a target CommutationDO at most.
IdsNeeded(x) == 1 + 2 * Cardinality({a \in Addr : x[a] \in GroupModes})

WithinBounds(x) == tasks < MaxTasks /\ lastDepObjId + IdsNeeded(x) <= MaxDepObjId
ProgramOver == \A x \in TaskMenu : ~ WithinBounds(x)

\* A child is created (addWork) and submitted with dependences, or the parent
\* enters waitOn; the object starts with the fake predecessor.
Create(k, x) ==
  LET o == lastDepObjId + 1 IN
  /\ ParentMoves("idle")
  /\ WithinBounds(x)
  /\ tasks' = tasks + 1
  /\ lastDepObjId' = o
  /\ kind' = [kind EXCEPT ![o] = k]
  /\ acc' = [acc EXCEPT ![o] = x]
  /\ phase' = [phase EXCEPT ![o] = "creating"]
  /\ numPred' = [numPred EXCEPT ![o] = 1]
  /\ components' = IF k = "submit" THEN components + 1 ELSE components
  /\ par' = [par EXCEPT !.pc = "next", !.cur = o, !.todo = Touched(x)]
  /\ UNCHANGED <<succ, targets, submitted, domain, owner, tasksInGraph, loops, caller>>

GroupBecomesWriter(a) == lastWriter' = [lastWriter EXCEPT ![a] = commDO[a]]

\* finalizeReduction: the open group's object becomes the last writer and loses
\* the dummy predecessor of createCommutationDO.
FinalizeReduction(a) ==
  IF commDO[a] = NULL
    THEN UNCHANGED <<domain, graph, phase, tasksInGraph, caller>>
    ELSE /\ commDO' = [commDO EXCEPT ![a] = NULL]
         /\ GroupBecomesWriter(a)
         /\ DecreasePredecessors(commDO[a], Parent)
         /\ UNCHANGED <<readers, succ>>

\* The next access of the object; a group access closes nothing yet.
NextAccess(a) ==
  /\ ParentMoves("next")
  /\ a \in par.todo
  /\ par' = [par EXCEPT !.addr = a, !.todo = @ \ {a},
                        !.pc = IF acc[par.cur][a] \in GroupModes THEN "init" ELSE "lookup"]
  /\ IF acc[par.cur][a] \in GroupModes
       THEN UNCHANGED <<domain, graph, phase, tasksInGraph, caller>>
       ELSE FinalizeReduction(a)
  /\ UNCHANGED <<identity, targets, submitted, owner, components, loops>>

AfterLastWriter == IF Mode \in GroupModes THEN "drop" ELSE "enlist"

\* dependOnLastWriter, unlocked read; an output with readers skips it.
ReadLastWriter ==
  /\ ParentMoves("lookup")
  /\ LET lw == lastWriter[par.addr]
         skip == lw = NULL \/ (Mode = Out /\ readers[par.addr] # {})
     IN par' = [par EXCEPT !.lw = IF skip THEN NULL ELSE lw,
                           !.pc = IF skip THEN AfterLastWriter ELSE "lock"]
  /\ UNCHANGED <<identity, phase, graph, targets, submitted, domain, owner,
                 components, tasksInGraph, loops, caller>>

\* Mutant of StillLastWriter: the domain is not asked again under the lock.
StillLastWriterAssumed == TRUE

StillLastWriter == lastWriter[par.addr] = par.lw

\* dependOnLastWriter, under the writer's lock: the edge is added only if the
\* object is still the last writer.
LockLastWriter ==
  /\ ParentMoves("lock")
  /\ IF StillLastWriter THEN DependOn(par.cur, {par.lw}) ELSE UNCHANGED graph
  /\ par' = [par EXCEPT !.pc = AfterLastWriter, !.lw = NULL]
  /\ UNCHANGED <<identity, phase, targets, submitted, domain, owner,
                 components, tasksInGraph, loops, caller>>

\* Mutant of SetReader: the list gets the writer that was looked up.
SetReaderWrong(o, a) == readers' = [readers EXCEPT ![a] = @ \cup {par.lw}]

SetReader(o, a) == readers' = [readers EXCEPT ![a] = @ \cup {o}]

\* addAsReader and addReadTarget.
AddAsReader ==
  /\ ParentMoves("enlist") /\ Mode = In
  /\ IF Waits THEN UNCHANGED <<readers, reads>>
     ELSE /\ SetReader(par.cur, par.addr)
          /\ reads' = [reads EXCEPT ![par.cur] = @ \cup {par.addr}]
  /\ Goto("next")
  /\ UNCHANGED <<identity, phase, graph, writes, submitted, lastWriter, commDO, owner,
                 components, tasksInGraph, loops, caller>>

\* Mutant of ReadersBefore: the list was flushed first.
ReadersFlushed == {}

ReadersBefore == readers[par.addr] \ {par.cur}

\* Mutant of AddWriteTarget: the target is not recorded.
AddNoWriteTarget(o, a) == UNCHANGED writes

AddWriteTarget(o, a) == writes' = [writes EXCEPT ![o] = @ \cup {a}]

\* dependOnReadersAndSetAsWriter; an inout also becomes a read target.
SetAsWriter ==
  /\ ParentMoves("enlist") /\ Mode \in WriteModes
  /\ DependOn(par.cur, ReadersBefore)
  /\ readers' = [readers EXCEPT ![par.addr] = {}]
  /\ IF Waits THEN UNCHANGED <<lastWriter, targets>>
     ELSE /\ lastWriter' = [lastWriter EXCEPT ![par.addr] = par.cur]
          /\ AddWriteTarget(par.cur, par.addr)
          /\ reads' = IF Mode = InOut THEN [reads EXCEPT ![par.cur] = @ \cup {par.addr}]
                      ELSE reads
  /\ Goto("next")
  /\ UNCHANGED <<identity, phase, submitted, commDO, owner, components, tasksInGraph,
                 loops, caller>>

\* hasReaders, read without the readers' lock: only then is an initial
\* CommutationDO put between the readers and the group.
LookupReaders ==
  /\ ParentMoves("init")
  /\ Goto(IF readers[par.addr] = {} THEN "target" ELSE "initReaders")
  /\ UNCHANGED <<identity, phase, graph, targets, submitted, domain, owner,
                 components, tasksInGraph, loops, caller>>

\* NEW CommutationDO(target, commutative), with n predecessors.
NewComm(c, n) ==
  /\ c \in Obj
  /\ lastDepObjId' = c
  /\ kind' = [kind EXCEPT ![c] = "comm"]
  /\ acc' = [acc EXCEPT ![c] = [NoAccess EXCEPT ![par.addr] = Mode]]
  /\ phase' = [phase EXCEPT ![c] = "waiting"]
  /\ writes' = [writes EXCEPT ![c] = {par.addr}]
  /\ numPred' = [numPred EXCEPT ![c] = n]

\* setUpInitialCommutationDependableObject: the readers, as they are under
\* their lock, precede the new object, which replaces the last writer.
SetUpInitialComm ==
  LET c == lastDepObjId + 1
      R == readers[par.addr]
  IN
  /\ ParentMoves("initReaders")
  /\ NewComm(c, 1 + Cardinality(R))
  /\ succ' = [p \in Obj |-> IF p \in R THEN succ[p] \cup {c} ELSE succ[p]]
  /\ readers' = [readers EXCEPT ![par.addr] = {}]
  /\ lastWriter' = [lastWriter EXCEPT ![par.addr] = c]
  /\ par' = [par EXCEPT !.pc = "target", !.init = c]
  /\ UNCHANGED <<tasks, reads, submitted, commDO, owner, components, tasksInGraph,
                 loops, caller>>

\* setUpTargetCommutationDependableObject finds an open group of the other kind:
\* finalizeReduction closes it before a new one is created.
CloseOtherGroup ==
  LET c == commDO[par.addr] IN
  /\ ParentMoves("target")
  /\ c # NULL
  /\ acc[c][par.addr] # Mode
  /\ FinalizeReduction(par.addr)
  /\ UNCHANGED <<identity, targets, submitted, owner, par, components, loops>>

\* Mutant of FirstPredecessors: one increase instead of two.
OnePredecessor == 1

FirstPredecessors == 2

\* createCommutationDO: the dummy predecessor and the current task.
OpenGroup ==
  LET c == lastDepObjId + 1 IN
  /\ ParentMoves("target")
  /\ commDO[par.addr] = NULL
  /\ NewComm(c, FirstPredecessors)
  /\ commDO' = [commDO EXCEPT ![par.addr] = c]
  /\ succ' = [succ EXCEPT ![par.cur] = @ \cup {c}]
  /\ Goto("lookup")
  /\ UNCHANGED <<tasks, reads, submitted, lastWriter, readers, owner, components,
                 tasksInGraph, loops, caller>>

\* The task joins the open group of its kind.
JoinGroup ==
  LET c == commDO[par.addr] IN
  /\ ParentMoves("target")
  /\ c # NULL
  /\ acc[c][par.addr] = Mode
  /\ numPred' = [numPred EXCEPT ![c] = @ + 1]
  /\ succ' = [succ EXCEPT ![par.cur] = @ \cup {c}]
  /\ Goto("lookup")
  /\ UNCHANGED <<identity, phase, targets, submitted, domain, owner, components,
                 tasksInGraph, loops, caller>>

\* The initial CommutationDO loses the dummy that kept it from finishing while
\* the task was added as its successor.
DropInitialDummy ==
  /\ ParentMoves("drop")
  /\ IF par.init = NULL
       THEN UNCHANGED <<numPred, phase, tasksInGraph, caller>>
       ELSE DecreasePredecessors(par.init, Parent)
  /\ par' = [par EXCEPT !.pc = "next", !.init = NULL]
  /\ UNCHANGED <<identity, succ, targets, submitted, domain, owner, components, loops>>

\* increaseTasksInGraph and submitted(), the fake predecessor still in place.
Submit ==
  /\ ParentMoves("next") /\ par.todo = {}
  /\ tasksInGraph' = tasksInGraph + 1
  /\ submitted' = [submitted EXCEPT ![par.cur] = TRUE]
  /\ phase' = [phase EXCEPT ![par.cur] = "waiting"]
  /\ Goto("release")
  /\ UNCHANGED <<identity, graph, targets, domain, owner, components, loops, caller>>

\* The fake predecessor is dropped; a DOWait blocks in _syncCond.wait().
ReleaseFake ==
  /\ ParentMoves("release")
  /\ DecreasePredecessors(par.cur, Parent)
  /\ Goto(IF Waits THEN "wait" ELSE "idle")
  /\ UNCHANGED <<identity, succ, targets, submitted, domain, owner, components, loops>>

\* _syncCond.wait() returns and waitOn with it.
WaitReturns ==
  /\ ParentMoves("wait")
  /\ phase[par.cur] = "satisfied"
  /\ phase' = [phase EXCEPT ![par.cur] = "gone"]
  /\ Goto("idle")
  /\ UNCHANGED <<identity, graph, targets, submitted, domain, owner, components,
                 tasksInGraph, loops, caller>>

-----------------------------------------------------------------------------
(* The parent: waitCompletion *)

\* The program has taskwaits where TaskWaitAfter says, and one at its end.
TaskWait ==
  /\ ParentMoves("idle")
  /\ tasks \in TaskWaitAfter \/ ProgramOver
  /\ Goto("taskwait")
  /\ UNCHANGED <<identity, phase, graph, targets, submitted, domain, owner,
                 components, tasksInGraph, loops, caller>>

\* One round of finalizeAllReductions.
FinalizeOneReduction(a) ==
  /\ ParentMoves("taskwait")
  /\ commDO[a] # NULL
  /\ FinalizeReduction(a)
  /\ UNCHANGED <<identity, targets, submitted, owner, par, components, loops>>

\* Mutant of GroupsClosed: finalizeAllReductions is not called.
GroupsLeftOpen == TRUE

GroupsClosed == \A a \in Addr : commDO[a] = NULL

\* waitConditionAndSignalers saw no component; clearDependenciesDomain.
ClearDomain ==
  /\ ParentMoves("taskwait")
  /\ GroupsClosed
  /\ components = 0
  /\ lastWriter' = [a \in Addr |-> NULL]
  /\ readers' = [a \in Addr |-> {}]
  /\ Goto(IF ProgramOver THEN "end" ELSE "idle")
  /\ UNCHANGED <<identity, phase, graph, targets, submitted, commDO, owner,
                 components, tasksInGraph, loops, caller>>

-----------------------------------------------------------------------------
(* Workers: picking and running a task *)

GroupsOf(t) == {a \in Addr : acc[t][a] = Commutative}

\* tryAcquireCommutativeAccesses: all owner slots or none.
CanAcquire(t) == \A a \in GroupsOf(t) : owner[a] \in {NULL, t}
Acquire(t) == owner' = [a \in Addr |-> IF a \in GroupsOf(t) THEN t ELSE owner[a]]

\* A thread picks a ready task, or runs the one it held once its predecessor is gone.
Start(t) ==
  /\ phase[t] = "ready" \/ (phase[t] = "held" /\ numPred[t] = 0)
  /\ CanAcquire(t)
  /\ Acquire(t)
  /\ phase' = [phase EXCEPT ![t] = "running"]
  /\ UNCHANGED <<identity, graph, targets, submitted, domain, par, components,
                 tasksInGraph, loops, caller>>

\* What releaseImmediateSuccessor asks of a successor s of t; DOIsSchedulable
\* acquires the commutative accesses of s as it checks them.
IsImmediateSuccessor(t, s) ==
  s \in succ[t] /\ kind[s] = "submit" /\ numPred[s] = 1 /\ CanAcquire(s) /\ submitted[s]

\* The body of t has returned and its thread, one that does not keep dependences,
\* is in Scheduler::finishWork: the policy takes one successor, whose only predecessor
\* is t, out of the graph to run it next.
TakeImmediateSuccessor(t, s) ==
  /\ FALSE \in KeepWDDeps
  /\ phase[t] = "running"
  /\ IsImmediateSuccessor(t, s)
  /\ Acquire(s)
  /\ tasksInGraph' = tasksInGraph - 1
  /\ succ' = [succ EXCEPT ![t] = @ \ {s}]
  /\ numPred' = [numPred EXCEPT ![s] = @ - 1]
  /\ phase' = [phase EXCEPT ![t] = "asked", ![s] = "ready"]
  /\ UNCHANGED <<identity, targets, submitted, domain, par, components, loops, caller>>

\* Mutant of DisableSubmission: the call is missing.
SubmissionStays(s) == UNCHANGED submitted

DisableSubmission(s) == submitted' = [submitted EXCEPT ![s] = FALSE]

\* An AsyncThread prefetches a successor of a task it runs or already holds:
\* the edge stays, to tell when the successor may run.
HoldImmediateSuccessor(t, s) ==
  /\ TRUE \in KeepWDDeps
  /\ phase[t] \in {"held", "running"}
  /\ IsImmediateSuccessor(t, s)
  /\ Acquire(s)
  /\ tasksInGraph' = tasksInGraph - 1
  /\ DisableSubmission(s)
  /\ phase' = [phase EXCEPT ![s] = "held"]
  /\ UNCHANGED <<identity, graph, targets, domain, par, components, loops, caller>>

-----------------------------------------------------------------------------
(* WorkDescriptor::done and DependableObject::finished, by the thread that   *)
(* ran the task or, for a CommutationDO, by the caller that satisfied it     *)

Moves(o, ph) == phase[o] = ph /\ ~ Nested(o)

\* The way of o through finished() with the written targets W and the read targets
\* R still to be deleted.  Once both are gone the successor list is walked, without
\* a lock, from its current value.
Advance(o, W, R) ==
  /\ phase' = [phase EXCEPT ![o] = IF W # {} THEN "unregister"
                                   ELSE IF R # {} THEN "unread" ELSE "release"]
  /\ unread' = [unread EXCEPT ![o] = R]
  /\ cursor' = [cursor EXCEPT ![o] = IF W \cup R = {} THEN succ[o] ELSE {}]

\* The body of t has returned: WorkDescriptor::done clears the owner slots and
\* enters finished().
Done(t) ==
  /\ phase[t] \in {"running", "asked"}
  /\ owner' = [a \in Addr |-> IF a \in GroupsOf(t) THEN NULL ELSE owner[a]]
  /\ Advance(t, writes[t], reads[t])
  /\ UNCHANGED <<identity, graph, targets, submitted, domain, par, components,
                 tasksInGraph, checked, batch, caller>>

\* CommutationDO::dependenciesSatisfied: removeCommDO, then finished().
RemoveCommDO(c) ==
  /\ Moves(c, "satisfied") /\ kind[c] = "comm"
  /\ commDO' = [a \in Addr |-> IF commDO[a] = c THEN NULL ELSE commDO[a]]
  /\ Advance(c, writes[c], reads[c])
  /\ UNCHANGED <<identity, graph, targets, submitted, lastWriter, readers, owner, par,
                 components, tasksInGraph, checked, batch, caller>>

\* deleteLastWriter for every written target, under the domain's and o's lock.
DeleteLastWriter(o) ==
  /\ Moves(o, "unregister")
  /\ lastWriter' = [a \in Addr |-> IF a \in writes[o] /\ lastWriter[a] = o
                                     THEN NULL ELSE lastWriter[a]]
  /\ Advance(o, {}, reads[o])
  /\ UNCHANGED <<identity, graph, targets, submitted, readers, commDO, owner, par,
                 components, tasksInGraph, checked, batch, caller>>

\* deleteReader for one read target, under the domain's and the readers' lock.
DeleteReader(o, a) ==
  /\ Moves(o, "unread")
  /\ a \in unread[o]
  /\ readers' = [readers EXCEPT ![a] = @ \ {o}]
  /\ Advance(o, {}, unread[o] \ {a})
  /\ UNCHANGED <<identity, graph, targets, submitted, lastWriter, commDO, owner,
                 par, components, tasksInGraph, checked, batch, caller>>

\* Mutant of CanBeBatchReleased: the number of predecessors is not looked at.
BatchReleaseAny(s) == kind[s] = "submit" /\ ValidForBatch /\ submitted[s]

CanBeBatchReleased(s) ==
  kind[s] = "submit" /\ numPred[s] = 1 /\ ValidForBatch /\ submitted[s]
BatchCandidate(o, s) == Cardinality(succ[o]) > 1 /\ CanBeBatchReleased(s)

\* A successor that passes canBeBatchReleased, with several successors to visit...
CheckBatch(o, s) ==
  /\ Moves(o, "release")
  /\ s \in cursor[o] /\ checked[o] = NULL
  /\ BatchCandidate(o, s)
  /\ checked' = [checked EXCEPT ![o] = s]
  /\ UNCHANGED <<identity, phase, graph, targets, submitted, domain, owner, par,
                 components, tasksInGraph, unread, cursor, batch, caller>>

\* ... loses its predecessor without being submitted yet.
BatchRelease(o) ==
  LET s == checked[o] IN
  /\ Moves(o, "release")
  /\ s # NULL
  /\ numPred' = [numPred EXCEPT ![s] = @ - 1]
  /\ batch' = [batch EXCEPT ![o] = @ \cup {s}]
  /\ cursor' = [cursor EXCEPT ![o] = @ \ {s}]
  /\ checked' = [checked EXCEPT ![o] = NULL]
  /\ UNCHANGED <<identity, phase, succ, targets, submitted, domain, owner, par,
                 components, tasksInGraph, unread, caller>>

\* Any other successor: decreasePredecessors, nested release included.
ReleaseSuccessor(o, s) ==
  /\ Moves(o, "release")
  /\ s \in cursor[o] /\ checked[o] = NULL
  /\ ~ BatchCandidate(o, s)
  /\ DecreasePredecessors(s, o)
  /\ cursor' = [cursor EXCEPT ![o] = @ \ {s}]
  /\ UNCHANGED <<identity, succ, targets, submitted, domain, owner, par, components,
                 unread, checked, batch>>

\* The walk is over: Scheduler::submit(immediateSucc) ends finished(), the DOSubmit
\* is deleted and exitWork of the parent counts one component less.
SubmitBatch(o) ==
  /\ Moves(o, "release")
  /\ cursor[o] = {} /\ checked[o] = NULL
  /\ tasksInGraph' = tasksInGraph - Cardinality(batch[o])
  /\ phase' = [p \in Obj |-> IF p = o THEN "gone"
                             ELSE IF p \in batch[o] THEN "ready" ELSE phase[p]]
  /\ components' = IF kind[o] = "submit" THEN components - 1 ELSE components
  /\ UNCHANGED <<identity, graph, targets, submitted, domain, owner, par, loops, caller>>

-----------------------------------------------------------------------------

ParentStep ==
  \/ \E x \in TaskMenu : Create("submit", x)
  \/ \E x \in WaitMenu : Create("wait", x)
  \/ \E a \in Addr : NextAccess(a) \/ FinalizeOneReduction(a)
  \/ ReadLastWriter \/ LockLastWriter \/ AddAsReader \/ SetAsWriter
  \/ LookupReaders \/ SetUpInitialComm \/ CloseOtherGroup \/ OpenGroup \/ JoinGroup
  \/ DropInitialDummy \/ Submit \/ ReleaseFake \/ WaitReturns
  \/ TaskWait \/ ClearDomain

FinishStep(o) ==
  \/ Done(o) \/ RemoveCommDO(o) \/ DeleteLastWriter(o)
  \/ \E a \in Addr : DeleteReader(o, a)
  \/ \E s \in Obj : CheckBatch(o, s) \/ ReleaseSuccessor(o, s)
  \/ BatchRelease(o) \/ SubmitBatch(o)

Terminated == par.pc = "end" /\ UNCHANGED vars

Next ==
  \/ ParentStep
  \/ \E o \in Obj : Start(o) \/ FinishStep(o)
  \/ \E t, s \in Obj : TakeImmediateSuccessor(t, s) \/ HoldImmediateSuccessor(t, s)
  \/ Terminated

Spec == Init /\ [][Next]_vars

(***************************************************************************)
(* The parent's thread and the threads in finished() run until they block, *)
(* and an idle worker keeps asking for ready tasks.  Nothing forces a      *)
(* scheduler to take immediate successors.                                 *)
(***************************************************************************)
Fairness ==
  /\ WF_vars(ParentStep)
  /\ \A o \in Obj : WF_vars(Start(o) \/ FinishStep(o))

FairSpec == Spec /\ Fairness
-----------------------------------------------------------------------------
(* Properties *)

\* The state has the shape the code's declarations give it.
TypeOK ==
  /\ lastDepObjId \in 0 .. MaxDepObjId /\ tasks \in 0 .. MaxTasks
  /\ kind \in [Obj -> {"submit", "wait", "comm"}]
  /\ acc \in [Obj -> Accesses]
  /\ phase \in [Obj -> Phases]
  /\ numPred \in [Obj -> Int]
  /\ succ \in [Obj -> SUBSET Obj]
  /\ writes \in [Obj -> SUBSET Addr] /\ reads \in [Obj -> SUBSET Addr]
  /\ submitted \in [Obj -> BOOLEAN]
  /\ lastWriter \in [Addr -> Obj \cup {NULL}]
  /\ readers \in [Addr -> SUBSET Obj]
  /\ commDO \in [Addr -> Obj \cup {NULL}]
  /\ owner \in [Addr -> Obj \cup {NULL}]
  /\ par \in ParentStates
  /\ components \in Int /\ tasksInGraph \in Int
  /\ unread \in [Obj -> SUBSET Addr] /\ cursor \in [Obj -> SUBSET Obj]
  /\ checked \in [Obj -> Obj \cup {NULL}] /\ batch \in [Obj -> SUBSET Obj]
  /\ caller \in [Obj -> Obj \cup {NULL, Parent}]

\* Edges of p whose predecessor count has not been given back yet.
PendingSucc(p) ==
  CASE phase[p] = "release" -> cursor[p]
    [] phase[p] \in {"none", "gone"} -> {}
    [] OTHER -> succ[p]

\* Predecessors that are no edge: the fake one of an object being submitted, the
\* dummy of an open group, the dummy of an initial CommutationDO.
IsFake(o) == o = par.cur /\ par.pc \notin {"idle", "wait", "taskwait", "end"}
IsOpen(o) == \E a \in Addr : commDO[a] = o
Dummies(o) == Cardinality({i \in 1 .. 3 : \/ i = 1 /\ IsFake(o)
                                          \/ i = 2 /\ IsOpen(o)
                                          \/ i = 3 /\ o = par.init})

\* A predecessor count is always the number of edges still to be released plus the
\* dummies: no release is lost or given twice, whichever of the five release paths
\* (finished, batch, nested group, immediate successor, fake) gives it back.
PredecessorCountExact ==
  \A o \in 1 .. lastDepObjId :
    numPred[o] = Cardinality({p \in Obj : o \in PendingSucc(p)}) + Dummies(o)

\* fatal_cond( numPred != 0, "Num predecessors is not 0" ) never fires: what
\* canBeBatchReleased saw still holds when the batch loop decreases the count,
\* and nobody dispatches a batched task before its batch is submitted.
BatchReleaseExact ==
  \A o \in Obj :
    /\ checked[o] # NULL => numPred[checked[o]] = 1
    /\ phase[o] = "release" => \A s \in batch[o] : numPred[s] = 0 /\ phase[s] = "waiting"

\* setUpTargetCommutationDependableObject never finds its open group without
\* predecessors (its third branch is dead), and removeCommDO never closes a group.
OpenGroupAlive ==
  \A a \in Addr : commDO[a] # NULL =>
    numPred[commDO[a]] >= 1 /\ phase[commDO[a]] = "waiting"

\* _tasksInGraph counts the tasks and waits that are submitted and not released.
TasksInGraphExact ==
  tasksInGraph = Cardinality({o \in Obj : kind[o] # "comm" /\ phase[o] = "waiting"})

\* "when other tasks can not update the domain": once the taskwait sees no
\* component, nothing is registered any more and no release is under way.
QuiescentAtClear ==
  (ParentMoves("taskwait") /\ components = 0 /\ \A a \in Addr : commDO[a] = NULL) =>
    /\ \A a \in Addr : lastWriter[a] = NULL /\ readers[a] = {} /\ owner[a] = NULL
    /\ \A o \in 1 .. lastDepObjId : phase[o] = "gone"

\* "any Object that wants to add depObj as a successor has done it before we
\* continue or, alternatively, won't do it": once finished() walks the successors
\* of an object without its lock, nobody changes them.
NoLateSuccessor ==
  [][\A o \in Obj : phase[o] \in {"release", "gone"} => succ'[o] = succ[o]]_vars

\* A task is handed to the scheduler, or to a thread that holds it, exactly once,
\* and only while it waits in the graph.
DispatchedOnce ==
  [][\A o \in Obj : (phase'[o] # phase[o] /\ phase'[o] \in {"ready", "held"})
                      => phase[o] = "waiting"]_vars

\* Every task, wait and group that enters the graph leaves it and the last taskwait
\* returns: the graph has no cycle, no count is leaked, nobody waits for a task
\* that a thread holds for somebody else.
GraphDrains == <>(par.pc = "end" /\ \A o \in 1 .. lastDepObjId : phase[o] = "gone")

\* The graph implements the order the program was promised.
AbstractState ==
  [o \in Obj |->
    IF kind[o] = "comm" \/ phase[o] = "none" THEN "none"
    ELSE CASE phase[o] \in {"creating", "waiting", "held", "ready"} -> "created"
           [] phase[o] \in {"running", "satisfied"} -> "running"
           [] OTHER -> "ended"]
AbstractAcc == [o \in Obj |-> IF kind[o] = "comm" THEN NoAccess ELSE acc[o]]

Order == INSTANCE TaskOrder WITH
  Id <- Obj, Menu <- TaskMenu \cup WaitMenu, acc <- AbstractAcc, state <- AbstractState

\* Tasks with conflicting accesses run in creation order, a "taskwait on" returns
\* only after the tasks it names, and members of a commutative group exclude each
\* other: every step of the graph is a step of TaskOrder or leaves it unchanged.
ImplementsTaskOrder == Order!Spec
=============================================================================
