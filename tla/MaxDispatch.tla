---------------------------- MODULE MaxDispatch -----------------------------
(***************************************************************************)
(* From ready to done, on SMP threads and on a Maxeler device: the ready   *)
(* queue of the breadth-first policy (plugins/sched/bf_sched.cpp,          *)
(* core/wddeque.hpp), the commutative slots a task takes one by one        *)
(* (core/workdescriptor.cpp), the immediate successor a thread keeps for   *)
(* itself, the worker loop of the Maxeler threads                          *)
(* (arch/maxeler/maxworker.cpp) and the end of the program (System::       *)
(* finish).                                                                *)
(*                                                                         *)
(* The dependence graph is what PlainDeps implements: a task is ready when *)
(* the earlier tasks it conflicts with have finished.  An idle thread      *)
(* polls: it moves when it finds something.                                *)
(***************************************************************************)
EXTENDS Access, Naturals, Sequences, FiniteSets

CONSTANTS
  Main,      \* the thread that runs the program and then works like the others
  Workers,   \* the other SMP threads
  Dfe,       \* the thread of MaxWorkerLoop
  Engines,   \* the devices of the DFE threads it takes turns with
  Programs   \* the programs to run: sequences of tasks

Smp == {Main} \cup Workers
Threads == Smp \cup {Dfe}
NULL == 0
RangeOf(s) == {s[i] : i \in DOMAIN s}

ASSUME ThreadsAssumption ==
  /\ IsFiniteSet(Workers) /\ Main \notin Workers /\ Dfe \notin Smp
  /\ NULL \notin Threads
ASSUME EnginesAssumption == Engines \in Seq(STRING) /\ Engines # <<>>

\* A task: its device, its accesses, and its commutative addresses in the order in which
\* initCommutativeAccesses found them, each of which it names once.
ASSUME ProgramsAssumption ==
  \A p \in Programs :
    /\ p \in Seq([dev : {"smp"} \cup RangeOf(Engines), acc : Accesses, slots : Seq(Addr)])
    /\ \A i \in DOMAIN p :
         /\ RangeOf(p[i].slots) = {a \in Addr : p[i].acc[a] = Commutative}
         /\ \A j, k \in DOMAIN p[i].slots : p[i].slots[j] = p[i].slots[k] => j = k

VARIABLES
  prog,      \* the program running
  created,   \* tasks submitted
  left,      \* conflicting earlier tasks that have not finished, _numPredecessors
  queue,     \* TeamData::_readyQueue
  lock,      \* the holder of the queue's lock, or NULL
  owner,     \* the commutative slot of each address
  pc,        \* where a thread is
  cur,       \* the task a thread executes or finishes
  tried,     \* the task whose slots it acquires, and in "succ" the last one it tried
  scan, idx, \* its place in the queue and in the slots of a task
  nextWDs,   \* BaseThread::_nextWDs
  turn,      \* the DFE thread whose turn it is, SMPMultiThread::_current
  curWD,     \* the task a DFE thread has as its current WD, NULL for its own WD
  running,   \* MaxWorker::getRunningTasks()
  flight,    \* runs the device has not completed
  ended,     \* history: tasks whose body has been executed
  exited,    \* tasks gone through done()
  stop       \* the threads have been told to stop

vars == <<prog, created, left, queue, lock, owner, pc, cur, tried, scan, idx, nextWDs,
          turn, curWD, running, flight, ended, exited, stop>>

dfeVars == <<turn, curWD>>

Task == DOMAIN prog
Created == 1 .. created
Slots(t) == prog[t].slots

\* canRun( wd )
Fits(e, t) == prog[t].dev = IF e = Dfe THEN Engines[turn] ELSE "smp"

\* The DOSubmit of x is itself a successor of p's: an access to a group, or of a group,
\* puts a CommutationDO between them.
Direct(p, x) ==
  \A a \in Addr : ModesConflict(prog[p].acc[a], prog[x].acc[a]) =>
    ~ (prog[p].acc[a] \in GroupModes \/ (prog[p].acc[a] = In /\ prog[x].acc[a] \in GroupModes))

Sorted(S) == CHOOSE s \in [1 .. Cardinality(S) -> S] :
               \A i, j \in 1 .. Cardinality(S) : i < j => s[i] < s[j]

Init ==
  /\ prog \in Programs
  /\ created = 0 /\ left = [t \in Task |-> {}]
  /\ queue = <<>> /\ lock = NULL /\ owner = [a \in Addr |-> NULL]
  /\ pc = [e \in Threads |-> IF e = Main THEN "submit" ELSE IF e = Dfe THEN "top" ELSE "idle"]
  /\ cur = [e \in Threads |-> NULL] /\ tried = [e \in Threads |-> NULL]
  /\ scan = [e \in Threads |-> 0] /\ idx = [e \in Threads |-> 0]
  /\ nextWDs = [e \in Threads |-> <<>>]
  /\ turn = 1 /\ curWD = [k \in DOMAIN Engines |-> NULL]
  /\ running = <<>> /\ flight = {} /\ ended = {} /\ exited = {}
  /\ stop = FALSE

Goto(e, l) == pc' = [pc EXCEPT ![e] = l]
Idle(e) == IF e = Dfe THEN "top" ELSE "idle"
-----------------------------------------------------------------------------
(* Main: the program, then waitCompletion and stopAllThreads *)

\* The next task; without predecessors it is pushed, under the queue's lock.
Submit ==
  LET t == created + 1
      P == {u \in Created \ exited : Conflict(prog[u].acc, prog[t].acc)}
  IN
  /\ pc[Main] = "submit" /\ created < Len(prog)
  /\ created' = t
  /\ left' = [left EXCEPT ![t] = P]
  /\ IF P = {} THEN lock = NULL /\ queue' = Append(queue, t) ELSE queue' = queue
  /\ UNCHANGED <<prog, lock, owner, pc, cur, tried, scan, idx, nextWDs, running, flight,
                 ended, exited, stop, dfeVars>>

\* waitCompletion: from now on the thread executes tasks.
WaitCompletion ==
  /\ pc[Main] = "submit" /\ created = Len(prog)
  /\ Goto(Main, "idle")
  /\ UNCHANGED <<prog, created, left, queue, lock, owner, cur, tried, scan, idx, nextWDs,
                 running, flight, ended, exited, stop, dfeVars>>

\* Mutant of NoComponents: the program ends when nothing is ready.
QueueEmpty == queue = <<>>

NoComponents == exited = Created

\* The wait is over and the threads are told to stop.
StopAllThreads ==
  /\ pc[Main] = "idle" /\ NoComponents
  /\ stop' = TRUE
  /\ Goto(Main, "join")
  /\ UNCHANGED <<prog, created, left, queue, lock, owner, cur, tried, scan, idx, nextWDs,
                 running, flight, ended, exited, dfeVars>>

Join ==
  /\ pc[Main] = "join" /\ \A e \in Threads \ {Main} : pc[e] = "out"
  /\ Goto(Main, "out")
  /\ UNCHANGED <<prog, created, left, queue, lock, owner, cur, tried, scan, idx, nextWDs,
                 running, flight, ended, exited, stop, dfeVars>>
-----------------------------------------------------------------------------
(* Taking a task: the thread's own queue, then the ready queue *)

\* A task kept as immediate successor owns its slots already.
TakeNext(e) ==
  /\ pc[e] = "idle" /\ nextWDs[e] # <<>>
  /\ cur' = [cur EXCEPT ![e] = Head(nextWDs[e])]
  /\ nextWDs' = [nextWDs EXCEPT ![e] = Tail(@)]
  /\ Goto(e, "run")
  /\ UNCHANGED <<prog, created, left, queue, lock, owner, tried, scan, idx, running,
                 flight, ended, exited, stop, dfeVars>>

\* The counter of the thread's device, read without the lock.
HasTasks(e) == \E i \in DOMAIN queue : Fits(e, queue[i])

Look(e) ==
  /\ pc[e] = "idle" /\ nextWDs[e] = <<>> /\ HasTasks(e)
  /\ Goto(e, "lock")
  /\ UNCHANGED <<prog, created, left, queue, lock, owner, cur, tried, scan, idx, nextWDs,
                 running, flight, ended, exited, stop, dfeVars>>

Lock(e) ==
  /\ pc[e] = "lock" /\ lock = NULL
  /\ lock' = e
  /\ scan' = [scan EXCEPT ![e] = 1]
  /\ Goto(e, "scan")
  /\ UNCHANGED <<prog, created, left, queue, owner, cur, tried, idx, nextWDs, running,
                 flight, ended, exited, stop, dfeVars>>

\* One step of popFrontWithConstraints: try a task of this device, or pass over it, or
\* leave without a task.
Scan(e) ==
  /\ pc[e] = "scan"
  /\ \/ /\ scan[e] > Len(queue)
        /\ lock' = NULL /\ Goto(e, IF e = Dfe THEN "post" ELSE "idle")
        /\ UNCHANGED <<tried, scan, idx>>
     \/ /\ scan[e] <= Len(queue) /\ ~ Fits(e, queue[scan[e]])
        /\ scan' = [scan EXCEPT ![e] = @ + 1]
        /\ UNCHANGED <<lock, pc, tried, idx>>
     \/ /\ scan[e] <= Len(queue) /\ Fits(e, queue[scan[e]])
        /\ tried' = [tried EXCEPT ![e] = queue[scan[e]]]
        /\ idx' = [idx EXCEPT ![e] = 1]
        /\ Goto(e, "try")
        /\ UNCHANGED <<lock, scan>>
  /\ UNCHANGED <<prog, created, left, queue, owner, cur, nextWDs, running, flight, ended,
                 exited, stop, dfeVars>>

\* Mutant of CanTake: the owner is not looked at.
CanTakeBlindly(t, a) == TRUE

CanTake(t, a) == owner[a] \in {NULL, t}

\* One round of tryAcquireCommutativeAccesses.
TrySlot(e) ==
  LET t == tried[e]
      a == Slots(t)[idx[e]]
  IN
  /\ pc[e] = "try" /\ idx[e] <= Len(Slots(t))
  /\ IF CanTake(t, a)
     THEN /\ owner' = [owner EXCEPT ![a] = t]
          /\ idx' = [idx EXCEPT ![e] = @ + 1]
          /\ pc' = pc
     ELSE Goto(e, "undo") /\ UNCHANGED <<owner, idx>>
  /\ UNCHANGED <<prog, created, left, queue, lock, cur, tried, scan, nextWDs, running,
                 flight, ended, exited, stop, dfeVars>>

\* Mutant of UndoFrom: the slot taken first is kept.
UndoFromSecond == 2

UndoFrom == 1

\* One round of the loop that gives the slots back, and the return: whoever holds the
\* queue goes on with its next task, the other with the next successor.
UndoSlot(e) ==
  /\ pc[e] = "undo"
  /\ IF idx[e] > UndoFrom
     THEN /\ owner' = [owner EXCEPT ![Slots(tried[e])[idx[e] - 1]] = NULL]
          /\ idx' = [idx EXCEPT ![e] = @ - 1]
          /\ UNCHANGED <<pc, scan>>
     ELSE /\ IF lock = e THEN scan' = [scan EXCEPT ![e] = @ + 1] /\ Goto(e, "scan")
             ELSE scan' = scan /\ Goto(e, "succ")
          /\ UNCHANGED <<owner, idx>>
  /\ UNCHANGED <<prog, created, left, queue, lock, cur, tried, nextWDs, running, flight,
                 ended, exited, stop, dfeVars>>

Acquired(e) == pc[e] = "try" /\ idx[e] > Len(Slots(tried[e]))

\* The task leaves the queue, which is unlocked.
Pop(e) ==
  /\ Acquired(e) /\ lock = e
  /\ queue' = [i \in 1 .. Len(queue) - 1 |-> IF i < scan[e] THEN queue[i] ELSE queue[i + 1]]
  /\ lock' = NULL
  /\ cur' = [cur EXCEPT ![e] = tried[e]]
  /\ Goto(e, IF e = Dfe THEN "launch" ELSE "run")
  /\ UNCHANGED <<prog, created, left, owner, tried, scan, idx, nextWDs, running, flight,
                 ended, exited, stop, dfeVars>>
-----------------------------------------------------------------------------
(* An SMP thread: the body, finishWork and done *)

EndRun(e) ==
  /\ pc[e] = "run"
  /\ ended' = ended \cup {cur[e]}
  /\ tried' = [tried EXCEPT ![e] = 0]
  /\ Goto(e, "succ")
  /\ UNCHANGED <<prog, created, left, queue, lock, owner, cur, scan, idx, nextWDs,
                 running, flight, exited, stop, dfeVars>>

\* Mutant of OnlyWaitsFor: it may wait for others too.
WaitsFor(x, t) == t \in left[x]

\* numPredecessors() == 1
OnlyWaitsFor(x, t) == left[x] = {t}

\* The successors releaseImmediateSuccessor has still to look at: submitted, with the
\* finishing task as only predecessor, and for this device.
Candidates(e) ==
  {x \in Created : x > tried[e] /\ OnlyWaitsFor(x, cur[e]) /\ Direct(cur[e], x) /\ Fits(e, x)}

\* atBeforeExit: try the slots of the next one, or go on to done().
NextSuccessor(e) ==
  LET C == Candidates(e) IN
  /\ pc[e] = "succ"
  /\ idx' = [idx EXCEPT ![e] = 1]
  /\ IF C = {} THEN Goto(e, "release") /\ UNCHANGED tried
     ELSE /\ tried' = [tried EXCEPT ![e] = CHOOSE x \in C : \A y \in C : x <= y]
          /\ Goto(e, "try")
  /\ UNCHANGED <<prog, created, left, queue, lock, owner, cur, scan, nextWDs, running,
                 flight, ended, exited, stop, dfeVars>>

\* Mutant of TakenOut: the successor stays in the list of the finishing task.
TakenOutNot(x) == left

TakenOut(x) == [left EXCEPT ![x] = {}]

\* It leaves the graph and waits for this thread.
KeepSuccessor(e) ==
  /\ Acquired(e) /\ lock # e
  /\ left' = TakenOut(tried[e])
  /\ nextWDs' = [nextWDs EXCEPT ![e] = Append(@, tried[e])]
  /\ idx' = [idx EXCEPT ![e] = 1]
  /\ Goto(e, "release")
  /\ UNCHANGED <<prog, created, queue, lock, owner, cur, tried, scan, running, flight,
                 ended, exited, stop, dfeVars>>

\* One round of releaseCommutativeAccesses.
ReleaseSlot(e) ==
  /\ pc[e] = "release"
  /\ IF idx[e] <= Len(Slots(cur[e]))
     THEN /\ owner' = [owner EXCEPT ![Slots(cur[e])[idx[e]]] = NULL]
          /\ idx' = [idx EXCEPT ![e] = @ + 1]
          /\ pc' = pc
     ELSE Goto(e, "finish") /\ UNCHANGED <<owner, idx>>
  /\ UNCHANGED <<prog, created, left, queue, lock, cur, tried, scan, nextWDs, running,
                 flight, ended, exited, stop, dfeVars>>

\* workFinished and exitWork: the successors that wait for nothing else are pushed, under
\* the queue's lock, and the parent has one component less.  The DFE thread whose turn it
\* is goes back to its own WD.
Finish(e) ==
  LET t == cur[e]
      R == {x \in Task : left[x] = {t}}
  IN
  /\ pc[e] = "finish"
  /\ R = {} \/ lock = NULL
  /\ left' = [x \in Task |-> left[x] \ {t}]
  /\ queue' = queue \o Sorted(R)
  /\ exited' = exited \cup {t}
  /\ curWD' = IF e = Dfe THEN [curWD EXCEPT ![turn] = NULL] ELSE curWD
  /\ cur' = [cur EXCEPT ![e] = NULL]
  /\ Goto(e, Idle(e))
  /\ UNCHANGED <<prog, created, lock, owner, tried, scan, idx, nextWDs, running, flight,
                 ended, stop, turn>>

\* The worker loop of an SMP thread ends.
LeaveIdleLoop(e) ==
  /\ e # Main /\ pc[e] = "idle" /\ stop /\ nextWDs[e] = <<>>
  /\ Goto(e, "out")
  /\ UNCHANGED <<prog, created, left, queue, lock, owner, cur, tried, scan, idx, nextWDs,
                 running, flight, ended, exited, stop, dfeVars>>

SmpStep(e) ==
  \/ TakeNext(e) \/ Look(e) \/ Lock(e) \/ Scan(e) \/ TrySlot(e) \/ UndoSlot(e) \/ Pop(e)
  \/ EndRun(e) \/ NextSuccessor(e) \/ KeepSuccessor(e) \/ ReleaseSlot(e) \/ Finish(e)
  \/ LeaveIdleLoop(e)
-----------------------------------------------------------------------------
(* MaxWorkerLoop *)

NextThread == (turn % Len(Engines)) + 1

\* The test of the loop, and the join after it.  The DFE threads take turns.
LoopTest ==
  /\ pc[Dfe] = "top"
  /\ Goto(Dfe, IF stop THEN "out" ELSE "idle")
  /\ turn' = IF stop THEN turn ELSE NextThread
  /\ UNCHANGED <<prog, created, left, queue, lock, owner, cur, tried, scan, idx, nextWDs,
                 running, flight, ended, exited, stop, curWD>>

\* getMaxWD finds nothing without taking the lock.
NoMaxWD ==
  /\ pc[Dfe] = "idle" /\ ~ HasTasks(Dfe)
  /\ Goto(Dfe, "post")
  /\ UNCHANGED <<prog, created, left, queue, lock, owner, cur, tried, scan, idx, nextWDs,
                 running, flight, ended, exited, stop, dfeVars>>

\* preOutlineWorkDependent and outlineWork: the run starts and its handle is kept.
Launch ==
  /\ pc[Dfe] = "launch"
  /\ flight' = flight \cup {cur[Dfe]}
  /\ running' = Append(running, cur[Dfe])
  /\ curWD' = [curWD EXCEPT ![turn] = cur[Dfe]]
  /\ cur' = [cur EXCEPT ![Dfe] = NULL]
  /\ Goto(Dfe, "top")
  /\ UNCHANGED <<prog, created, left, queue, lock, owner, tried, scan, idx, nextWDs,
                 ended, exited, stop, turn>>

\* Mutant of Completed: max_nowait in place of max_wait.
CompletedAnyway(t) == TRUE

\* max_wait( handle ) returns
Completed(t) == t \notin flight

\* No ready task: the oldest run is waited for, and its task goes through
\* postOutlineWork, which asks for no immediate successor.
PostOutline ==
  /\ pc[Dfe] = "post"
  /\ IF running = <<>> THEN Goto(Dfe, "top") /\ UNCHANGED <<running, cur, idx>>
     ELSE /\ Completed(Head(running))
          /\ cur' = [cur EXCEPT ![Dfe] = Head(running)]
          /\ running' = Tail(running)
          /\ idx' = [idx EXCEPT ![Dfe] = 1]
          /\ Goto(Dfe, "release")
  /\ UNCHANGED <<prog, created, left, queue, lock, owner, tried, scan, nextWDs, flight,
                 ended, exited, stop, dfeVars>>

MaxStep ==
  \/ LoopTest \/ Look(Dfe) \/ NoMaxWD \/ Lock(Dfe) \/ Scan(Dfe) \/ TrySlot(Dfe)
  \/ UndoSlot(Dfe) \/ Pop(Dfe) \/ Launch \/ PostOutline \/ ReleaseSlot(Dfe) \/ Finish(Dfe)

\* The device completes a run; runs of different engines complete in any order.
DeviceDone(t) ==
  /\ t \in flight
  /\ flight' = flight \ {t}
  /\ ended' = ended \cup {t}
  /\ UNCHANGED <<prog, created, left, queue, lock, owner, pc, cur, tried, scan, idx,
                 nextWDs, running, exited, stop, dfeVars>>
-----------------------------------------------------------------------------

MainStep == Submit \/ WaitCompletion \/ StopAllThreads \/ Join
AllOut == \A e \in Threads : pc[e] = "out"
Terminated == AllOut /\ UNCHANGED vars

Next == \/ MainStep \/ (\E e \in Smp : SmpStep(e)) \/ MaxStep
        \/ (\E t \in Task : DeviceDone(t)) \/ Terminated

Spec == Init /\ [][Next]_vars

\* Threads keep running and the device completes what it started.  The lock of the queue
\* is a test-and-set lock: nothing is assumed of who gets it.
FairSpec ==
  /\ Spec
  /\ WF_vars(MainStep) /\ WF_vars(MaxStep) /\ WF_vars(\E t \in Task : DeviceDone(t))
  /\ \A e \in Smp : WF_vars(SmpStep(e))
-----------------------------------------------------------------------------

\* Types of the variables.
TypeOK ==
  /\ prog \in Programs /\ created \in 0 .. Len(prog)
  /\ left \in [Task -> SUBSET Created]
  /\ queue \in Seq(Created) /\ running \in Seq(Created)
  /\ lock \in Threads \cup {NULL}
  /\ owner \in [Addr -> Created \cup {NULL}]
  /\ pc \in [Threads -> {"submit", "top", "idle", "lock", "scan", "try", "undo", "run",
                         "succ", "release", "finish", "launch", "post", "join", "out"}]
  /\ cur \in [Threads -> Created \cup {NULL}] /\ tried \in [Threads -> Created \cup {NULL}]
  /\ scan \in [Threads -> Nat] /\ idx \in [Threads -> Nat]
  /\ nextWDs \in [Threads -> Seq(Created)]
  /\ flight \subseteq RangeOf(running) /\ ended \subseteq Created /\ exited \subseteq ended
  /\ turn \in DOMAIN Engines /\ curWD \in [DOMAIN Engines -> Created \cup {NULL}]
  /\ stop \in BOOLEAN

\* The tasks whose body a thread or the device may be executing.
Executing == {cur[e] : e \in {f \in Threads : pc[f] = "run"}} \cup flight

\* A task executes only while it owns every commutative slot it names: no other task can
\* own one of them, on the device, on another thread or held as immediate successor.
OwnsItsSlots == \A t \in Executing : \A a \in RangeOf(Slots(t)) : owner[a] = t

\* A slot is owned by a task that is being tried, is held by a thread or executes: a failed
\* attempt and a finished task leave none behind, which would block the others for ever.
NoSlotLeft ==
  \A a \in Addr : owner[a] # NULL =>
    \/ \E e \in Threads :
         \/ pc[e] \in {"try", "undo"} /\ tried[e] = owner[a]
         \/ cur[e] = owner[a] /\ pc[e] # "finish"
         \/ owner[a] \in RangeOf(nextWDs[e])
    \/ owner[a] \in RangeOf(running)

\* Times a task occurs in a sequence.
Times(t, s) == Cardinality({i \in DOMAIN s : s[i] = t})

\* Every submitted task is in one place, and once: waiting for predecessors, in the ready
\* queue, with the one thread that holds or executes it, in the list of running tasks, or
\* gone.  The graph, the queue and the immediate successor agree on who dispatches it.
InOnePlace ==
  \A t \in Created :
    1 = Times(t, queue) + Times(t, running)
        + (IF left[t] # {} THEN 1 ELSE 0) + (IF t \in exited THEN 1 ELSE 0)
        + Cardinality({e \in Threads : cur[e] = t})
        + Cardinality({e \in Threads : t \in RangeOf(nextWDs[e])})

\* When MaxWorkerLoop ends, because its thread has been stopped and whatever its list
\* holds, no run is left on the device and no task in the list.
DrainedAtStop == pc[Dfe] = "out" => running = <<>> /\ flight = {} /\ exited = Task

\* "We will notify the tied thread when the execution completes" (core/schedule.cpp): a DFE
\* thread does not keep a task that is done as its current WD, which stopAllThreads deletes.
CurrentWDAlive == \A k \in DOMAIN Engines : curWD[k] \notin exited

Ids == UNION {DOMAIN p : p \in Programs}

\* The state of TaskOrder: what the submitted tasks access, and how far each task is.
taskAcc == [t \in Ids |-> IF t \in Created THEN prog[t].acc ELSE NoAccess]
taskState == [t \in Ids |-> IF t \notin Created THEN "none"
                            ELSE IF t \in ended THEN "ended"
                            ELSE IF t \in Executing THEN "running" ELSE "created"]

Order == INSTANCE TaskOrder WITH
  Id <- Ids,
  Menu <- UNION {{p[i].acc : i \in DOMAIN p} : p \in Programs},
  acc <- taskAcc,
  state <- taskState

\* Tasks start in an order the program cannot tell from creation order, and the members
\* of a commutative group one at a time, whichever of the queue, the immediate successor
\* and the device they come through.
ImplementsTaskOrder == Order!Spec

\* Thread e is where it takes the lock of the queue: to pop, to push what it has released,
\* or to push what it creates.
AtLock(e) == \/ pc[e] \in {"lock", "finish"}
             \/ e = Main /\ pc[e] = "submit" /\ created < Len(prog)

\* EndsUnlessStarved: the program ends with every task executed unless a thread spins for
\* the lock of the queue for ever.  Nobody waits for a slot for ever, although slots are
\* taken one by one, in different orders and while their tasks are only tried, and the
\* worker that blocks in max_wait comes back for the tasks that became ready meanwhile.
EndsUnlessStarved ==
  (\A e \in Threads : []<>~AtLock(e)) => <>(AllOut /\ exited = Task)
=============================================================================
