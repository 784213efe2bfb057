# Nanos++ / OmpSs for Maxeler: specifications

The repository holds three things: `src/nanox-mx`, the Nanos++ runtime of OmpSs
with a Maxeler back end; `src/mcxx`, the Mercurium source-to-source compiler that
emits calls to the runtime; and `src/gemm`, a sample. The runtime is where tasks,
threads and devices interact, and it is what these modules are about. Paths below
are relative to `src/nanox-mx/src`.

## 1. Inventory

| Component | State | Operations | What is hard | What makes it correct |
|---|---|---|---|---|
| Dependence graph: `plugins/deps/plain_deps.cpp`, `basedependenciesdomain.hpp`, `core/dependableobject.*`, `core/dependableobjectwd.cpp`, `core/commutationdepobj.hpp`, `core/trackableobject.hpp` | for each address the last writer, the readers, the open group; for each object predecessors, successors, targets | submit a task, wait on addresses, close groups, `finished()`, immediate successor, clear | the parent adds edges while other threads release the same objects; reads without a lock and tests again under it; a successor list walked without a lock; nested release of groups | conflicting tasks in creation order, every count equal to its edges, every task dispatched once, everything drains |
| Work descriptors: `core/workdescriptor.*` | `_components`, commutative owners, `_doSubmit` | `addWork`, `waitCompletion`, `done`, `exitWork`, acquire and release of commutative accesses | the parent may be destroyed when the last child has barely left | waits return, and only when no child uses the parent any more |
| Synchronized conditions: `core/synchronizedcondition*.hpp`, `Scheduler::waitOnCondition` | lock, waiter(s), reference count | test, block, signal | test and block are apart; signals for a state that is out of date | no lost wake-up, nobody woken twice |
| Barriers: `plugins/barr/*` | counters, flags, phases | `barrier`, `init`, `resize` | successive episodes share the same variables | nobody returns before all have arrived; all return |
| Thread teams, thread manager: `core/threadteam.*`, `core/threadmanager.cpp`, `core/basethread.*`, `arch/smp/smpthread.cpp`, `smpplugin.cpp` | flags of each thread, members and expected members of the team, mask of active CPUs | block, unblock, acquire a CPU, wait, set the mask or the number of threads, stop and join | flags tested without a lock on both sides of a sleep; the mask and the flags disagree; a thread woken and told to sleep again | somebody is awake, nobody sleeps on work that only he may do, the program ends |
| Ready queues and policies: `core/wddeque.hpp`, `plugins/sched/*` | queues, a thread's own next tasks | push, pop with constraints, immediate successor | asking whether a task may run takes its commutative slots | no task lost or dispatched twice, no slot left behind |
| Worksharing and slicers: `plugins/worksharing/*`, `plugins/slicers/*`, `TeamData` and `ThreadTeam::singleGuard`, the code Mercurium emits for loops | list of descriptors, bounds and chunks of each, single guard, work descriptors that are split | create, next item, submit, dequeue | threads several loops apart share a list that grows; a descriptor is found before it is filled; bounds at the end of the range | every iteration once, one thread elected, lastprivate from the last iteration |
| Maxeler device: `arch/maxeler/*` | list of running tasks, actions, the DFE thread whose turn it is | worker loop, asynchronous run, wait | one thread blocks for the oldest run of any engine, shared action list, stop with tasks running | every task that is outlined is finished once, and the program ends |
| Memory: `core/regioncache.cpp`, `regiondirectory.cpp`, `memcontroller.cpp` | versions and locations of regions | copy in, copy out, invalidate | several address spaces | a task reads the last version |
| Other devices, instrumentation, API, compiler, sample | | | vendor libraries, traces, wrappers, no concurrency | not modelled |

How they interact: the program's parent task calls `submitWithDependencies`; the
domain links the new object behind earlier ones; when its predecessor count drops
to zero the object is submitted to the scheduler, whose policy hands it to a
worker (or a worker takes it straight from the object that is finishing, as an
immediate successor); when the body returns, `WorkDescriptor::done` releases the
successors and `exitWork` tells the parent, which may be in `waitCompletion` on
the synchronized condition of `_components`. A task for a DFE is taken from the same
ready queue by the one thread of `MaxWorkerLoop`, which starts it and finishes it
later. Threads of a team meet in a barrier, and share loops through the worksharing
plugins (every loop of OpenMP, `schedule(omp_...)` in OmpSs) or through slicers (the
default of OmpSs).

`PROJECT.json` lists every component with its status and, under `hazards`, what in
this code is hard to test, at its line.

## 2. Modules

| Module | Models | Main correspondences |
|---|---|---|
| `Access` | access modes of `nanos_access_type_internal_t` | the four flags become one of five modes, the only combinations `submitDependableObjectDataAccess` accepts |
| `TaskOrder` | abstract: what the program is promised | create, start when every earlier conflicting task has ended, end |
| `PlainDeps` | the dependence graph of one parent | see below |
| `MCPlainDeps` | menus of accesses for TLC | |
| `PlainDepsProofs` | proofs about `PlainDeps`: types, who may still get successors, the counts, groups, batches, dispatch, clearing | |
| `PlainDepsOrder` | extends it: the refinement of `TaskOrder` | |
| `TeamBarrier` | abstract: what `Barrier::barrier` promises (`core/barrier_decl.hpp`) | `arrived`, `left` count calls and returns |
| `CentralizedBarrier` | `centralized_barrier.cpp` | `sem`, `flag` are `_sem`, `_flag`; `gen` counts the flag's changes (history) |
| `CentralizedBarrierProofs` | proofs about it | |
| `TreeBarrier` | `tree_barrier.cpp` | `left`, `right`, `parent`, `phase` of `NodeSems` |
| `TreeBarrierProofs` | proofs about it | |
| `SyncCond` | `waitCompletion`, `done` and `exitWork` over `SingleSyncCond` and `waitOnCondition` | `components`, `refcount`, `waiter`, `lock` |
| `SyncCondProofs` | proofs about it | |
| `Worksharing` | the three worksharing plugins, the team's list of descriptors, the single guard, the replicate slicer, the emitted loop | `desc`, `linked`, `pos` are the descriptors, the list and `TeamData::_wsDescriptor`; `singleGuard`, `mySingle` the counts of the single guard |
| `Slicers` | extends it with the other slicers | `nli` is the `nanos_loop_info_t` of a work descriptor in the ready queue |
| `MCWorksharing` | programs for TLC | |
| `WorksharingProofs` | proofs about loops with all slicers | |
| `MaxDispatch` | from ready to done, on SMP threads and on Maxeler engines | `queue`, `lock` are the `WDDeque`; `owner` the commutative slots; `nextWDs`, `running`, `turn`, `curWD` as in the code |
| `MaxDispatchProofs` | proofs about it | |
| `MCMaxDispatch` | programs for TLC | |
| `ThreadManager` | threads of an OmpSs team that sleep and are woken up | `mustSleep`, `isWaiting`, `mustLeave`, `mustStop` are flags of `BaseThread`, as sets; `member`, `expected` are `ThreadTeam::_threads`, `_expectedThreads`; `activeMask` is `_cpuActiveMask`, `lock` is `ThreadManager::_lock` |
| `MCThreadManager` | CPUs and programs for TLC | |
| `ThreadManagerProofs` | proofs about it | |

### PlainDeps

Objects are numbers given out in creation order (`_lastDepObjId++`). `kind` is the
C++ class, `phase` the place in the object's life, `numPred`, `succ`, `writes`,
`reads`, `submitted` its fields; `lastWriter`, `readers`, `commDO` are the
`TrackableObject` of each address; `owner` is `_commutativeOwnerMap`. The parent's
place in `submitDependableObjectInternal` is `par`.

| Step | Code |
|---|---|
| `Create`, `NextAccess`, `Submit`, `ReleaseFake` | `submitDependableObjectInternal`, with the fake predecessor |
| `ReadLastWriter`, `LockLastWriter` | `dependOnLastWriter`: the read without a lock and the second test under it are two steps |
| `AddAsReader`, `SetAsWriter` | input, output, inout |
| `LookupReaders`, `SetUpInitialComm`, `CloseOtherGroup`, `OpenGroup`, `JoinGroup`, `DropInitialDummy` | concurrent and commutative accesses |
| `WaitReturns`, `TaskWait`, `FinalizeOneReduction`, `ClearDomain` | `waitOn`, `waitCompletion` |
| `Start`, `TakeImmediateSuccessor`, `HoldImmediateSuccessor` | a worker picks a task; `releaseImmediateSuccessor` with `keepDeps` false (in `finishWork`) or true (an asynchronous thread's prefetch) |
| `Done`, `DeleteLastWriter`, `DeleteReader`, `CheckBatch`, `BatchRelease`, `ReleaseSuccessor`, `SubmitBatch` | `done`, `finished()` and what follows it |
| `RemoveCommDO` | `CommutationDO::dependenciesSatisfied`, run inside the call that dropped the last predecessor; that caller (`caller`) waits meanwhile |

A step is what one lock protects or one access outside locks. Merged into one
step: `dependOnReaders` and the flush that follows it (a reader that leaves in
between is flushed anyway and already has its edge), the successive owner slots of
one acquisition, `exitWork` with the end of `finished()`, and the end of a body
with what the thread does next. Each task runs on a thread of its own once it is
picked; nothing bounds their number.

Abstractions: memory is sequentially consistent; identities are never used again,
so a read of an object that was deleted meanwhile is not represented; a task names
an address once; tasks have no children of their own (a nested parent has its own
domain, which is another instance of this module); `preSchedule`, predecessor lists
and the scheduler's callbacks at creation are off; task reductions are left out.
`_tasksInGraph` is kept by instrumented builds only.

### Barriers and conditions

In the barriers a `wait()` returns once its condition holds. That no wake-up is lost
is the business of `SyncCond`, which models `waitOnCondition` in detail: the test
outside the lock, the second test under it, the switch to another task with the
lock still held, the registration by `switchHelper` on the other stack, or, without
user-level threads, `inlineWork`, which unlocks and runs another task on the same
stack. A child's `exitWork` is `reference`, the count, `signal` and `unreference`,
each a step. The parent may create more children between two waits, so signals for
an earlier zero arrive during a later wait. In `TreeBarrier` the plain ints are
written and read in order, as the fences make them.

At the end of a task `Done` is `WorkDescriptor::done`, after which the task is destroyed:
it enters the same wait if `_components` is not zero and skips it if it is. A wait ends
only when no child is inside `exitWork`; a wait that is skipped does not, which is
`sync_done`.

### Worksharing and Slicers

A program is a sequence of loops. In OpenMP every thread calls `create` for every
loop and takes items; in OmpSs thread 0 creates the loop and submits a work
descriptor whose slices the team executes while thread 0 is in its taskwait.

| Step | Code |
|---|---|
| `CreateStatic` | `WorkSharingStaticFor::create`: the thread's own descriptor and the single guard |
| `Link`, `InitLoop`, `Publish`, `Spin` | `create` of the dynamic and guided plugins: the walk of the team's list with its compare-and-swap, the fields, the field that is written last, the spin of the others |
| `NextItem`, `Sync` | `nanos_worksharing_next_item` and the emitted loop around it; the barrier, or nothing under nowait |
| `Submit`, `TakeNext`, `TakePool`, `WaitEnd`, `Leave` | the replicate slicer, the two places a thread gets slices from, the taskwait and the end |
| `SubmitSliced`, `TakeSlice`, `TakeSection`, `RunSlice` | `dynamic_for`, `guided_for`, `compound_wd`, `repeat_n` |
| `SubmitStatic`, `StaticLoop` | `static_for`; one chunk of `staticLoop` is a step |

Division and remainder truncate as in C. Where a plugin does not assign `item.last`
the value is any Boolean. Abstractions: an item and its iterations are one step, as
is the submission of a static loop to all threads; the team keeps its size, so
`acquireOne` and the instability of a team are left out; bounds stay far from the
limits of `int64_t`; the creator of an OmpSs loop is the first thread of the team;
whether `compound_wd` serializes, which depends on options and load, is free.
Sections and repetitions are the iterations of a loop.

### MaxDispatch

The graph is reduced to what `PlainDeps` implements: `left` is the set of earlier
conflicting tasks that have not finished, a task is ready when it is empty.

| Step | Code |
|---|---|
| `Submit`, `WaitCompletion`, `StopAllThreads`, `Join` | the program's thread, `System::finish` |
| `TakeNext`, `Look`, `Lock`, `Scan`, `Pop` | `getNextWD`, `BreadthFirst::atIdle`, `WDDeque::popFrontWithConstraints` |
| `TrySlot`, `UndoSlot` | one round each of `tryAcquireCommutativeAccesses` and of its rollback |
| `EndRun`, `NextSuccessor`, `KeepSuccessor`, `ReleaseSlot`, `Finish` | `inlineWork`, `finishWork`, `atBeforeExit`, `done` |
| `LoopTest`, `NoMaxWD`, `Launch`, `PostOutline` | `MaxWorkerLoop`, with the DFE threads taking turns |
| `DeviceDone` | external: a run that `max_run_nonblock` started completes |

The slots are not under a lock that covers them all: the queue's lock protects the
attempts of `popFrontWithConstraints` from each other, not from a thread that tries an
immediate successor. Merged into one step: `workFinished` with `exitWork`, and the
pushes of several successors. Left out: nested tasks, throttling, sleeping threads,
priorities, the fatal error when memory cannot be allocated, action lists. Runs
complete in any order, on the same engine too. `stop` is one flag for all threads.

### ThreadManager

A thread executes a work descriptor (`cur`) or is in its idle loop (`pc`). The calls it
is in are a sequence of jobs, the innermost first; `addNextWD` inside a submission
inside `finishWork`, for instance, is three of them, so that other threads may step
between any two. The main WD is a user-level thread: it moves with its last child's
thread when it is not tied.

| Step | Code |
|---|---|
| `SleepTest`, `Wait`, `Resume` | the test of `idleLoop`, `SMPThread::wait` with its second test, and the way out of it with the next team |
| `GetNextWD`, `GetReadyWD`, `GetNothing`, `SpinAgain`, `EndThread` | the rest of `idleLoop` |
| `BlockTest`, `BlockThread`, `BlockSleep`, `BlockStatus` | `blockThread`: the tests before the lock, the one under it, `sleep()`, `updateCpuStatus` |
| `UnblockTest`, `UnblockWake`, `UnblockStatus` | `unblockThread`: test without the lock, `tryWakeUp`, `updateCpuStatus` |
| `Submit`, `AcquireOne`, `Enqueue`, `PushNextWD` | `Scheduler::_submit` of one task, `acquireOne`, the ready queue, `addNextWD` |
| `QueueBatch`, `UnblockNext` | `Scheduler::_submit` of several tasks and `BreadthFirst::queue`: all of them, tied or not, go into the ready queue, and the threads from the second on are unblocked one by one |
| `SetCpuActiveMask`, `ApplyMask`, `MaskApplied` | `setCpuActiveMask` and `applyCpuMask`, CPU by CPU |
| `SetNumThreads`, `AwaitStable`, `UpdateWorker` | `omp_set_num_threads`: `isStable`, then `updateActiveWorkers`, worker by worker |
| `FinishWork`, `ExitWork`, `LeaveTask` | the end of a task: the successor that is kept, the others, submitted alone or as a batch (`Releases`), the wake-up of the main WD, `Scheduler::exit` |
| `CreateTask`, `TaskWait`, `Shutdown`, `OnMainThread`, `StopThreads`, `Join`, `EndMain` | the program and `System::finish` |

The configuration is OmpSs (malleable) with `--enable-block` and without DLB. What the
mutex of one thread protects is one step, and so are all threads of a CPU in `ApplyMask` and
`StopThreads`. `isGreedy`, `testDequeue` and `acquireOne` are one step that takes the
lock if it is free, or does nothing, as when `testDequeue` finds the lock of the queue
taken; a pop takes the first task of the queue that this thread may execute (`Allowed`),
which may be one of a batch that is tied to it; a batch with a task tied to a thread
without a team, which is a fatal error in the code, does not go on;
every CPU is in the process mask; the number of workers does not grow; a task has at most one predecessor; `isStable` waits until the calling thread
is expected, where the code would switch to another thread.

## 3. Runs

| Run | Instance | Shows | Distinct states |
|---|---|---|---|
| `deps_order` | 3 tasks or waits: on 1 address in the 5 modes, or on 2 at once with a taskwait after the second; 7 objects, both values of `keepWDDeps`, fairness | `PredecessorCountExact`, `OpenGroupAlive`, `BatchReleaseExact`, `TasksInGraphExact`, `QuiescentAtClear`, `NoLateSuccessor`, `DispatchedOnce`, refinement of `TaskOrder`, `GraphDrains` | 152 thousand |
| `barr_centralized` | 5 participants, 4 episodes, fairness | `ReductionsAlone`, refinement of `TeamBarrier`, `EveryoneThrough` | 3 thousand |
| `barr_tree` | 6 participants, 4 episodes, fairness | refinement of `TeamBarrier`, `EveryoneThrough` | 102 thousand |
| `sync_cond` | 4 children, threads with and without user-level threads, fairness | `WaiterBlocked`, `NoLateSignal`, `WaitReturnsAtLast` | 30 thousand |
| `sync_done` | 2 children | **violated**: `StructuresKept` | |
| `ws_loops` | 3 threads, 190 programs, fairness | `NoIterationTwice`, `NoIterationLost`, `SingleElected`, `DescriptorOfMyLoop`, `LastprivateAtBound`, `LoopsEnd` | 149 thousand |
| `ws_nowait` | 2 threads, two static OmpSs loops under nowait | **violated**: `NoIterationLost` | |
| `max_dispatch` | 2 SMP threads, 1 Maxeler worker with 2 engines, 8 programs of 3 or 4 tasks, fairness | `OwnsItsSlots`, `NoSlotLeft`, `InOnePlace`, `DrainedAtStop`, refinement of `TaskOrder`, `EndsUnlessStarved` | 150 thousand |
| `max_engines` | 1 SMP thread, 2 engines, a task for each | **violated**: `CurrentWDAlive` | |
| `threads_sleep` | 3 threads on 2 CPUs, 5 kinds of program with 2 tasks and 2 calls or with 4 tasks, fairness | `SomeoneAwake`, `NoWDAsleep`, `ProgramEnds` | 477 thousand |
| `threads_batch` | 3 threads on 2 CPUs, 3 tasks tied to 2 of them, batches | **violated**: `NoWDAsleep` | |
| `threads_mask` | 2 threads on 2 CPUs, 1 task, 1 change of the mask, untied main WD | **violated**: `SomeoneAwake` | |

Bounds. `MaxTasks` bounds the tasks and waits of a behaviour and `MaxDepObjId` the
objects; a task with a group access may need three. Three tasks on one address
reach every pair of modes with a third task before or behind them, up to what an empty
domain does not tell apart: the first access is no output, no concurrent access and no
wait, and the third is not concurrent (`ModesOf` of `MCPlainDeps`). The programs on two
addresses name both in every access, two concurrent ones in a row among them, and have a
taskwait after the second, so that the third finds a domain that was cleared; they let an object
be predecessor of another twice and let one wait for two writers; with three tasks an object has the two successors, one of them taken as
immediate successor, that batch release has to tell apart. `Episodes` bounds the calls of each participant:
four let the tree's phase wrap past its initial value; six nodes make a tree of
three levels with a node that has only a left child. Four children let `_components`
pass through zero several times while earlier signals are still under way. The loops of
`MCWorksharing` go up and down, have no iteration, fewer than threads, one or several
rounds of chunks, and bounds that the step reaches or steps over; two loops in a row
let threads be a loop apart, and three threads let one be elected, one wait for it and
one be elsewhere. `Space` is wide enough for an item that leaves its loop. The programs
of `MCMaxDispatch` make tasks compete for two slots in both orders, on threads, on the
device and as immediate successor, pass over a successor, release one task from two
engines, and chain threads and device. In `MCThreadManager` two threads share a CPU, so
that a CPU is active while one of its threads sleeps; two tasks, tied to a worker or
one after the other, make a successor that is kept, queued or sent to another thread;
two calls shrink and grow the team, from one thread to all; with four tasks, three
of them after the first, one is kept and two are released as a batch. The programs of
`threads_sleep` create tied tasks with a tied or an untied main WD, or change the mask, or the number of threads, with
a tied one, or release untied tasks in batches. Batches of tied tasks are `threads_batch`. An
untied main WD that changes the mask is `threads_mask`; both kinds of calls in one program are left out (see the remarks below).
`deps_order` and `threads_sleep` select their programs with a condition on the steps of the
parent (`InProgram` of their MC modules); it leaves the parent a step to take in every
state, so fairness is not affected, and every action of the two modules occurs.

Fairness is weak and only for what the code really drives: the parent's thread,
a thread inside `finished()` or `exitWork`, an idle worker that keeps asking for
ready tasks, a participant of a barrier. Nothing is assumed of a scheduler's wish to
take immediate successors, and the spin lock of a condition is not fair. In the loops
and in `MaxDispatch` every thread keeps running (weak fairness of its steps) and the
device completes what it started; in `ThreadManager` too every thread that does not
sleep keeps running. Nowhere is more than weak fairness assumed. The ready queue has a
test-and-set lock, which other threads may take and release for ever, while they find no
task they may run, before a thread that spins for it: the code does not promise that such a
thread gets it. That no thread spins there for ever is therefore a hypothesis of the
property, `EndsUnlessStarved`, and not of the specification: the end of the program may
be missed for want of that lock and of nothing else, in particular not for want of a
commutative slot or of a completed run. In `ThreadManager` a pop or a push is one step, so
`ProgramEnds` there is about sleeping threads and takes the lock of the queue for granted.

Findings.

- `sync_done`: a task without a taskwait at its end whose last child has counted
  `_components` down to zero, but is still inside `exitWork`, finds nothing to wait for in
  `done()` (`core/workdescriptor.cpp:321`, "Waiting for children (just to keep
  structures)") and is destroyed (`core/schedule.cpp:1057`); the child then signals and
  unreferences a condition in freed memory. The reference count is there to prevent this,
  and it does in a wait that is made (`NoLateSignal`), but only a wait looks at it.
- `threads_batch`: two tied successors that a task releases together go into the ready
  queue of the team, and `BreadthFirst::queue` unblocks the threads of the batch ("Unblock
  all participant threads", `plugins/sched/bf_sched.cpp:106`) from index 1 on. If the
  thread of the first one sleeps, it sleeps on a task that only it can execute. Submitted
  alone, the task would go through `addNextWD`, which wakes the thread up.
- `ws_nowait`: an OmpSs loop with `schedule(omp_static) nowait`. The creator of a static
  loop fills its one descriptor and queues its own slice with a pointer to it; the next
  static loop fills the descriptor again before the slice is executed, and the creator's
  iterations of the first loop are executed by nobody. The test
  `tests/mcc/ompss/ompss_ws_01.c:37` checks that every iteration is executed, but waits
  after each loop. With a taskwait, or with dynamic and guided loops, `ws_loops` shows
  that nothing is lost; what the test demands of an iteration is what fails here.
- `max_engines`: a task is tied to the DFE thread that launches it, "because we will
  notify the tied thread when the execution completes" (`core/schedule.cpp:722`), but
  `MaxWorkerLoop` finishes it in the turn of whichever DFE thread comes when no task is
  ready. (The comment is in `preOutlineWork`; the Maxeler path goes through its twin
  `tryPreOutlineWork`, which ties the task in the same way at line 753.) With two engines
  the launching thread keeps the task as its current WD, which
  `stopAllThreads` deletes. With one engine the same invariant holds.

- `threads_mask`: `blockThread` tests "Do not release if this CPU is the last active within
  the process_mask" (`core/threadmanager.cpp:174`) under the lock of the thread manager,
  and then sends its thread to sleep. `OmpSsInterface::setCpuActiveMask`
  (`pms/openmp/omp_init.cpp:495`) changes the mask and the flags of the threads under a
  lock of its own. A main task that is not tied may ask for just the CPU whose thread
  has passed the test: its own thread is told to sleep, the other one sleeps too, and
  nobody is left to execute the task in the ready queue. A tied main task keeps the
  main thread's CPU in every mask, and `threads_sleep` shows that this is enough.

Remarks that are no findings.

- For a loop without iterations truncation gives the dynamic and guided plugins one chunk
  whose bounds cross. Debug builds stop at the `ensure` of `dynamic.cpp:98` and
  `guided.cpp:114`; without it the emitted loop executes nothing, and that is what
  `ws_loops` contains.
- The static plugin marks the block whose upper bound equals the loop's bound as last.
  If the step does not reach that bound (0 to 5 by 2) no block is marked and the code
  emitted for `lastprivate` copies nothing. `LastprivateAtBound` says what holds: a
  static loop that reaches its bound leaves the value of that iteration.
- A program that calls both `omp_set_num_threads` and the mask functions may wait for a
  stable team for ever. A thread that waits without a team is woken as an expected
  member, which "will enter by itself in the team" (`core/threadteam_decl.hpp:224`), and
  is told to sleep again by a mask before it resumes: it stays in the loop of
  `smpthread.cpp:102`, expected but no member, and `isStable` stays false. In an instance
  with both kinds of calls `ProgramEnds` fails in this way.

## 4. Proofs

All theorems hold for every value of the constants that satisfies the `ASSUME`s of
the modules and assume nothing else: finite sets, natural bounds, menus of well-formed
accesses, waits that name no group access, as the code's `ensure` demands, the program's
thread and the Maxeler worker apart from the workers, slots that a task names once, arguments of the calls that change
the team in their range (CPUs of the process, at least one thread).

- `PlainDepsProofs!TypeCorrect`, `SuccessorsFrozen`. `NoLateSuccessor` is what the
  comment in `finished()` claims. `IInv` strengthens the types with: the parent's
  local variables are defined where it uses them (`ParentOK`); a task under
  construction is not submitted (`CreatingOK`); waits have no group access
  (`WaitOK`); nothing refers to an object not yet created (`Fresh`); only submitted
  tasks are in a batch (`BatchOK`); and the three facts that carry the result: a last
  writer has not yet passed `deleteLastWriter` (`WriterOK`), a listed reader has not
  yet passed its `deleteReader` (`ReaderOK`), an open group is waiting or satisfied
  (`GroupOK`). An object whose successors are walked is therefore neither last
  writer nor reader nor open group, and these are the only objects the parent adds
  successors to. One lemma for each action shows that it keeps `IInv`.
- `PlainDepsProofs!ExactCounts`, `GroupsAlive`, `BatchesExact`, `GraphCounted`,
  `ClearQuiescent`, `OneDispatch`, all from `CInv`, which is inductive together with
  `IInv` (`CountsInvariance`). `Exact` says that a count is the number of edges still to
  be given back (`Edge`: the cursor of an object in its release loop, the successors of
  one before it) plus the dummies the parent holds. It is kept only because an edge is
  never added twice, which is `Groups` (a task joins the group of an address once, and
  no group has two addresses), and never given back twice, which is `Walk` (the release
  loop visits successors, the checked one included). `Lives` and `EdgeKinds` say which
  phases and edges each class has, `Building` and `Submission` where the parent is and
  who may submit, `Zero` that nobody starts with a predecessor left. `Batches` says that
  what `canBeBatchReleased` saw stays true: the one edge left is the one of the thread
  that looked, by `Exact`, so nobody else can give it back. `TotalsExact`, `Callers` and
  `Owners` are the totals, the calls inside which a group is released, and the owner
  slots; with them a parent that counts no child is alone with an empty domain.
- `PlainDepsOrder!OrderInvariance`, `Refinement`: the dependence graph implements
  `TaskOrder`. `Reach(u, t)` says that every set that holds `t` and the predecessors of
  its members holds `u`: the edges lead from `u` to `t`. Stated in this way, paths need no
  recursion and no induction. `OInv` says that an unfinished task is behind the
  readers, the last writer, the open group or the wait of its address (`Covered`); that
  these are linked among each other (`ReadersIn`, `ReadersBehind`, `GroupBehind`); what
  the parent, in the middle of an access, has still to do about it (`AtAddress`); and
  hence that a later task is reached from each unfinished one it conflicts with
  (`Ordered`). Edges disappear while the parent works, but only those of objects that
  have finished, and these are first on every path they are on (`ReachKept`); so what
  the parent has read without a lock may be out of date without harm. A task that
  starts has no predecessor, so it is reached by nobody: every earlier conflicting task
  has ended. Members of a commutative group, which the graph leaves unordered, exclude
  each other by the owner slots (`Holders`). The proof showed that the refinement mapping
  used a `CASE` with overlapping arms, whose value TLA+ leaves open and TLC does not;
  `AbstractState` no longer does.
- `CentralizedBarrierProofs!ReductionsSafe`, `Refinement`. `IInv` says for each
  participant where it is relative to the number of flag changes (`Place`), that the
  last one is alone (`Alone`), and that `sem` is the number of participants counted
  in this episode (`SemOK`). It gives both the guard of `TeamBarrier!Leave` and the
  bound on `sem`.
- `TreeBarrierProofs!TypeCorrect`, `Refinement`, for any number of nodes. Each int of a node is the number of times its writer has written it, modulo 3 (`Ints`); the two
  ends of an edge are never more than one write apart when one of them compares
  (`Edges`), so that the three values of the phase, wrap included, are enough. That
  nobody is released before all have arrived is an argument over the tree: the least
  node that had not arrived would have a parent that had not either
  (`LeastElement`, which the proofs use in place of induction).
- `SyncCondProofs!WaiterIsBlocked`, `ReturnIsSafe`. `IInv` says that `components` and
  `refcount` are the numbers of children alive and inside `exitWork`, that nobody
  is alive once the test has succeeded, and that a queued parent is no waiter.
  `ReturnIsSafe` is about a wait that is made; for `done()` without a wait it is false
  (`sync_done`).
- `MaxDispatchProofs!TypeCorrect`, `SlotsExclusive`, `NoneLeft`, `OnePlace`, `Drained`,
  `Refinement`. `SlotsOwned` is the centre of `IInv`: a slot is owned by a task exactly
  when somebody claims it for that task, namely a thread that tries the task and has come
  past the slot, one that executes it or has still to release the slot, one that keeps
  it as its next task, or the list of running tasks. It holds although the slots have no
  common lock, because two threads never try one task: a task of the queue is tried by
  the holder of the queue's lock, a successor by the thread of its only predecessor
  (`Control`, `Tries`). `Apart`, `Somewhere` and `Once` say that a task is in one place;
  `Executed`, `InOrder` and `Stopping` relate `left`, `ended` and the end of the program.
  The invariant gives the guard of `TaskOrder!Start`. Sorting the ready successors of a
  task by their number is handled by `Enumerable`.
- `WorksharingProofs!TypeCorrect`, `SingleElection`, `RightDescriptor`, of `SlicerSpec`,
  that is for loops of every policy, slicer and step, with or without `nowait`. The
  counters that `create()` compares tell loops apart only if all threads count alike:
  `Turns` says that a thread's counter is the number of loops with a policy that uses it
  (`Count`) below the point the thread has reached, and is never ahead of the team's. So
  a loop has a rank all threads agree on, whatever their distance, and has been elected
  exactly when the team's counter is past its rank (`Elections`). For a dynamic or guided
  loop the rank is also the place of its descriptor in the team's list; two loops never
  share one. `Published` says that a descriptor whose `ws` is set holds the bounds of its
  loop, `Entries` and `Places` that what is queued, and what a thread has in hand, comes
  from the descriptor of its own loop. `IInv` also needs the exact shapes of what the
  slicers put into the queues (`Shape`).
- `ThreadManagerProofs!TypeCorrect`, `NeverAllAsleep`, `NoWDSleeps`, from three invariants
  that build on each other. `Base` describes a state: the types, which calls a thread may
  be in and what they name (`Where`), who holds the lock of `ThreadManager`, which follows
  from the call or the place of the thread (`Locking`), and the end of the program
  (`Stopping`). `Awake` says who sleeps. With a tied main WD thread 0 is never sent to
  sleep and its CPU stays in the mask, whatever the program does (`MainAwake`). If the
  program leaves the team alone, an active CPU has a thread that runs, or the holder of
  the lock is about to see to it (`Masked`): the test of `blockThread` for the last active
  CPU and the sleep that follows are under one lock, so they cannot be separated as in
  `threads_mask`. `Served` says who has WDs: `addNextWD` pushes before it tests whether
  the thread sleeps, so for a sleeping thread with a WD somebody is between the test and
  the wake-up (`Woken`); applying the mask could put a thread to sleep behind that test,
  but an inactive CPU has no thread that runs (`Dark`). If no task is tied to a thread, a
  thread only gives WDs to itself and does not wait while it has some (`Own`). The
  conditions these arguments need are hypotheses on the program in the theorems and not
  assumptions on the constants, and every kind of program in `threads_sleep` satisfies
  them: `~ setup.untied \/ NoCalls` for `NeverAllAsleep`, and `setup.ties = {} \/ (NoCalls
  /\ ~ setup.forks)` for `NoWDSleeps`. The second is as weak as the code allows in what it
  says about batches: if tasks are tied and one may have several successors, the theorem
  is false (`threads_batch`). Without ties batches are in the theorem: a batched task can
  be executed by anybody, so it keeps nobody from sleeping. With ties but no batches a
  tied task never enters the ready queue (`TReady`, `Sound`), so a thread's own list is the
  only place where work for it alone can be.

Only model-checked: liveness (`GraphDrains`, `EveryoneThrough`,
`WaitReturnsAtLast`, `LoopsEnd`, `EndsUnlessStarved`, `ProgramEnds`), which is out of the prover's reach, as
is `ENABLED`; and

- `NoIterationTwice`, `NoIterationLost` and `LastprivateAtBound`. They rest on products
  and quotients of variables (chunks, strides), which the SMT solver does not decide, and
  for guided loops on what the recursive function that counts the rest computes, which
  takes an induction over data.
- `NoWDAsleep` from the moment an untied main WD moves to thread 0 to end the program
  (`Steady` in `NoWDSleeps` excludes it). `System::finish` wakes up thread 0 without
  telling the mask, so `Dark` fails; what saves the main WD then is that no task is left,
  so that nobody calls `acquireOne` with effect. A proof needs the invariant that a task
  of `ThreadManager` is in one place, as `MaxDispatchProofs!OnePlace` shows it of the
  dispatch.
- `SomeoneAwake` for an untied main WD that changes the team is false (`threads_mask`);
  `NoWDAsleep` for one that changes the team and ties tasks to threads is claimed nowhere,
  and for batches of tied tasks it is false (`threads_batch`).

## 5. Plan

In this order:

1. Proofs: `NoIterationTwice` for loops without a guided chunk, and that a task of
   `ThreadManager` is in one place, which frees `NoWDSleeps` of its last condition.
2. The centralized barrier under `resize`, for OpenMP teams that change between regions.
3. `releaseReadDependencies` as an extension of `PlainDeps`.
4. Region cache and directory: versions of a region in several address spaces.

## 6. Not modelled

- `resize` of a barrier that is in use; the barriers and the loops take the team as
  constant, and only `ThreadManager` lets it change. Of the thread manager DLB, a library
  that is not in the repository, the OpenMP branches, new workers and process masks, and
  the switch of `isStable` to another thread.
- The dissemination barrier. `plugins/Makefile.am` builds libraries from the centralized
  and the old centralized barrier only; the sources of the dissemination, posix and tree
  barriers are listed there (lines 543 to 553) but no library is made of them. The tree
  barrier is modelled all the same: its source is complete and meets its promise.
- Loops inside an explicit task, which get a descriptor that no other thread sees
  (`basethread.hpp:63`).
- Memory: the region cache and directory and the controllers. Their state is nested
  containers of regions; a faithful model needs the algebra of overlapping regions first.
- The region trees of the other dependence plugins, for the same reason; their release
  protocol is the one of `PlainDeps`.
- Freed memory: objects have identities that are not used again.
- Device back ends other than Maxeler, and the SLiC library: calls into code that the
  repository does not hold.
- The compiler, except for what it emits for loops, barriers and taskwaits;
  instrumentation, API wrappers, throttle policies, the GEMM sample.
- `WDLFQueue`, which no policy instantiates, and `static_tree_for.cpp`, which is not built.
