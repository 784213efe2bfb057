--------------------------- MODULE ThreadManager ----------------------------
(***************************************************************************)
(* How the threads of an OmpSs team go to sleep and are woken up           *)
(* (--enable-block, without DLB): ThreadManager with its mask of active    *)
(* CPUs, the flags of BaseThread and the pthread wait of SMPThread, the    *)
(* idle loop of the scheduler, and the calls that change the team: the     *)
(* mask of active CPUs, the number of threads, and the end of the program. *)
(*                                                                         *)
(* A thread executes a WD (cur) or the idle loop (pc).  The calls it is in *)
(* are a sequence of jobs, the innermost first, each a step or a few.  The *)
(* main WD (0) creates tasks, each after at most one other and perhaps     *)
(* tied to a thread, calls the runtime, waits, and ends the program; it is *)
(* a user level thread that may continue on another thread when it is not  *)
(* tied.  What is done under the mutex of a thread is one step.            *)
(***************************************************************************)
EXTENDS Integers, Sequences, FiniteSets, FiniteSetsExt

CONSTANTS
  Threads,      \* the workers, 0 .. n; 0 is the main thread
  CpuOf,        \* the CPU of each; two threads of a CPU are oversubscription
  MaxThreads,   \* requested workers, _maxThreads
  MaxTasks,     \* bound: tasks a program creates
  MaxCalls,     \* bound: calls that change the team
  Setups        \* [untied, masks, sizes, ties, forks, tasks]: whether the main WD may move,
                \* the arguments of its calls, the threads its tasks may be tied to, whether
                \* a task may have several successors, how many tasks there are

ASSUME ThreadsAssumption == /\ IsFiniteSet(Threads) /\ Threads = 0 .. Cardinality(Threads) - 1
                            /\ 0 \in Threads
                            /\ CpuOf \in [Threads -> Nat]
ASSUME BoundsAssumption == {MaxThreads, MaxTasks, MaxCalls} \subseteq Nat

Cpus == {CpuOf[t] : t \in Threads}     \* all in the process mask
None == -1
Main == 0

ASSUME SetupsAssumption ==
  \A s \in Setups : /\ s.untied \in BOOLEAN /\ s.masks \subseteq SUBSET Cpus
                    /\ s.sizes \subseteq Nat \ {0} /\ s.ties \subseteq Threads
                    /\ s.forks \in BOOLEAN /\ s.tasks \in 0 .. MaxTasks

VARIABLES
  setup,        \* which program this is
  mustSleep, isWaiting, mustLeave, mustStop,  \* the flags of BaseThread, as sets of threads
  member,       \* ThreadTeam::_threads: the threads with team data
  expected,     \* ThreadTeam::_expectedThreads
  nextTeam,     \* the threads with a next team
  lock,         \* holder of ThreadManager::_lock
  activeMask,   \* SMPPlugin::_cpuActiveMask
  pc, cur, jobs,
  queue,        \* the ready queue of the team
  nextWDs,      \* BaseThread::_nextWDs
  after, tied,  \* of each task: its predecessor and the thread it is tied to
  released,     \* the tasks whose successors have been looked at
  done,         \* the tasks that have left the main WD's components
  calls, phase

flagVars == <<mustSleep, isWaiting, mustLeave, mustStop>>
teamVars == <<member, expected, nextTeam>>
maskVars == <<lock, activeMask>>
readyVars == <<queue, nextWDs>>
taskVars == <<after, tied, released, done>>
progVars == <<setup, calls, phase>>
vars == <<flagVars, teamVars, maskVars, pc, cur, jobs, readyVars, taskVars, progVars>>

Created == DOMAIN after

TypeOK ==
  /\ setup \in Setups
  /\ \A S \in {mustSleep, isWaiting, mustLeave, mustStop, member, expected, nextTeam} :
        S \subseteq Threads
  /\ lock \in Threads \cup {None}
  /\ activeMask \subseteq Cpus
  /\ pc \in [Threads -> {"test", "wait", "blocked", "get", "idle", "block", "sleep", "status",
                         "ended"}]
  /\ cur \in [Threads -> 0 .. MaxTasks \cup {None}]
  /\ \A t \in Threads : /\ lock # t => ~(jobs[t] # <<>> /\ Head(jobs[t]).op = "status")
                        /\ jobs[t] # <<>> => pc[t] # "blocked"
  /\ queue \in Seq(Created)
  /\ nextWDs \in [Threads -> Seq(Created \cup {Main})]
  /\ Len(after) <= MaxTasks /\ DOMAIN tied = Created
  /\ done \subseteq released /\ released \subseteq Created
  /\ calls \in 0 .. MaxCalls
  /\ phase \in {"runs", "waits", "ends", "stops"}

Init ==
  /\ setup \in Setups
  /\ mustSleep = {} /\ isWaiting = {} /\ mustLeave = {} /\ mustStop = {}
  /\ member = Threads /\ expected = Threads /\ nextTeam = {}
  /\ lock = None /\ activeMask = Cpus
  /\ pc = [t \in Threads |-> "test"]
  /\ cur = [t \in Threads |-> IF t = 0 THEN Main ELSE None]
  /\ jobs = [t \in Threads |-> <<>>]
  /\ queue = <<>> /\ nextWDs = [t \in Threads |-> <<>>]
  /\ after = <<>> /\ tied = <<>> /\ released = {} /\ done = {}
  /\ calls = 0 /\ phase = "runs"

-----------------------------------------------------------------------------
(* The flags of a thread, and the status of a CPU.                         *)

Sleeping == mustSleep \ mustStop

ThreadsOf(c) == {t \in Threads : CpuOf[t] = c}

RunningThreads(c) == ThreadsOf(c) \ (mustSleep \cup mustStop)

\* The mask after updateCpuStatus.
UpdatedMask(c) == IF RunningThreads(c) # {} THEN activeMask \cup {c} ELSE activeMask \ {c}

\* Mutant of LastActiveCpu: no CPU is spared.
LastActiveCpuNever(c) == FALSE

\* The CPU is the only active one of the process.
LastActiveCpu(c) == activeMask = {c}

LastActiveThread(t) ==
  /\ LastActiveCpu(CpuOf[t])
  /\ Cardinality(RunningThreads(CpuOf[t])) <= IF t \in Sleeping THEN 0 ELSE 1

\* The threads X are put to sleep: all PEs are active, so none leaves the team.
Sleep(X) == /\ mustSleep' = mustSleep \cup X
            /\ UNCHANGED <<isWaiting, mustLeave, mustStop, teamVars>>

\* The threads X are woken up by a thread with a team.
TryWakeUp(X) ==
  LET orphans == X \ member IN
  /\ mustSleep' = mustSleep \ X
  /\ mustLeave' = mustLeave \ X
  /\ nextTeam' = (nextTeam \ orphans) \cup (orphans \cap isWaiting)
  /\ member' = member \cup (orphans \ isWaiting)
  /\ expected' = expected \cup X
  /\ UNCHANGED <<isWaiting, mustStop>>

\* Mutant of LeaveAndSleep: a thread that waits is to leave when it next goes to wait.
LeaveLater(x) == /\ mustSleep' = mustSleep \cup {x}
                 /\ mustLeave' = mustLeave \cup {x}
                 /\ expected' = expected \ {x}
                 /\ UNCHANGED <<isWaiting, mustStop, member, nextTeam>>

\* Thread x is told to leave the team and to sleep; one that waits leaves at once.
LeaveAndSleep(x) ==
  LET atOnce == x \in isWaiting /\ x \in member \cup nextTeam IN
  /\ mustSleep' = mustSleep \cup {x}
  /\ mustLeave' = IF atOnce THEN mustLeave \ {x} ELSE mustLeave \cup {x}
  /\ member' = IF atOnce THEN member \ {x} ELSE member
  /\ expected' = expected \ {x}
  /\ UNCHANGED <<isWaiting, mustStop, nextTeam>>

\* The end of thread t: it leaves the team it has.
Finish(t) ==
  /\ member' = member \ {t}
  /\ expected' = expected \ ({t} \cap member)
  /\ mustLeave' = mustLeave \ ({t} \cap member)

-----------------------------------------------------------------------------
(* The calls a thread is in.                                               *)

Doing(t, op) == jobs[t] # <<>> /\ Head(jobs[t]).op = op
Job(t) == Head(jobs[t])

\* The current call of t returns after doing js.
Then(t, js) == jobs' = [jobs EXCEPT ![t] = js \o Tail(@)]

Unblock(x) == [op |-> "unblock", to |-> x]
AddNextWD(w, x) == [op |-> "push", wd |-> w, to |-> x]
Submission(w) == [op |-> "submit", wd |-> w]
BatchSubmission(ws) == [op |-> "batch", wds |-> ws]

\* Scheduler::_submit: to the thread the task is tied to, or, when that is this thread
\* or none, into the ready queue after perhaps waking up a CPU.
Submit(t) ==
  /\ Doing(t, "submit")
  /\ LET w == Job(t).wd IN
     Then(t, IF tied[w] \notin {None, t} THEN <<AddNextWD(w, tied[w])>>
             ELSE <<[op |-> "acquire"],
                    IF tied[w] = t THEN AddNextWD(w, t) ELSE [op |-> "queue", wd |-> w]>>)
  /\ UNCHANGED <<flagVars, teamVars, maskVars, pc, cur, readyVars, taskVars, progVars>>

Enqueue(t) ==
  /\ Doing(t, "queue")
  /\ queue' = Append(queue, Job(t).wd)
  /\ Then(t, <<>>)
  /\ UNCHANGED <<flagVars, teamVars, maskVars, pc, cur, nextWDs, taskVars, progVars>>

\* The threads of a batch that BreadthFirst::queue unblocks: not the first one.
Participants(t, ws) ==
  Tail([i \in DOMAIN ws |-> IF tied[ws[i]] = None THEN t ELSE tied[ws[i]]])

\* Scheduler::_submit of several tasks and BreadthFirst::queue: all of them go into the
\* ready queue, the tied ones too.  It is fatal if a thread one is tied to has no team.
QueueBatch(t) ==
  LET ws == Job(t).wds IN
  /\ Doing(t, "batch")
  /\ \A i \in DOMAIN ws : tied[ws[i]] \in member \cup {None, t}
  /\ queue' = queue \o ws
  /\ Then(t, <<[op |-> "unblockAll", rest |-> Participants(t, ws)]>>)
  /\ UNCHANGED <<flagVars, teamVars, maskVars, pc, cur, nextWDs, taskVars, progVars>>

UnblockNext(t) ==
  /\ Doing(t, "unblockAll")
  /\ LET X == Job(t).rest IN
     Then(t, IF X = <<>> THEN <<>>
             ELSE <<Unblock(Head(X)), [op |-> "unblockAll", rest |-> Tail(X)]>>)
  /\ UNCHANGED <<flagVars, teamVars, maskVars, pc, cur, readyVars, taskVars, progVars>>

PushNextWD(t) ==
  /\ Doing(t, "push")
  /\ nextWDs' = [nextWDs EXCEPT ![Job(t).to] = Append(@, Job(t).wd)]
  /\ Then(t, <<Unblock(Job(t).to)>>)
  /\ UNCHANGED <<flagVars, teamVars, maskVars, pc, cur, queue, taskVars, progVars>>

\* unblockThread looks at the flags before it takes the lock.
UnblockTest(t) ==
  /\ Doing(t, "unblock")
  /\ Then(t, IF Job(t).to \in Sleeping THEN <<[op |-> "wake", to |-> Job(t).to]>> ELSE <<>>)
  /\ UNCHANGED <<flagVars, teamVars, maskVars, pc, cur, readyVars, taskVars, progVars>>

\* Mutant of UnblockWake: the lock is not taken.
UnblockWakeUnlocked(t) ==
  /\ Doing(t, "wake")
  /\ TryWakeUp({Job(t).to})
  /\ Then(t, <<[op |-> "status", cpu |-> CpuOf[Job(t).to]]>>)
  /\ UNCHANGED <<maskVars, pc, cur, readyVars, taskVars, progVars>>

UnblockWake(t) ==
  /\ Doing(t, "wake") /\ lock = None
  /\ lock' = t
  /\ TryWakeUp({Job(t).to})
  /\ Then(t, <<[op |-> "status", cpu |-> CpuOf[Job(t).to]]>>)
  /\ UNCHANGED <<activeMask, pc, cur, readyVars, taskVars, progVars>>

UnblockStatus(t) ==
  /\ Doing(t, "status")
  /\ activeMask' = UpdatedMask(Job(t).cpu)
  /\ lock' = None
  /\ Then(t, <<>>)
  /\ UNCHANGED <<flagVars, teamVars, pc, cur, readyVars, taskVars, progVars>>

\* A tied main WD keeps the CPU of the main thread in every mask.
WithMaster(M) == IF setup.untied THEN M ELSE M \cup {CpuOf[0]}

\* There is a CPU to acquire and another ready task for it.
IsGreedy(t) == /\ Cardinality(activeMask) < MaxThreads /\ activeMask # Cpus
               /\ t \in member /\ queue # <<>>

\* acquireOne, a "best effort": isGreedy and testDequeue hold and the lock is free at once,
\* or nothing happens, which may also be for testDequeue finding the queue's lock taken.
AcquireOne(t) ==
  /\ Doing(t, "acquire")
  /\ \/ /\ IsGreedy(t) /\ lock = None
        /\ lock' = t
        /\ activeMask' = WithMaster(activeMask \cup {Min(Cpus \ activeMask)})
        /\ Then(t, <<[op |-> "apply", cpus |-> Cpus, held |-> TRUE]>>)
     \/ Then(t, <<>>) /\ UNCHANGED maskVars
  /\ UNCHANGED <<flagVars, teamVars, pc, cur, readyVars, taskVars, progVars>>

\* applyCpuMask, one CPU at a time, each as the mask is by then.
ApplyMask(t) ==
  /\ Doing(t, "apply") /\ Job(t).cpus # {}
  /\ LET c == Min(Job(t).cpus) IN
     /\ IF c \in activeMask THEN TryWakeUp(ThreadsOf(c)) ELSE Sleep(ThreadsOf(c))
     /\ Then(t, <<[Job(t) EXCEPT !.cpus = @ \ {c}]>>)
  /\ UNCHANGED <<maskVars, pc, cur, readyVars, taskVars, progVars>>

MaskApplied(t) ==
  /\ Doing(t, "apply") /\ Job(t).cpus = {}
  /\ lock' = IF Job(t).held THEN None ELSE lock
  /\ Then(t, <<>>)
  /\ UNCHANGED <<flagVars, teamVars, activeMask, pc, cur, readyVars, taskVars, progVars>>

-----------------------------------------------------------------------------
(* The idle loop.                                                          *)

InLoop(t, where) == jobs[t] = <<>> /\ cur[t] = None /\ pc[t] = where
Goto(t, where) == pc' = [pc EXCEPT ![t] = where]

\* Thread t has w to execute, and goes for a CPU if there is more in the queue.
Execute(t, w) == /\ cur' = [cur EXCEPT ![t] = w]
                 /\ jobs' = [jobs EXCEPT ![t] = <<[op |-> "acquire"]>>]

HasNextWD(t) == nextWDs[t] # <<>>

\* Mutant of HasToWait: the WDs that only this thread may execute are forgotten.
HasToWaitAnyway(t) == t \in Sleeping

\* The test of the idle loop and, once the thread has its mutex, of wait().
HasToWait(t) == t \in Sleeping /\ ~HasNextWD(t)

SleepTest(t) ==
  /\ InLoop(t, "test")
  /\ Goto(t, IF HasToWait(t) /\ ~LastActiveThread(t) THEN "wait" ELSE "get")
  /\ UNCHANGED <<flagVars, teamVars, maskVars, cur, jobs, readyVars, taskVars, progVars>>

Wait(t) ==
  /\ InLoop(t, "wait")
  /\ IF HasToWait(t)
     THEN /\ Goto(t, "blocked")
          /\ isWaiting' = isWaiting \cup {t}
          /\ IF t \in mustLeave /\ t \in member \cup nextTeam
             THEN member' = member \ {t} /\ mustLeave' = mustLeave \ {t}
             ELSE UNCHANGED <<member, mustLeave>>
     ELSE Goto(t, "get") /\ UNCHANGED <<isWaiting, member, mustLeave>>
  /\ UNCHANGED <<mustSleep, mustStop, expected, nextTeam, maskVars, cur, jobs, readyVars,
                 taskVars, progVars>>

\* The condition variable has been signalled; without a team the thread joins its next one.
Resume(t) ==
  /\ InLoop(t, "blocked") /\ t \notin Sleeping
  /\ Goto(t, "get")
  /\ isWaiting' = isWaiting \ {t}
  /\ IF t \in nextTeam \ member
     THEN member' = member \cup {t} /\ expected' = expected \cup {t}
     ELSE UNCHANGED <<member, expected>>
  /\ UNCHANGED <<mustSleep, mustLeave, mustStop, nextTeam, maskVars, cur, jobs, readyVars,
                 taskVars, progVars>>

\* A thread that is stopped leaves its team and ends.
EndThread(t) ==
  /\ InLoop(t, "get") /\ t \in mustStop /\ ~HasNextWD(t)
  /\ Goto(t, "ended")
  /\ Finish(t)
  /\ UNCHANGED <<mustSleep, isWaiting, mustStop, nextTeam, maskVars, cur, jobs, readyVars,
                 taskVars, progVars>>

GetNextWD(t) ==
  /\ InLoop(t, "get") /\ HasNextWD(t)
  /\ Execute(t, Head(nextWDs[t]))
  /\ nextWDs' = [nextWDs EXCEPT ![t] = Tail(@)]
  /\ Goto(t, "test")
  /\ UNCHANGED <<flagVars, teamVars, maskVars, queue, taskVars, progVars>>

\* The places in the ready queue of what thread t may execute; a pop takes the first.
Allowed(t) == {i \in DOMAIN queue : tied[queue[i]] \in {None, t}}

Without(i) == [k \in 1 .. Len(queue) - 1 |-> IF k < i THEN queue[k] ELSE queue[k + 1]]

PopFront(t) == /\ Execute(t, queue[Min(Allowed(t))])
               /\ queue' = Without(Min(Allowed(t)))

GetReadyWD(t) ==
  /\ InLoop(t, "get") /\ ~HasNextWD(t) /\ t \notin mustStop
  /\ t \in member /\ Allowed(t) # {}
  /\ PopFront(t)
  /\ Goto(t, "test")
  /\ UNCHANGED <<flagVars, teamVars, maskVars, nextWDs, taskVars, progVars>>

GetNothing(t) ==
  /\ InLoop(t, "get") /\ ~HasNextWD(t) /\ t \notin mustStop
  /\ t \notin member \/ Allowed(t) = {}
  /\ Goto(t, "idle")
  /\ UNCHANGED <<flagVars, teamVars, maskVars, cur, jobs, readyVars, taskVars, progVars>>

\* Spins and yields are left.
SpinAgain(t) ==
  /\ InLoop(t, "idle")
  /\ Goto(t, "test")
  /\ UNCHANGED <<flagVars, teamVars, maskVars, cur, jobs, readyVars, taskVars, progVars>>

\* blockThread looks at the flags before it takes the lock; not a tied main thread.
BlockTest(t) ==
  /\ InLoop(t, "idle")
  /\ t \notin Sleeping /\ (t = 0 => setup.untied)
  /\ Goto(t, "block")
  /\ UNCHANGED <<flagVars, teamVars, maskVars, cur, jobs, readyVars, taskVars, progVars>>

\* Not the last active CPU of the process.
BlockThread(t) ==
  /\ InLoop(t, "block") /\ lock = None
  /\ \/ LastActiveCpu(CpuOf[t]) /\ Goto(t, "test") /\ UNCHANGED lock
     \/ ~LastActiveCpu(CpuOf[t]) /\ Goto(t, "sleep") /\ lock' = t
  /\ UNCHANGED <<flagVars, teamVars, activeMask, cur, jobs, readyVars, taskVars, progVars>>

BlockSleep(t) ==
  /\ InLoop(t, "sleep")
  /\ Sleep({t})
  /\ Goto(t, "status")
  /\ UNCHANGED <<maskVars, cur, jobs, readyVars, taskVars, progVars>>

BlockStatus(t) ==
  /\ InLoop(t, "status")
  /\ activeMask' = UpdatedMask(CpuOf[t])
  /\ lock' = None
  /\ Goto(t, "test")
  /\ UNCHANGED <<flagVars, teamVars, cur, jobs, readyVars, taskVars, progVars>>

-----------------------------------------------------------------------------
(* The end of a task.                                                      *)

Executes(t, w) == jobs[t] = <<>> /\ cur[t] = w

Successors(w) == {x \in Created : after[x] = w}

\* The successor that finishWork keeps for this thread, unless it is to sleep.
Kept(t, w) ==
  LET mine == {x \in Successors(w) : tied[x] \in {None, t}} IN
  IF t \in Sleeping \/ t \notin member \/ mine = {} THEN {} ELSE {Min(mine)}

\* The tasks S in the order of their creation.
InOrder(S) == {s \in [1 .. Cardinality(S) -> S] :
                 \A i, j \in 1 .. Cardinality(S) : i < j => s[i] < s[j]}

\* How finished() releases the successors ws: several of them as a batch.
Releases(ws) == IF Len(ws) > 1 THEN <<BatchSubmission(ws)>>
                ELSE [i \in DOMAIN ws |-> Submission(ws[i])]

FinishWork(t) ==
  LET w == cur[t]
      kept == Kept(t, w)
      push == IF kept = {} THEN <<>> ELSE <<AddNextWD(Min(kept), t)>>
  IN /\ Executes(t, w) /\ w \in Created \ released
     /\ released' = released \cup {w}
     /\ \E others \in InOrder(Successors(w) \ kept) :
          jobs' = [jobs EXCEPT ![t] = push \o Releases(others) \o <<[op |-> "exit", wd |-> w]>>]
     /\ UNCHANGED <<flagVars, teamVars, maskVars, pc, cur, readyVars, after, tied, done,
                    progVars>>

\* exitWork: the last child wakes up the main WD, which continues on this thread
\* unless it is tied.
ExitWork(t) ==
  LET last == phase = "waits" /\ Created \subseteq done \cup {Job(t).wd} IN
  /\ Doing(t, "exit")
  /\ done' = done \cup {Job(t).wd}
  /\ phase' = IF last THEN "runs" ELSE phase
  /\ Then(t, IF last THEN <<AddNextWD(Main, IF setup.untied THEN t ELSE 0)>> ELSE <<>>)
  /\ UNCHANGED <<flagVars, teamVars, maskVars, pc, cur, readyVars, after, tied, released,
                 setup, calls>>

\* Scheduler::exit: the next WD of the thread, or the idle loop.
LeaveTask(t) ==
  /\ Executes(t, cur[t]) /\ cur[t] \in done
  /\ cur' = [cur EXCEPT ![t] = IF HasNextWD(t) THEN Head(nextWDs[t]) ELSE None]
  /\ nextWDs' = [nextWDs EXCEPT ![t] = IF HasNextWD(t) THEN Tail(@) ELSE @]
  /\ Goto(t, "test")
  /\ UNCHANGED <<flagVars, teamVars, maskVars, jobs, queue, taskVars, progVars>>

-----------------------------------------------------------------------------
(* The main WD.                                                            *)

MainRuns(t) == Executes(t, Main) /\ phase = "runs"

CreateTask(t) ==
  /\ MainRuns(t) /\ Len(after) < setup.tasks
  /\ \E p \in (Created \ released) \cup {None}, x \in setup.ties \cup {None} :
        /\ p = None \/ setup.forks \/ Successors(p) = {}
        /\ after' = Append(after, p)
        /\ tied' = Append(tied, x)
        /\ jobs' = [jobs EXCEPT ![t] = IF p = None THEN <<Submission(Len(after) + 1)>> ELSE <<>>]
  /\ UNCHANGED <<flagVars, teamVars, maskVars, pc, cur, readyVars, released, done, progVars>>

\* nanos_omp_set_mask and the like: the lock of ThreadManager is not taken.
SetCpuActiveMask(t) ==
  /\ MainRuns(t) /\ calls < MaxCalls
  /\ \E M \in setup.masks : activeMask' = WithMaster(M)
  /\ calls' = calls + 1
  /\ jobs' = [jobs EXCEPT ![t] = <<[op |-> "apply", cpus |-> Cpus, held |-> FALSE]>>]
  /\ UNCHANGED <<flagVars, teamVars, lock, pc, cur, readyVars, taskVars, setup, phase>>

\* omp_set_num_threads.
SetNumThreads(t) ==
  /\ MainRuns(t) /\ calls < MaxCalls
  /\ \E n \in setup.sizes :
        jobs' = [jobs EXCEPT ![t] = <<[op |-> "stable"], [op |-> "resize", n |-> n, i |-> 0]>>]
  /\ calls' = calls + 1
  /\ UNCHANGED <<flagVars, teamVars, maskVars, pc, cur, readyVars, taskVars, setup, phase>>

IsStable == expected = member

AwaitStable(t) ==
  /\ Doing(t, "stable") /\ t \in expected /\ IsStable
  /\ Then(t, <<>>)
  /\ UNCHANGED <<flagVars, teamVars, maskVars, pc, cur, readyVars, taskVars, progVars>>

\* updateActiveWorkers, one worker at a time.
UpdateWorker(t) ==
  /\ Doing(t, "resize")
  /\ LET i == Job(t).i IN
     /\ IF i < Job(t).n THEN TryWakeUp({i}) ELSE LeaveAndSleep(i)
     /\ Then(t, IF i + 1 \in Threads THEN <<[Job(t) EXCEPT !.i = i + 1]>> ELSE <<>>)
  /\ UNCHANGED <<maskVars, pc, cur, readyVars, taskVars, progVars>>

\* waitOnCondition with the condition false: the main WD blocks, and the thread takes its
\* next WD, a ready one unless it is to sleep, or goes to its idle loop.
TaskWait(t) ==
  LET fetches == t \notin Sleeping /\ Allowed(t) # {} IN
  /\ MainRuns(t) /\ ~(Created \subseteq done)
  /\ phase' = "waits"
  /\ Goto(t, "test")
  /\ CASE HasNextWD(t) -> /\ Execute(t, Head(nextWDs[t]))
                          /\ nextWDs' = [nextWDs EXCEPT ![t] = Tail(@)]
                          /\ UNCHANGED queue
       [] ~HasNextWD(t) /\ fetches -> PopFront(t) /\ UNCHANGED nextWDs
       [] OTHER -> cur' = [cur EXCEPT ![t] = None] /\ UNCHANGED <<jobs, readyVars>>
  /\ UNCHANGED <<flagVars, teamVars, maskVars, taskVars, setup, calls>>

\* System::finish: the main thread is woken up and the main WD moves to it.
Shutdown(t) ==
  /\ MainRuns(t) /\ Created \subseteq done
  /\ TryWakeUp({0})
  /\ phase' = "ends"
  /\ IF t = 0 THEN UNCHANGED <<cur, jobs, pc>>
     ELSE /\ cur' = [cur EXCEPT ![t] = None]
          /\ jobs' = [jobs EXCEPT ![t] = <<AddNextWD(Main, 0)>>]
          /\ Goto(t, "test")
  /\ UNCHANGED <<maskVars, readyVars, taskVars, setup, calls>>

StopRest(C) == [op |-> "stop", cpus |-> C]

OnMainThread ==
  /\ Executes(0, Main) /\ phase = "ends"
  /\ phase' = "stops"
  /\ jobs' = [jobs EXCEPT ![0] = <<Unblock(0), [op |-> "stable"], StopRest(Cpus)>>]
  /\ UNCHANGED <<flagVars, teamVars, maskVars, pc, cur, readyVars, taskVars, setup, calls>>

\* stopAllThreads of one PE: stop all its threads, then join them.
StopThreads ==
  /\ Doing(0, "stop") /\ Job(0).cpus # {}
  /\ LET c == Min(Job(0).cpus)
         X == ThreadsOf(c) \ {0} IN
     /\ mustStop' = mustStop \cup X
     /\ mustSleep' = mustSleep \ (X \cap isWaiting)
     /\ Then(0, <<[op |-> "join", threads |-> X], StopRest(Job(0).cpus \ {c})>>)
  /\ UNCHANGED <<isWaiting, mustLeave, teamVars, maskVars, pc, cur, readyVars, taskVars,
                 progVars>>

Join ==
  /\ Doing(0, "join")
  /\ \A x \in Job(0).threads : pc[x] = "ended"
  /\ Then(0, <<>>)
  /\ UNCHANGED <<flagVars, teamVars, maskVars, pc, cur, readyVars, taskVars, progVars>>

\* The main thread leaves the team, which is deleted.
EndMain ==
  /\ Doing(0, "stop") /\ Job(0).cpus = {}
  /\ Goto(0, "ended")
  /\ cur' = [cur EXCEPT ![0] = None]
  /\ Then(0, <<>>)
  /\ Finish(0)
  /\ UNCHANGED <<mustSleep, isWaiting, mustStop, nextTeam, maskVars, readyVars, taskVars,
                 progVars>>

-----------------------------------------------------------------------------
Calls(t) == \/ Submit(t) \/ Enqueue(t) \/ PushNextWD(t) \/ QueueBatch(t) \/ UnblockNext(t)
            \/ UnblockTest(t) \/ UnblockWake(t) \/ UnblockStatus(t)
            \/ AcquireOne(t) \/ ApplyMask(t) \/ MaskApplied(t)

IdleLoop(t) == \/ SleepTest(t) \/ Wait(t) \/ Resume(t) \/ EndThread(t)
               \/ GetNextWD(t) \/ GetReadyWD(t) \/ GetNothing(t) \/ SpinAgain(t)
               \/ BlockTest(t) \/ BlockThread(t) \/ BlockSleep(t) \/ BlockStatus(t)

TaskEnd(t) == FinishWork(t) \/ ExitWork(t) \/ LeaveTask(t)

MainWD(t) == \/ CreateTask(t) \/ SetCpuActiveMask(t) \/ SetNumThreads(t)
             \/ AwaitStable(t) \/ UpdateWorker(t) \/ TaskWait(t) \/ Shutdown(t)

Ending == OnMainThread \/ StopThreads \/ Join \/ EndMain

Step(t) == \/ Calls(t) \/ IdleLoop(t) \/ TaskEnd(t) \/ MainWD(t)
           \/ t = 0 /\ Ending

AllEnded == \A t \in Threads : pc[t] = "ended"

Next == (\E t \in Threads : Step(t)) \/ (AllEnded /\ UNCHANGED vars)

Spec == Init /\ [][Next]_vars /\ \A t \in Threads : WF_vars(Step(t))

-----------------------------------------------------------------------------
Asleep(t) == t \in isWaiting /\ t \in Sleeping

\* SomeoneAwake: the threads are never all asleep, with nobody left to wake one up.
\* blockThread spares the last active CPU, idleLoop the last active thread.
SomeoneAwake == \E t \in Threads : ~Asleep(t)

\* There is work that only thread t can execute: WDs of its own, or one that is tied to it
\* in the ready queue.
HasOwnWork(t) == HasNextWD(t) \/ \E i \in DOMAIN queue : tied[queue[i]] = t

\* A call of thread u is about to wake up t.
AboutToWake(u, t) ==
  \E k \in DOMAIN jobs[u] :
    LET j == jobs[u][k] IN
    \/ j.op \in {"unblock", "wake"} /\ j.to = t
    \/ j.op = "unblockAll" /\ \E i \in DOMAIN j.rest : j.rest[i] = t

\* NoWDAsleep: a thread does not sleep on work that only it can execute, unless somebody is
\* about to wake it up.  addNextWD tests without a lock whether the thread must sleep,
\* wait() whether there is a WD; of a batch, "all participant threads" are to be unblocked.
NoWDAsleep ==
  \A t \in Threads : Asleep(t) /\ HasOwnWork(t) => \E u \in Threads : AboutToWake(u, t)

\* ProgramEnds: every task is executed, every stable team awaited, and every thread joined.
ProgramEnds == <>AllEnded
=============================================================================
