------------------------------ MODULE SyncCond ------------------------------
(***************************************************************************)
(* How a task waits for its children: Scheduler::waitOnCondition on the    *)
(* SingleSyncCond of _components, against the children's exitWork          *)
(* (core/synchronizedcondition.hpp, core/schedule.cpp,                     *)
(* core/workdescriptor.cpp).                                               *)
(*                                                                         *)
(* The parent tests the condition, spins, and at last blocks: it switches  *)
(* to other work with the condition's lock held, and the switch helper     *)
(* makes it the waiter and unlocks.  A child that takes _components to     *)
(* zero signals; between this and the wait the parent may have created     *)
(* another child.  A wait also waits for the children inside exitWork.     *)
(* done(), after which the parent is destroyed, waits only if it still     *)
(* counts a child: the last one may be inside exitWork then.               *)
(***************************************************************************)
EXTENDS Integers, FiniteSets

CONSTANTS
  Children,         \* the tasks the parent creates
  UserLevelThreads  \* the values supportsUserLevelThreads() has on the team's threads

ASSUME ChildrenAssumption == IsFiniteSet(Children)
ASSUME ThreadsAssumption == UserLevelThreads \subseteq BOOLEAN

VARIABLES
  components, refcount,  \* _components, and _refcount of the condition
  lock,                  \* who holds the condition's lock
  waiter,                \* _waiter
  ready,                 \* isReady() of the parent
  queued,                \* the parent is some thread's next WD
  done,                  \* setDone(): the parent is in done()
  pc,                    \* where the parent is
  child                  \* where each child is in exitWork

vars == <<components, refcount, lock, waiter, ready, queued, done, pc, child>>
sync == <<waiter, ready, queued, done>>

Nobody == "nobody"
Parent == "parent"

ParentPCs == {"creates", "spins", "locks", "blocks", "unlocks", "blocked", "signalers",
              "deleted"}
ChildPCs == {"none", "runs", "referenced", "signals", "wakes", "unlocks", "leaves", "gone"}

Init ==
  /\ components = 0 /\ refcount = 0
  /\ lock = Nobody /\ waiter = Nobody
  /\ ready = TRUE /\ queued = FALSE /\ done = FALSE
  /\ pc = "creates"
  /\ child = [c \in Children |-> "none"]

ChildGoto(c, l) == child' = [child EXCEPT ![c] = l]

-----------------------------------------------------------------------------
(* The parent *)

Condition == components = 0

\* addWork, and the child is submitted.
AddWork(c) ==
  /\ pc = "creates" /\ child[c] = "none"
  /\ components' = components + 1
  /\ ChildGoto(c, "runs")
  /\ UNCHANGED <<refcount, lock, sync, pc>>

\* A taskwait: the parent enters waitCompletion.
WaitCompletion ==
  /\ pc = "creates"
  /\ pc' = "spins"
  /\ UNCHANGED <<components, refcount, lock, sync, child>>

DoneMustWait == components # 0

\* The body has returned: done() waits for the children it still counts, "just to keep
\* structures", and the parent is destroyed.
Done ==
  /\ pc = "creates"
  /\ done' = TRUE
  /\ pc' = IF DoneMustWait THEN "spins" ELSE "deleted"
  /\ UNCHANGED <<components, refcount, lock, waiter, ready, queued, child>>

\* check() outside the lock; after some checks that fail, the lock is taken.
Check ==
  /\ pc = "spins"
  /\ pc' = IF Condition THEN "signalers" ELSE "locks"
  /\ ready' = IF Condition THEN TRUE ELSE ready
  /\ UNCHANGED <<components, refcount, lock, waiter, queued, done, child>>

\* Mutant of MustBlock: the condition is not tested again under the lock.
MustBlockUnchecked == TRUE

MustBlock == ~ Condition

\* lock() and check() again.
LockCondition ==
  /\ pc = "locks" /\ lock = Nobody
  /\ lock' = Parent
  /\ pc' = IF MustBlock THEN "blocks" ELSE "unlocks"
  /\ UNCHANGED <<components, refcount, sync, child>>

\* A thread with user-level threads always has a task to switch to, its idle task if no
\* other: switchHelper, on the other stack, makes the parent the waiter and unlocks.
Switch ==
  /\ pc = "blocks" /\ TRUE \in UserLevelThreads
  /\ ready' = FALSE
  /\ waiter' = Parent
  /\ lock' = Nobody
  /\ pc' = "blocked"
  /\ UNCHANGED <<components, refcount, queued, done, child>>

\* The condition came true, or the thread has no user-level threads: inlineWork unlocks
\* and runs another task on this stack, or there is none, and the loop goes on.
KeepSpinning ==
  /\ pc = "unlocks" \/ (pc = "blocks" /\ FALSE \in UserLevelThreads)
  /\ lock' = Nobody
  /\ pc' = "spins"
  /\ UNCHANGED <<components, refcount, sync, child>>

\* A thread takes the woken parent as its next WD and the wait loop goes on.
Resume ==
  /\ pc = "blocked" /\ queued
  /\ queued' = FALSE
  /\ pc' = "spins"
  /\ UNCHANGED <<components, refcount, lock, waiter, ready, done, child>>

\* Mutant of SignalersGone: wait() instead of waitConditionAndSignalers().
SignalersIgnored == TRUE

SignalersGone == refcount = 0

\* The wait is over: the body of the parent goes on, or done() does.
WaitReturns ==
  /\ pc = "signalers" /\ SignalersGone
  /\ pc' = IF done THEN "deleted" ELSE "creates"
  /\ UNCHANGED <<components, refcount, lock, sync, child>>

-----------------------------------------------------------------------------
(* exitWork of the parent, called by a child that is done *)

\* Mutant of Referenced: reference() is not called.
NotReferenced == refcount

Referenced == refcount + 1

Reference(c) ==
  /\ child[c] = "runs"
  /\ refcount' = Referenced
  /\ ChildGoto(c, "referenced")
  /\ UNCHANGED <<components, lock, sync, pc>>

\* --_components; the child that sees zero signals.
CountDown(c) ==
  /\ child[c] = "referenced"
  /\ components' = components - 1
  /\ ChildGoto(c, IF components = 1 THEN "signals" ELSE "leaves")
  /\ UNCHANGED <<refcount, lock, sync, pc>>

SignalLock(c) ==
  /\ child[c] = "signals" /\ lock = Nobody
  /\ lock' = c
  /\ ChildGoto(c, "wakes")
  /\ UNCHANGED <<components, refcount, sync, pc>>

\* Mutant of RemoveWaiter: getAndRemoveWaiter leaves the waiter.
LeaveWaiter == UNCHANGED waiter

RemoveWaiter == waiter' = Nobody

\* getAndRemoveWaiter and wakeUp: the parent is set ready and queued.
WakeUp(c) ==
  /\ child[c] = "wakes"
  /\ IF waiter = Nobody
       THEN UNCHANGED sync
       ELSE /\ RemoveWaiter
            /\ ready' = TRUE
            /\ queued' = IF ready THEN queued ELSE TRUE
            /\ UNCHANGED done
  /\ ChildGoto(c, "unlocks")
  /\ UNCHANGED <<components, refcount, lock, pc>>

SignalUnlock(c) ==
  /\ child[c] = "unlocks"
  /\ lock' = Nobody
  /\ ChildGoto(c, "leaves")
  /\ UNCHANGED <<components, refcount, sync, pc>>

Unreference(c) ==
  /\ child[c] = "leaves"
  /\ refcount' = refcount - 1
  /\ ChildGoto(c, "gone")
  /\ UNCHANGED <<components, lock, sync, pc>>

ExitWork(c) ==
  \/ Reference(c) \/ CountDown(c) \/ SignalLock(c) \/ WakeUp(c) \/ SignalUnlock(c)
  \/ Unreference(c)

Waiting ==
  \/ Check \/ LockCondition \/ Switch \/ KeepSpinning \/ Resume
  \/ WaitReturns

Terminated == pc = "deleted" /\ UNCHANGED vars

Next ==
  \/ \E c \in Children : AddWork(c) \/ ExitWork(c)
  \/ WaitCompletion \/ Done \/ Waiting
  \/ Terminated

Spec == Init /\ [][Next]_vars

\* The threads that run the parent and the children keep running; the spin lock is not
\* fair, and nothing more is assumed of it.
FairSpec == Spec /\ WF_vars(Waiting) /\ \A c \in Children : WF_vars(ExitWork(c))
-----------------------------------------------------------------------------

\* Types; the counters never go below zero.
TypeOK ==
  /\ components \in Nat /\ refcount \in Nat
  /\ lock \in Children \cup {Nobody, Parent}
  /\ waiter \in {Nobody, Parent}
  /\ ready \in BOOLEAN /\ queued \in BOOLEAN /\ done \in BOOLEAN
  /\ pc \in ParentPCs /\ child \in [Children -> ChildPCs]

\* NoLateSignal: "ensures that there condition will not be signaled after the wait":
\* when waitConditionAndSignalers returns no child is inside exitWork.
NoLateSignal ==
  [][(pc = "signalers" /\ pc' # pc) => \A c \in Children : child[c] \in {"none", "gone"}]_vars

\* StructuresKept: done() keeps the structures of the parent for its children: once the
\* parent is destroyed no child is inside its exitWork, where it would signal a condition
\* that is gone.
StructuresKept == pc = "deleted" => \A c \in Children : child[c] \in {"none", "gone"}

\* WaiterBlocked: the waiter slot holds only a parent that is blocked and in no queue: a signal, even
\* one for a zero that is out of date, never queues a task that is running or queued.
WaiterBlocked == waiter = Parent => pc = "blocked" /\ ~ queued /\ ~ ready

\* WaitReturnsAtLast: every wait returns: no wake-up is lost between the test of the condition and the
\* registration of the waiter, whatever zeros _components passes through before.
WaitReturnsAtLast == (pc = "spins") ~> (pc \in {"creates", "deleted"})
=============================================================================
