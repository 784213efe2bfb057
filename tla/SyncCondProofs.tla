---------------------------- MODULE SyncCondProofs --------------------------
(***************************************************************************)
(* A wait for the children returns only when no child is inside exitWork,  *)
(* and only a blocked parent is ever woken, for every set of children.     *)
(*                                                                         *)
(* _components counts the children that have not counted down, _refcount   *)
(* those between reference() and unreference().  A child is referenced     *)
(* before it counts down, so once _components is zero every child that     *)
(* still runs exitWork is in _refcount.                                    *)
(***************************************************************************)
EXTENDS SyncCond, FiniteSetTheorems, TLAPS

\* The children each counter stands for.
Alive == {c \in Children : child[c] \in {"runs", "referenced"}}
Inside == {c \in Children :
            child[c] \in {"referenced", "signals", "wakes", "unlocks", "leaves"}}

CountersOK == components = Cardinality(Alive) /\ refcount = Cardinality(Inside)

\* Past the test of the condition no child is alive.
PastTest == pc \in {"signalers", "deleted"} => components = 0

\* A queued parent is blocked and no longer the waiter.
QueuedOK == queued => pc = "blocked" /\ waiter = Nobody

\* The inductive invariant.
IInv == TypeOK /\ CountersOK /\ PastTest /\ QueuedOK /\ WaiterBlocked

\* Sets of children are finite.
LEMMA Sizes ==
  \A S \in SUBSET Children :
    /\ IsFiniteSet(S) /\ Cardinality(S) \in Nat
    /\ Cardinality(S) = 0 <=> S = {}
    /\ \A c \in Children : c \notin S => Cardinality(S \cup {c}) = Cardinality(S) + 1
    /\ \A c \in S : Cardinality(S \ {c}) = Cardinality(S) - 1
  BY ChildrenAssumption, FS_Subset, FS_CardinalityType, FS_EmptySet, FS_AddElement,
     FS_RemoveElement

\* The initial state satisfies the invariant.
LEMMA InitIInv == Init => IInv
<1> SUFFICES ASSUME Init PROVE IInv
  OBVIOUS
<1>1. Alive = {} /\ Inside = {}
  BY DEF Init, Alive, Inside
<1>2. CountersOK
  BY <1>1, FS_EmptySet DEF Init, CountersOK
<1>3. TypeOK
  BY DEF Init, TypeOK, ParentPCs, ChildPCs
<1>4. PastTest /\ QueuedOK /\ WaiterBlocked
  BY DEF Init, PastTest, QueuedOK, WaiterBlocked, Nobody, Parent
<1> QED
  BY <1>2, <1>3, <1>4 DEF IInv

\* The parent's own steps leave the children alone.
LEMMA ParentIInv == ASSUME IInv, WaitCompletion \/ Done \/ Waiting PROVE IInv'
<1> USE DEF WaitCompletion, Done, DoneMustWait, Waiting, Check, LockCondition, Switch, KeepSpinning, Resume,
     WaitReturns, sync
<1>1. UNCHANGED <<components, refcount, child>>
  OBVIOUS
<1>2. CountersOK'
  BY <1>1 DEF IInv, CountersOK, Alive, Inside
<1>3. TypeOK'
  BY DEF IInv, TypeOK, ParentPCs
<1>4. PastTest'
  BY DEF IInv, PastTest, Condition
<1>5. QueuedOK' /\ WaiterBlocked'
  <2>1. CASE Switch
    BY <2>1 DEF IInv, TypeOK, QueuedOK, WaiterBlocked
  <2>2. CASE Resume
    BY <2>2 DEF IInv, TypeOK, QueuedOK, WaiterBlocked, Nobody, Parent
  <2>3. CASE WaitCompletion \/ Done \/ Check \/ LockCondition \/ KeepSpinning
    <3>1. pc # "blocked" /\ UNCHANGED <<waiter, queued>>
      BY <2>3
    <3> HIDE DEF WaitCompletion, Done, Check, LockCondition, KeepSpinning
    <3> QED
      BY <3>1 DEF IInv, QueuedOK, WaiterBlocked
  <2>4. CASE WaitReturns
    BY <2>4 DEF IInv, QueuedOK, WaiterBlocked
  <2> QED
    BY <2>1, <2>2, <2>3, <2>4
<1> QED
  BY <1>2, <1>3, <1>4, <1>5 DEF IInv

\* A new child is counted.
LEMMA AddWorkIInv == ASSUME IInv, NEW c \in Children, AddWork(c) PROVE IInv'
<1> USE DEF AddWork, ChildGoto, sync
<1>1. Alive' = Alive \cup {c} /\ c \notin Alive /\ Inside' = Inside
  BY DEF IInv, TypeOK, Alive, Inside
<1>2. Alive \in SUBSET Children
  BY DEF Alive
<1>3. CountersOK'
  BY <1>1, <1>2, Sizes DEF IInv, CountersOK
<1>4. TypeOK'
  BY DEF IInv, TypeOK, ChildPCs
<1>5. PastTest' /\ QueuedOK' /\ WaiterBlocked'
  BY DEF IInv, PastTest, QueuedOK, WaiterBlocked
<1> QED
  BY <1>3, <1>4, <1>5 DEF IInv

\* Every step of exitWork moves a child between the counters as it changes them.
LEMMA ExitWorkIInv == ASSUME IInv, NEW c \in Children, ExitWork(c) PROVE IInv'
<1> USE DEF ChildGoto, sync
<1>0. Alive \in SUBSET Children /\ Inside \in SUBSET Children
  BY DEF Alive, Inside
<1>1. CASE Reference(c)
  <2>1. Inside' = Inside \cup {c} /\ c \notin Inside /\ Alive' = Alive
    BY <1>1 DEF Reference, IInv, TypeOK, Alive, Inside
  <2>2. CountersOK'
    BY <1>0, <1>1, <2>1, Sizes DEF Reference, Referenced, IInv, CountersOK
  <2>3. TypeOK'
    BY <1>1 DEF Reference, Referenced, IInv, TypeOK, ChildPCs
  <2> QED
    BY <1>1, <2>2, <2>3 DEF Reference, IInv, PastTest, QueuedOK, WaiterBlocked
<1>2. CASE CountDown(c)
  <2>1. Alive' = Alive \ {c} /\ c \in Alive /\ Inside' = Inside
    BY <1>2 DEF CountDown, IInv, TypeOK, Alive, Inside
  <2>2. CountersOK'
    BY <1>0, <1>2, <2>1, Sizes DEF CountDown, IInv, CountersOK
  <2>3. Cardinality(Alive') \in Nat /\ components # 0
    BY <1>0, <2>1, Sizes DEF IInv, CountersOK
  <2>4. TypeOK'
    BY <1>2, <2>2, <2>3 DEF CountDown, CountersOK, IInv, TypeOK, ChildPCs
  <2> QED
    BY <1>2, <2>2, <2>3, <2>4 DEF CountDown, IInv, PastTest, QueuedOK, WaiterBlocked
<1>3. CASE SignalLock(c) \/ SignalUnlock(c)
  <2>1. Alive' = Alive /\ Inside' = Inside
    BY <1>3 DEF SignalLock, SignalUnlock, IInv, TypeOK, Alive, Inside
  <2>2. CountersOK'
    BY <1>3, <2>1 DEF SignalLock, SignalUnlock, IInv, CountersOK
  <2>3. TypeOK'
    BY <1>3 DEF SignalLock, SignalUnlock, IInv, TypeOK, ChildPCs
  <2> QED
    BY <1>3, <2>2, <2>3 DEF SignalLock, SignalUnlock, IInv, PastTest, QueuedOK, WaiterBlocked
<1>4. CASE WakeUp(c)
  <2>1. Alive' = Alive /\ Inside' = Inside
    BY <1>4 DEF WakeUp, IInv, TypeOK, Alive, Inside
  <2>2. CountersOK'
    BY <1>4, <2>1 DEF WakeUp, IInv, CountersOK
  <2>3. TypeOK'
    BY <1>4 DEF WakeUp, RemoveWaiter, IInv, TypeOK, ChildPCs
  <2>4. PastTest'
    BY <1>4 DEF WakeUp, IInv, PastTest
  <2>5. QueuedOK' /\ WaiterBlocked'
    BY <1>4 DEF WakeUp, RemoveWaiter, IInv, TypeOK, QueuedOK, WaiterBlocked, Nobody, Parent
  <2> QED
    BY <2>2, <2>3, <2>4, <2>5 DEF IInv
<1>5. CASE Unreference(c)
  <2>1. Inside' = Inside \ {c} /\ c \in Inside /\ Alive' = Alive
    BY <1>5 DEF Unreference, IInv, TypeOK, Alive, Inside
  <2>2. CountersOK'
    BY <1>0, <1>5, <2>1, Sizes DEF Unreference, IInv, CountersOK
  <2>3. Inside' \in SUBSET Children
    BY DEF Inside
  <2>4. refcount' \in Nat
    BY <2>2, <2>3, Sizes DEF CountersOK
  <2>5. TypeOK'
    BY <1>5, <2>4 DEF Unreference, IInv, TypeOK, ChildPCs
  <2> QED
    BY <1>5, <2>2, <2>5 DEF Unreference, IInv, PastTest, QueuedOK, WaiterBlocked
<1> QED
  BY <1>1, <1>2, <1>3, <1>4, <1>5 DEF ExitWork

\* Every step preserves the invariant.
LEMMA NextIInv == ASSUME IInv, [Next]_vars PROVE IInv'
<1>1. CASE UNCHANGED vars
  BY <1>1 DEF vars, IInv, TypeOK, CountersOK, Alive, Inside, PastTest, QueuedOK, WaiterBlocked
<1> QED
  BY <1>1, ParentIInv, AddWorkIInv, ExitWorkIInv DEF Next, Terminated

\* The invariant holds in every reachable state.
THEOREM Invariance == Spec => []IInv
<1>1. IInv /\ [Next]_vars => IInv'
  BY NextIInv
<1> QED
  BY <1>1, InitIInv, PTL DEF Spec

\* Types, and the counters never go below zero, for every set of children.
THEOREM TypeCorrect == Spec => []TypeOK
<1>1. IInv => TypeOK
  BY DEF IInv
<1> QED
  BY <1>1, Invariance, PTL

\* A signal only ever finds a blocked parent that is in no queue.
THEOREM WaiterIsBlocked == Spec => []WaiterBlocked
<1>1. IInv => WaiterBlocked
  BY DEF IInv
<1> QED
  BY <1>1, Invariance, PTL

\* waitConditionAndSignalers returns only when no child can touch the condition again.
THEOREM ReturnIsSafe == Spec => NoLateSignal
<1>1. IInv /\ Next =>
        ((pc = "signalers" /\ pc' # pc) => \A c \in Children : child[c] \in {"none", "gone"})
  <2> SUFFICES ASSUME IInv, Next, pc = "signalers", pc' # pc
               PROVE  \A c \in Children : child[c] \in {"none", "gone"}
    OBVIOUS
  <2>1. refcount = 0 /\ components = 0
    BY DEF IInv, PastTest, Next, Terminated, vars, AddWork, ExitWork, Reference, CountDown,
       SignalLock, WakeUp, SignalUnlock, Unreference, WaitCompletion, Done, Waiting, Check,
       LockCondition, Switch, KeepSpinning, Resume, WaitReturns, SignalersGone
  <2>2. Alive \in SUBSET Children /\ Inside \in SUBSET Children
    BY DEF Alive, Inside
  <2>3. Alive = {} /\ Inside = {}
    BY <2>1, <2>2, Sizes DEF IInv, CountersOK
  <2> QED
    BY <2>3 DEF Alive, Inside, IInv, TypeOK, ChildPCs
<1>2. IInv /\ [Next]_vars =>
        [(pc = "signalers" /\ pc' # pc) => \A c \in Children : child[c] \in {"none", "gone"}]_vars
  BY <1>1
<1> QED
  BY <1>2, Invariance, PTL DEF Spec, NoLateSignal
=============================================================================
