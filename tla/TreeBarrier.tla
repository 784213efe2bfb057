----------------------------- MODULE TreeBarrier ----------------------------
(***************************************************************************)
(* The tree barrier (plugins/barr/tree_barrier.cpp): arrivals go up a      *)
(* binary tree, releases come down.  Every node has a plain int for its    *)
(* parent and for each child, written with the number of the phase, which  *)
(* runs through 1, 2, 0.  "\warning this could be bogus", says the code    *)
(* of these three phases.  The ints are sequentially consistent here, as   *)
(* memoryFence() makes them, and the wait of a SingleSyncCond returns once *)
(* the int has the value of the phase.                                     *)
(***************************************************************************)
EXTENDS Integers

CONSTANTS
  NumParticipants,
  Episodes         \* bounds the calls of each participant

ASSUME ParticipantsAssumption == NumParticipants \in Nat \ {0}
ASSUME EpisodesAssumption == Episodes \in Nat

Participants == 0 .. NumParticipants - 1

VARIABLES
  left, right, parent,   \* the ints of _sems[i], written by the neighbours of i
  phase,                 \* _sems[i].phase
  pc,                    \* where a participant is in barrier()
  arrivals, returns      \* history: calls and returns of each participant

sems == <<left, right, parent>>
vars == <<sems, phase, pc, arrivals, returns>>

PCs == {"out", "left", "right", "up", "parent", "downLeft", "downRight", "advance"}

Init ==
  /\ left = [i \in Participants |-> 0] /\ right = [i \in Participants |-> 0]
  /\ parent = [i \in Participants |-> 0]
  /\ phase = [i \in Participants |-> 1]
  /\ pc = [i \in Participants |-> "out"]
  /\ arrivals = [i \in Participants |-> 0] /\ returns = [i \in Participants |-> 0]

LeftChild(i) == 2 * i + 1
RightChild(i) == 2 * i + 2
ParentOf(i) == (i - 1) \div 2

\* Mutant of IsNode: the node with the highest number is left out.
IsNodeButLast(i) == i < NumParticipants - 1

IsNode(i) == i < NumParticipants

Goto(i, l) == pc' = [pc EXCEPT ![i] = l]

\* The call: the conditions are set to the current phase.
Enter(i) ==
  /\ pc[i] = "out" /\ arrivals[i] < Episodes
  /\ arrivals' = [arrivals EXCEPT ![i] = @ + 1]
  /\ Goto(i, "left")
  /\ UNCHANGED <<sems, phase, returns>>

WaitLeft(i) ==
  /\ pc[i] = "left"
  /\ IsNode(LeftChild(i)) => left[i] = phase[i]
  /\ Goto(i, "right")
  /\ UNCHANGED <<sems, phase, arrivals, returns>>

WaitRight(i) ==
  /\ pc[i] = "right"
  /\ IsNode(RightChild(i)) => right[i] = phase[i]
  /\ Goto(i, IF i = 0 THEN "downLeft" ELSE "up")
  /\ UNCHANGED <<sems, phase, arrivals, returns>>

SignalParent(i) ==
  /\ pc[i] = "up"
  /\ IF LeftChild(ParentOf(i)) = i
       THEN left' = [left EXCEPT ![ParentOf(i)] = phase[i]] /\ UNCHANGED right
       ELSE right' = [right EXCEPT ![ParentOf(i)] = phase[i]] /\ UNCHANGED left
  /\ Goto(i, "parent")
  /\ UNCHANGED <<parent, phase, arrivals, returns>>

WaitParent(i) ==
  /\ pc[i] = "parent"
  /\ parent[i] = phase[i]
  /\ Goto(i, "downLeft")
  /\ UNCHANGED <<sems, phase, arrivals, returns>>

SignalChild(i, c) ==
  parent' = IF IsNode(c) THEN [parent EXCEPT ![c] = phase[i]] ELSE parent

SignalLeft(i) ==
  /\ pc[i] = "downLeft"
  /\ SignalChild(i, LeftChild(i))
  /\ Goto(i, "downRight")
  /\ UNCHANGED <<left, right, phase, arrivals, returns>>

SignalRight(i) ==
  /\ pc[i] = "downRight"
  /\ SignalChild(i, RightChild(i))
  /\ Goto(i, "advance")
  /\ UNCHANGED <<left, right, phase, arrivals, returns>>

\* Mutant of NextPhase: the phase does not go on.
NextPhaseStuck(ph) == ph

\* Mutant of NextPhase: the phase is not taken modulo 3.
NextPhaseGrows(ph) == ph + 1

NextPhase(ph) == (ph + 1) % 3

\* The phase goes on and barrier() returns.
Advance(i) ==
  /\ pc[i] = "advance"
  /\ phase' = [phase EXCEPT ![i] = NextPhase(@)]
  /\ returns' = [returns EXCEPT ![i] = @ + 1]
  /\ Goto(i, "out")
  /\ UNCHANGED <<sems, arrivals>>

Step(i) ==
  \/ Enter(i) \/ WaitLeft(i) \/ WaitRight(i) \/ SignalParent(i) \/ WaitParent(i)
  \/ SignalLeft(i) \/ SignalRight(i) \/ Advance(i)

Terminated == (\A i \in Participants : returns[i] = Episodes) /\ UNCHANGED vars

Next == (\E i \in Participants : Step(i)) \/ Terminated

Spec == Init /\ [][Next]_vars

\* Every participant keeps running and calls barrier() Episodes times.
FairSpec == Spec /\ \A i \in Participants : WF_vars(Step(i))
-----------------------------------------------------------------------------

\* Types; the phase and the ints stay in 0..2.
TypeOK ==
  /\ left \in [Participants -> 0 .. 2] /\ right \in [Participants -> 0 .. 2]
  /\ parent \in [Participants -> 0 .. 2] /\ phase \in [Participants -> 0 .. 2]
  /\ pc \in [Participants -> PCs]
  /\ arrivals \in [Participants -> Nat] /\ returns \in [Participants -> Nat]

Team == INSTANCE TeamBarrier WITH arrived <- arrivals, left <- returns

\* barrier() returns only after all participants reached it, in every episode: three
\* phases are enough to tell a new signal from an old one.
ImplementsBarrier == Team!Spec

\* No signal is overwritten before it is seen: a child that is fast enough to be one
\* episode ahead never reaches the parent's int twice.
EveryoneThrough == <>(\A i \in Participants : returns[i] = Episodes)
=============================================================================
