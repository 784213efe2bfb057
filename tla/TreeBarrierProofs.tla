-------------------------- MODULE TreeBarrierProofs -------------------------
(***************************************************************************)
(* The tree barrier is a barrier, for every number of participants and of  *)
(* episodes: the three phases, of which the code says that they could be   *)
(* bogus, are enough.                                                      *)
(*                                                                         *)
(* Each int is the number of times its writer has written it, modulo 3.  A *)
(* node and its child are never more than one write apart when one of them *)
(* compares its phase with the int, so that equal means written in this    *)
(* episode.  Along an edge the counts of arrivals only grow towards the    *)
(* leaves and those of releases only shrink; the least node for which the  *)
(* count of the root says otherwise would have a parent for which it does, *)
(* too.                                                                    *)
(***************************************************************************)
EXTENDS TreeBarrier, WellFoundedInduction, TLAPS

\* Every set of numbers has a least one.
LEMMA LeastElement == ASSUME NEW S \in SUBSET Nat, S # {} PROVE \E x \in S : \A y \in S : x <= y
<1>1. IsWellFoundedOn(OpToRel(<, Nat), Nat)
  BY NatLessThanWellFounded, Zenon
<1>2. PICK x \in S : \A y \in S : <<y, x>> \notin OpToRel(<, Nat)
  BY <1>1, WFMin, Zenon
<1>3. \A y \in S : ~ (y < x)
  BY <1>2 DEF OpToRel
<1> QED
  BY <1>3

\* The episodes in which a node has been signalled by its left child, and by its right
\* one; in which it has signalled its parent (the root: seen everybody); in which it has
\* been released; in which it has released its left child, and its right one.
In(i, S) == IF pc[i] \in S THEN 1 ELSE 0
SawLeft(i) == arrivals[i] - In(i, {"left"})
SawRight(i) == arrivals[i] - In(i, {"left", "right"})
Up(i) == arrivals[i] - In(i, {"left", "right", "up"})
Freed(i) == returns[i] + In(i, {"downLeft", "downRight", "advance"})
DownLeft(i) == returns[i] + In(i, {"downRight", "advance"})
DownRight(i) == returns[i] + In(i, {"advance"})

\* One call at a time, and the phase counts them.
Place ==
  /\ \A i \in Participants : /\ arrivals[i] = returns[i] + (IF pc[i] = "out" THEN 0 ELSE 1)
                             /\ phase[i] = (returns[i] + 1) % 3
  /\ pc[0] \notin {"up", "parent"}

\* An int counts the writes of its writer.
Ints ==
  \A i \in Participants :
    /\ IsNode(LeftChild(i)) => /\ left[i] = Up(LeftChild(i)) % 3
                               /\ parent[LeftChild(i)] = DownLeft(i) % 3
    /\ IsNode(RightChild(i)) => /\ right[i] = Up(RightChild(i)) % 3
                                /\ parent[RightChild(i)] = DownRight(i) % 3

\* What each end of an edge knows of the other.
Edges ==
  \A i \in Participants :
    /\ IsNode(LeftChild(i)) => /\ SawLeft(i) <= Up(LeftChild(i))
                               /\ Freed(LeftChild(i)) <= DownLeft(i)
    /\ IsNode(RightChild(i)) => /\ SawRight(i) <= Up(RightChild(i))
                                /\ Freed(RightChild(i)) <= DownRight(i)

\* The inductive invariant.
IInv == TypeOK /\ Place /\ Ints /\ Edges
-----------------------------------------------------------------------------

\* A node is not its own child, nor the child of two nodes; a node but the root has a
\* parent, with a lower number, of which it is the left or the right child.
LEMMA Tree ==
  /\ Participants \subseteq Nat /\ 0 \in Participants
  /\ \A i \in Participants : IsNode(i)
  /\ \A i \in Participants : /\ LeftChild(i) \in Nat /\ LeftChild(i) > i
                             /\ RightChild(i) \in Nat /\ RightChild(i) > i
                             /\ IsNode(LeftChild(i)) <=> LeftChild(i) \in Participants
                             /\ IsNode(RightChild(i)) <=> RightChild(i) \in Participants
  /\ \A i, j \in Participants : /\ LeftChild(i) # RightChild(j)
                                /\ LeftChild(i) = LeftChild(j) => i = j
                                /\ RightChild(i) = RightChild(j) => i = j
  /\ \A c \in Participants \ {0} :
       /\ ParentOf(c) \in Participants /\ ParentOf(c) < c
       /\ LeftChild(ParentOf(c)) = c \/ RightChild(ParentOf(c)) = c
  BY ParticipantsAssumption
     DEF Participants, IsNode, LeftChild, RightChild, ParentOf

\* The initial state satisfies the invariant.
LEMMA InitIInv == Init => IInv
<1> SUFFICES ASSUME Init PROVE IInv
  OBVIOUS
<1>1. TypeOK
  BY DEF Init, TypeOK, PCs
<1>2. Place
  BY Tree DEF Init, Place
<1>3. Ints /\ Edges
  BY Tree DEF Init, Ints, Edges, In, Up, SawLeft, SawRight, Freed, DownLeft, DownRight
<1> QED
  BY <1>1, <1>2, <1>3 DEF IInv

\* One write apart, three values tell the two apart.
LEMMA Phases == ASSUME NEW m \in Nat, NEW n \in Int, m <= n, n <= m + 1, n % 3 = (m + 1) % 3
                PROVE  n = m + 1
  OBVIOUS

\* The counters are integers, and ordered by the place of the participant.
LEMMA Counters ==
  ASSUME IInv
  PROVE  \A i \in Participants :
           /\ {SawLeft(i), SawRight(i), Up(i), Freed(i), DownLeft(i), DownRight(i)} \subseteq Int
           /\ DownRight(i) <= DownLeft(i) /\ DownLeft(i) <= Freed(i)
           /\ Up(i) <= SawRight(i) /\ SawRight(i) <= SawLeft(i)
           /\ Freed(i) <= Up(i)
  BY DEF IInv, TypeOK, PCs, Place, In, Up, SawLeft, SawRight, Freed, DownLeft, DownRight

\* A call.
LEMMA EnterStep == ASSUME IInv, NEW i \in Participants, Enter(i) PROVE IInv'
<1> USE DEF Enter, Goto, sems
<1>1. TypeOK'
  BY Tree DEF IInv, TypeOK, PCs
<1>2. Place'
  BY Tree DEF IInv, TypeOK, Place
<1>3. /\ SawLeft(i)' = SawLeft(i) /\ SawRight(i)' = SawRight(i) /\ Up(i)' = Up(i)
      /\ Freed(i)' = Freed(i) /\ DownLeft(i)' = DownLeft(i) /\ DownRight(i)' = DownRight(i)
  BY DEF IInv, TypeOK, Place, In, SawLeft, SawRight, Up, Freed, DownLeft, DownRight
<1>4. \A j \in Participants \ {i} :
        /\ SawLeft(j)' = SawLeft(j) /\ SawRight(j)' = SawRight(j) /\ Up(j)' = Up(j)
        /\ Freed(j)' = Freed(j) /\ DownLeft(j)' = DownLeft(j) /\ DownRight(j)' = DownRight(j)
  BY DEF IInv, TypeOK, In, SawLeft, SawRight, Up, Freed, DownLeft, DownRight
<1>5. Ints'
  BY <1>3, <1>4, Tree DEF IInv, Ints
<1>6. Edges'
  BY <1>3, <1>4, Tree, Counters DEF IInv, Edges
<1> QED
  BY <1>1, <1>2, <1>5, <1>6 DEF IInv

\* The left child has been seen: its int can only have been written in this episode.
LEMMA WaitLeftStep == ASSUME IInv, NEW i \in Participants, WaitLeft(i) PROVE IInv'
<1> USE DEF WaitLeft, Goto, sems
<1>1. TypeOK'
  BY Tree DEF IInv, TypeOK, PCs
<1>2. Place'
  BY Tree DEF IInv, TypeOK, Place
<1>3. /\ SawLeft(i)' = SawLeft(i) + 1 /\ SawRight(i)' = SawRight(i) /\ Up(i)' = Up(i)
      /\ Freed(i)' = Freed(i) /\ DownLeft(i)' = DownLeft(i) /\ DownRight(i)' = DownRight(i)
  BY DEF IInv, TypeOK, Place, In, SawLeft, SawRight, Up, Freed, DownLeft, DownRight
<1>4. \A j \in Participants \ {i} :
        /\ SawLeft(j)' = SawLeft(j) /\ SawRight(j)' = SawRight(j) /\ Up(j)' = Up(j)
        /\ Freed(j)' = Freed(j) /\ DownLeft(j)' = DownLeft(j) /\ DownRight(j)' = DownRight(j)
  BY DEF IInv, TypeOK, In, SawLeft, SawRight, Up, Freed, DownLeft, DownRight
<1>5. Ints'
  BY <1>3, <1>4, Tree DEF IInv, Ints
<1>6. ASSUME IsNode(LeftChild(i)) PROVE Up(LeftChild(i)) = returns[i] + 1
  <2> DEFINE c == LeftChild(i)
  <2>1. c \in Participants /\ returns[i] \in Nat /\ returns[c] \in Nat
    BY <1>6, Tree DEF IInv, TypeOK
  <2>2. Up(c) \in Int /\ returns[i] <= Up(c) /\ Up(c) <= returns[c] + 1
    BY <1>6, <2>1, Tree, Counters DEF IInv, TypeOK, Place, Edges, In, Up, SawLeft
  <2>3. returns[c] <= returns[i]
    BY <1>6, <2>1, Tree, Counters DEF IInv, TypeOK, Edges, In, Freed, DownLeft
  <2>4. Up(c) % 3 = (returns[i] + 1) % 3
    BY <1>6, <2>1 DEF IInv, Place, Ints
  <2> QED
    BY <2>1, <2>2, <2>3, <2>4, Phases
<1>7. SawLeft(i)' = returns[i] + 1
  BY DEF IInv, TypeOK, Place, In, SawLeft
<1>8. Edges'
  BY <1>3, <1>4, <1>6, <1>7, Tree, Counters DEF IInv, Edges
<1> QED
  BY <1>1, <1>2, <1>5, <1>8 DEF IInv

\* The right child has been seen.
LEMMA WaitRightStep == ASSUME IInv, NEW i \in Participants, WaitRight(i) PROVE IInv'
<1> USE DEF WaitRight, Goto, sems
<1>1. TypeOK'
  BY Tree DEF IInv, TypeOK, PCs
<1>2. Place'
  BY Tree DEF IInv, TypeOK, Place
<1>3. /\ SawRight(i)' = SawRight(i) + 1 /\ Up(i)' = IF i = 0 THEN Up(i) + 1 ELSE Up(i)
      /\ Freed(i)' = IF i = 0 THEN Freed(i) + 1 ELSE Freed(i)
      /\ SawLeft(i)' = SawLeft(i) /\ DownLeft(i)' = DownLeft(i) /\ DownRight(i)' = DownRight(i)
  BY DEF IInv, TypeOK, Place, In, SawLeft, SawRight, Up, Freed, DownLeft, DownRight
<1>4. \A j \in Participants \ {i} :
        /\ SawLeft(j)' = SawLeft(j) /\ SawRight(j)' = SawRight(j) /\ Up(j)' = Up(j)
        /\ Freed(j)' = Freed(j) /\ DownLeft(j)' = DownLeft(j) /\ DownRight(j)' = DownRight(j)
  BY DEF IInv, TypeOK, In, SawLeft, SawRight, Up, Freed, DownLeft, DownRight
<1>5. Ints'
  BY <1>3, <1>4, Tree DEF IInv, Ints
<1>6. ASSUME IsNode(RightChild(i)) PROVE Up(RightChild(i)) = returns[i] + 1
  <2> DEFINE c == RightChild(i)
  <2>1. c \in Participants /\ returns[i] \in Nat /\ returns[c] \in Nat
    BY <1>6, Tree DEF IInv, TypeOK
  <2>2. Up(c) \in Int /\ returns[i] <= Up(c) /\ Up(c) <= returns[c] + 1
    BY <1>6, <2>1, Tree, Counters DEF IInv, TypeOK, Place, Edges, In, Up, SawRight
  <2>3. returns[c] <= returns[i]
    BY <1>6, <2>1, Tree, Counters DEF IInv, TypeOK, Edges, In, Freed, DownRight
  <2>4. Up(c) % 3 = (returns[i] + 1) % 3
    BY <1>6, <2>1 DEF IInv, Place, Ints
  <2> QED
    BY <2>1, <2>2, <2>3, <2>4, Phases
<1>7. SawRight(i)' = returns[i] + 1
  BY DEF IInv, TypeOK, Place, In, SawRight
<1>8. Edges'
  BY <1>3, <1>4, <1>6, <1>7, Tree, Counters DEF IInv, Edges
<1> QED
  BY <1>1, <1>2, <1>5, <1>8 DEF IInv

\* The signal to the parent.
LEMMA SignalParentStep == ASSUME IInv, NEW i \in Participants, SignalParent(i) PROVE IInv'
<1> USE DEF SignalParent, Goto, sems
<1>1. TypeOK'
  BY Tree DEF IInv, TypeOK, PCs
<1>2. Place'
  BY Tree DEF IInv, TypeOK, Place
<1>3. /\ SawLeft(i)' = SawLeft(i) /\ SawRight(i)' = SawRight(i) /\ Up(i)' = Up(i) + 1
      /\ Freed(i)' = Freed(i) /\ DownLeft(i)' = DownLeft(i) /\ DownRight(i)' = DownRight(i)
  BY DEF IInv, TypeOK, Place, In, SawLeft, SawRight, Up, Freed, DownLeft, DownRight
<1>4. \A j \in Participants \ {i} :
        /\ SawLeft(j)' = SawLeft(j) /\ SawRight(j)' = SawRight(j) /\ Up(j)' = Up(j)
        /\ Freed(j)' = Freed(j) /\ DownLeft(j)' = DownLeft(j) /\ DownRight(j)' = DownRight(j)
  BY DEF IInv, TypeOK, In, SawLeft, SawRight, Up, Freed, DownLeft, DownRight
<1>5. phase[i] = Up(i)' % 3
  BY DEF IInv, TypeOK, Place, In, Up
<1>6. i # 0 /\ ParentOf(i) \in Participants
  BY Tree DEF IInv, Place
<1>7. \A j \in Participants : IsNode(LeftChild(j)) =>
        left'[j] = IF LeftChild(j) = i THEN phase[i] ELSE left[j]
  BY <1>6, Tree DEF IInv, TypeOK
<1>8. \A j \in Participants : IsNode(RightChild(j)) =>
        right'[j] = IF RightChild(j) = i THEN phase[i] ELSE right[j]
  BY <1>6, Tree DEF IInv, TypeOK
<1>9. \A j \in Participants : IsNode(LeftChild(j)) =>
        /\ left'[j] = Up(LeftChild(j))' % 3
        /\ parent'[LeftChild(j)] = DownLeft(j)' % 3
  BY <1>3, <1>4, <1>5, <1>7, Tree DEF IInv, Ints
<1>10. \A j \in Participants : IsNode(RightChild(j)) =>
        /\ right'[j] = Up(RightChild(j))' % 3
        /\ parent'[RightChild(j)] = DownRight(j)' % 3
  BY <1>3, <1>4, <1>5, <1>8, Tree DEF IInv, Ints
<1>11. Ints'
  BY <1>9, <1>10 DEF Ints
<1>12. Edges'
  BY <1>3, <1>4, Tree, Counters DEF IInv, Edges
<1> QED
  BY <1>1, <1>2, <1>11, <1>12 DEF IInv

\* The release by the parent: its int can only have been written in this episode.
LEMMA WaitParentStep == ASSUME IInv, NEW i \in Participants, WaitParent(i) PROVE IInv'
<1> USE DEF WaitParent, Goto, sems
<1>1. TypeOK'
  BY Tree DEF IInv, TypeOK, PCs
<1>2. Place'
  BY Tree DEF IInv, TypeOK, Place
<1>3. /\ SawLeft(i)' = SawLeft(i) /\ SawRight(i)' = SawRight(i) /\ Up(i)' = Up(i)
      /\ Freed(i)' = Freed(i) + 1 /\ DownLeft(i)' = DownLeft(i) /\ DownRight(i)' = DownRight(i)
  BY DEF IInv, TypeOK, Place, In, SawLeft, SawRight, Up, Freed, DownLeft, DownRight
<1>4. \A j \in Participants \ {i} :
        /\ SawLeft(j)' = SawLeft(j) /\ SawRight(j)' = SawRight(j) /\ Up(j)' = Up(j)
        /\ Freed(j)' = Freed(j) /\ DownLeft(j)' = DownLeft(j) /\ DownRight(j)' = DownRight(j)
  BY DEF IInv, TypeOK, In, SawLeft, SawRight, Up, Freed, DownLeft, DownRight
<1>5. Ints'
  BY <1>3, <1>4, Tree DEF IInv, Ints
<1>6. PICK p \in Participants : \/ i = LeftChild(p) /\ parent[i] = DownLeft(p) % 3
                                \/ i = RightChild(p) /\ parent[i] = DownRight(p) % 3
  <2>1. i \in Participants \ {0}
    BY DEF IInv, Place
  <2>2. ParentOf(i) \in Participants /\ (LeftChild(ParentOf(i)) = i \/ RightChild(ParentOf(i)) = i)
    BY <2>1, Tree
  <2> QED
    <3> DEFINE p == ParentOf(i)
    <3>1. IsNode(i)
      BY Tree
    <3>2. CASE LeftChild(p) = i
      BY <2>2, <3>1, <3>2 DEF IInv, Ints
    <3>3. CASE RightChild(p) = i
      BY <2>2, <3>1, <3>3 DEF IInv, Ints
    <3> QED
      BY <2>2, <3>2, <3>3
<1>7. ASSUME i = LeftChild(p) PROVE DownLeft(p) = returns[i] + 1
  <2>1. returns[i] \in Nat /\ DownLeft(p) \in Int /\ IsNode(LeftChild(p))
    BY <1>7, Tree, Counters DEF IInv, TypeOK
  <2>2. returns[i] <= DownLeft(p)
    BY <1>7, <2>1, Counters DEF IInv, TypeOK, Edges, In, Freed
  <2>3. DownLeft(p) <= returns[i] + 1
    BY <1>7, <2>1, Counters DEF IInv, TypeOK, Place, Edges, In, Up
  <2>4. DownLeft(p) % 3 = (returns[i] + 1) % 3
    BY <1>6, <1>7, Tree DEF IInv, Place
  <2> QED
    BY <2>1, <2>2, <2>3, <2>4, Phases
<1>8. ASSUME i = RightChild(p) PROVE DownRight(p) = returns[i] + 1
  <2>1. returns[i] \in Nat /\ DownRight(p) \in Int /\ IsNode(RightChild(p))
    BY <1>8, Tree, Counters DEF IInv, TypeOK
  <2>2. returns[i] <= DownRight(p)
    BY <1>8, <2>1, Counters DEF IInv, TypeOK, Edges, In, Freed
  <2>3. DownRight(p) <= returns[i] + 1
    BY <1>8, <2>1, Counters DEF IInv, TypeOK, Place, Edges, In, Up
  <2>4. DownRight(p) % 3 = (returns[i] + 1) % 3
    BY <1>6, <1>8, Tree DEF IInv, Place
  <2> QED
    BY <2>1, <2>2, <2>3, <2>4, Phases
<1>9. Freed(i)' = returns[i] + 1
  BY DEF IInv, TypeOK, Place, In, Freed
<1>10. Edges'
  BY <1>3, <1>4, <1>6, <1>7, <1>8, <1>9, Tree, Counters DEF IInv, Edges
<1> QED
  BY <1>1, <1>2, <1>5, <1>10 DEF IInv

\* The release of the left child.
LEMMA SignalLeftStep == ASSUME IInv, NEW i \in Participants, SignalLeft(i) PROVE IInv'
<1> USE DEF SignalLeft, SignalChild, Goto, sems
<1>1. TypeOK'
  BY Tree DEF IInv, TypeOK, PCs
<1>2. Place'
  BY Tree DEF IInv, TypeOK, Place
<1>3. /\ SawLeft(i)' = SawLeft(i) /\ SawRight(i)' = SawRight(i) /\ Up(i)' = Up(i)
      /\ Freed(i)' = Freed(i) /\ DownLeft(i)' = DownLeft(i) + 1 /\ DownRight(i)' = DownRight(i)
  BY DEF IInv, TypeOK, Place, In, SawLeft, SawRight, Up, Freed, DownLeft, DownRight
<1>4. \A j \in Participants \ {i} :
        /\ SawLeft(j)' = SawLeft(j) /\ SawRight(j)' = SawRight(j) /\ Up(j)' = Up(j)
        /\ Freed(j)' = Freed(j) /\ DownLeft(j)' = DownLeft(j) /\ DownRight(j)' = DownRight(j)
  BY DEF IInv, TypeOK, In, SawLeft, SawRight, Up, Freed, DownLeft, DownRight
<1>5. phase[i] = DownLeft(i)' % 3
  BY DEF IInv, TypeOK, Place, In, DownLeft
<1>6. Ints'
  BY <1>3, <1>4, <1>5, Tree DEF IInv, TypeOK, Ints
<1>7. Edges'
  BY <1>3, <1>4, Tree, Counters DEF IInv, Edges
<1> QED
  BY <1>1, <1>2, <1>6, <1>7 DEF IInv

\* The release of the right child.
LEMMA SignalRightStep == ASSUME IInv, NEW i \in Participants, SignalRight(i) PROVE IInv'
<1> USE DEF SignalRight, SignalChild, Goto, sems
<1>1. TypeOK'
  BY Tree DEF IInv, TypeOK, PCs
<1>2. Place'
  BY Tree DEF IInv, TypeOK, Place
<1>3. /\ SawLeft(i)' = SawLeft(i) /\ SawRight(i)' = SawRight(i) /\ Up(i)' = Up(i)
      /\ Freed(i)' = Freed(i) /\ DownLeft(i)' = DownLeft(i) /\ DownRight(i)' = DownRight(i) + 1
  BY DEF IInv, TypeOK, Place, In, SawLeft, SawRight, Up, Freed, DownLeft, DownRight
<1>4. \A j \in Participants \ {i} :
        /\ SawLeft(j)' = SawLeft(j) /\ SawRight(j)' = SawRight(j) /\ Up(j)' = Up(j)
        /\ Freed(j)' = Freed(j) /\ DownLeft(j)' = DownLeft(j) /\ DownRight(j)' = DownRight(j)
  BY DEF IInv, TypeOK, In, SawLeft, SawRight, Up, Freed, DownLeft, DownRight
<1>5. phase[i] = DownRight(i)' % 3
  BY DEF IInv, TypeOK, Place, In, DownRight
<1>6. Ints'
  BY <1>3, <1>4, <1>5, Tree DEF IInv, TypeOK, Ints
<1>7. Edges'
  BY <1>3, <1>4, Tree, Counters DEF IInv, Edges
<1> QED
  BY <1>1, <1>2, <1>6, <1>7 DEF IInv

\* The next phase.
LEMMA AdvanceStep == ASSUME IInv, NEW i \in Participants, Advance(i) PROVE IInv'
<1> USE DEF Advance, Goto, sems, NextPhase
<1>1. TypeOK'
  BY Tree DEF IInv, TypeOK, PCs
<1>2. Place'
  BY Tree DEF IInv, TypeOK, Place
<1>3. /\ SawLeft(i)' = SawLeft(i) /\ SawRight(i)' = SawRight(i) /\ Up(i)' = Up(i)
      /\ Freed(i)' = Freed(i) /\ DownLeft(i)' = DownLeft(i) /\ DownRight(i)' = DownRight(i)
  BY DEF IInv, TypeOK, Place, In, SawLeft, SawRight, Up, Freed, DownLeft, DownRight
<1>4. \A j \in Participants \ {i} :
        /\ SawLeft(j)' = SawLeft(j) /\ SawRight(j)' = SawRight(j) /\ Up(j)' = Up(j)
        /\ Freed(j)' = Freed(j) /\ DownLeft(j)' = DownLeft(j) /\ DownRight(j)' = DownRight(j)
  BY DEF IInv, TypeOK, In, SawLeft, SawRight, Up, Freed, DownLeft, DownRight
<1>5. Ints'
  BY <1>3, <1>4, Tree DEF IInv, Ints
<1>6. Edges'
  BY <1>3, <1>4, Tree, Counters DEF IInv, Edges
<1> QED
  BY <1>1, <1>2, <1>5, <1>6 DEF IInv

\* Every step keeps the invariant.
LEMMA NextIInv == ASSUME IInv, [Next]_vars PROVE IInv'
<1>1. CASE UNCHANGED vars
  BY <1>1 DEF vars, sems, IInv, TypeOK, Place, Ints, Edges, In, Up, SawLeft, SawRight,
              Freed, DownLeft, DownRight
<1>2. CASE \E i \in Participants : Step(i)
  BY <1>2, EnterStep, WaitLeftStep, WaitRightStep, SignalParentStep, WaitParentStep,
     SignalLeftStep, SignalRightStep, AdvanceStep DEF Step
<1> QED
  BY <1>1, <1>2 DEF Next, Terminated

\* What the proofs rest on: the ints count the writes of their writers modulo 3, and the
\* two ends of an edge are never more than one episode apart.
THEOREM Invariance == Spec => []IInv
<1>1. Init => IInv
  BY InitIInv
<1>2. IInv /\ [Next]_vars => IInv'
  BY NextIInv
<1> QED
  BY <1>1, <1>2, PTL DEF Spec

\* The variables keep their types; the phase and the ints stay in 0..2.
THEOREM TypeCorrect == Spec => []TypeOK
<1>1. IInv => TypeOK
  BY DEF IInv
<1> QED
  BY <1>1, Invariance, PTL
-----------------------------------------------------------------------------

\* The root has seen everybody: a node has signalled its parent in as many episodes as
\* the root has gone through.  Otherwise take the least node that has not; it is not the
\* root, and its parent, with a lower number, has gone through no more than it has.
LEMMA RootSawAll == ASSUME IInv PROVE \A j \in Participants : Up(0) <= Up(j)
<1> DEFINE Behind == {j \in Participants : Up(j) < Up(0)}
<1> SUFFICES ASSUME NEW k \in Participants, ~ (Up(0) <= Up(k)) PROVE FALSE
  OBVIOUS
<1>0. /\ Participants \subseteq Nat /\ 0 \in Participants
      /\ \A l \in Participants : Up(l) \in Int
  BY Tree, Counters
<1>1. Behind \in SUBSET Nat /\ k \in Behind
  <2>1. Behind \subseteq Nat
    BY <1>0
  <2>2. k \in Behind
    BY <1>0
  <2> QED
    BY <2>1, <2>2
<1>2. PICK j \in Behind : \A l \in Behind : j <= l
  <2> HIDE DEF Behind
  <2> QED
    BY <1>1, LeastElement
<1>3. j \in Participants \ {0} /\ Up(j) < Up(0)
  BY <1>0, <1>2
<1>4. PICK p \in Participants : p < j /\ (LeftChild(p) = j \/ RightChild(p) = j)
  BY <1>3, Tree
<1>5. SawLeft(p) \in Int /\ SawRight(p) \in Int /\ SawLeft(p) >= Up(p) /\ SawRight(p) >= Up(p)
  BY Counters, <1>0
<1>6. IsNode(j)
  BY <1>3, Tree
<1>7. Up(p) <= Up(j)
  BY <1>0, <1>3, <1>4, <1>5, <1>6 DEF IInv, Edges
<1>8. p \in Behind
  BY <1>0, <1>3, <1>7
<1> QED
  BY <1>0, <1>2, <1>3, <1>4, <1>8

\* Nobody is released in an episode the root has not been through.  Otherwise take the
\* least such node; its parent released it and had been released before.
LEMMA RootFreesAll == ASSUME IInv PROVE \A j \in Participants : Freed(j) <= Freed(0)
<1> DEFINE Ahead == {j \in Participants : Freed(0) < Freed(j)}
<1> SUFFICES ASSUME NEW k \in Participants, ~ (Freed(k) <= Freed(0)) PROVE FALSE
  OBVIOUS
<1>0. /\ Participants \subseteq Nat /\ 0 \in Participants
      /\ \A l \in Participants : Freed(l) \in Int
  BY Tree, Counters
<1>1. Ahead \in SUBSET Nat /\ k \in Ahead
  <2>1. Ahead \subseteq Nat
    BY <1>0
  <2>2. k \in Ahead
    BY <1>0
  <2> QED
    BY <2>1, <2>2
<1>2. PICK j \in Ahead : \A l \in Ahead : j <= l
  <2> HIDE DEF Ahead
  <2> QED
    BY <1>1, LeastElement
<1>3. j \in Participants \ {0} /\ Freed(0) < Freed(j)
  BY <1>0, <1>2
<1>4. PICK p \in Participants : p < j /\ (LeftChild(p) = j \/ RightChild(p) = j)
  BY <1>3, Tree
<1>5. DownLeft(p) \in Int /\ DownRight(p) \in Int /\ DownLeft(p) <= Freed(p) /\ DownRight(p) <= Freed(p)
  BY Counters, <1>0
<1>6. IsNode(j)
  BY <1>3, Tree
<1>7. Freed(j) <= Freed(p)
  BY <1>0, <1>3, <1>4, <1>5, <1>6 DEF IInv, Edges
<1>8. p \in Ahead
  BY <1>0, <1>3, <1>7
<1> QED
  BY <1>0, <1>2, <1>3, <1>4, <1>8

\* Whoever is about to return knows that everybody has called barrier() as often as it has.
LEMMA AllArrived ==
  ASSUME IInv, NEW i \in Participants, pc[i] = "advance"
  PROVE  returns[i] < arrivals[i] /\ \A q \in Participants : arrivals[q] >= arrivals[i]
<1>1. returns[i] \in Nat /\ arrivals[i] = returns[i] + 1 /\ Freed(i) = arrivals[i]
  BY DEF IInv, TypeOK, Place, In, Freed
<1>2. ASSUME NEW q \in Participants PROVE arrivals[q] >= arrivals[i]
  <2>1. Freed(i) <= Freed(0) /\ Freed(0) <= Up(0) /\ Up(0) <= Up(q)
    BY RootFreesAll, RootSawAll, Counters, Tree
  <2>2. arrivals[q] \in Nat /\ Up(q) <= arrivals[q]
    BY DEF IInv, TypeOK, In, Up
  <2> QED
    BY <1>1, <2>1, <2>2, Counters, Tree
<1> QED
  BY <1>1, <1>2

\* The tree barrier implements the barrier of a team, whatever the number of participants:
\* barrier() returns only after all of them have reached it, in every episode.
THEOREM Refinement == Spec => ImplementsBarrier
<1>1. Init => Team!Init
  BY DEF Init, Team!Init
<1>2. ASSUME IInv, Next PROVE [Team!Next]_<<arrivals, returns>>
  <2>1. ASSUME NEW i \in Participants, Step(i) PROVE [Team!Next]_<<arrivals, returns>>
    <3>1. CASE Enter(i)
      <4>1. arrivals[i] = returns[i] /\ Team!Arrive(i)
        BY <1>2, <3>1 DEF IInv, TypeOK, Place, Enter, Team!Arrive
      <4> QED
        BY <4>1 DEF Team!Next
    <3>2. CASE Advance(i)
      <4>1. Team!Leave(i)
        BY <1>2, <3>2, AllArrived DEF Advance, Team!Leave
      <4> QED
        BY <4>1 DEF Team!Next
    <3>3. CASE ~ (Enter(i) \/ Advance(i))
      BY <2>1, <3>3 DEF Step, WaitLeft, WaitRight, SignalParent, WaitParent, SignalLeft,
                        SignalRight
    <3> QED
      BY <3>1, <3>2, <3>3
  <2> QED
    BY <1>2, <2>1 DEF Next, Terminated, vars
<1>3. UNCHANGED vars => UNCHANGED <<arrivals, returns>>
  BY DEF vars
<1>4. IInv /\ [Next]_vars => [Team!Next]_<<arrivals, returns>>
  BY <1>2, <1>3
<1> QED
  BY <1>1, <1>4, Invariance, PTL DEF Spec, ImplementsBarrier, Team!Spec
=============================================================================
