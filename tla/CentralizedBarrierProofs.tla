---------------------- MODULE CentralizedBarrierProofs ----------------------
(***************************************************************************)
(* The centralized barrier is a barrier, for every finite team and every   *)
(* number of episodes.  gen counts the changes of the flag: a participant  *)
(* outside has returned from exactly gen episodes, one whose sense is the  *)
(* flag's is in episode gen + 1, one whose sense is not is on its way out  *)
(* of episode gen.                                                         *)
(***************************************************************************)
EXTENDS CentralizedBarrier, FiniteSetTheorems, TLAPS

\* The episode a participant is in.
Place ==
  \A p \in Participants :
    /\ pc[p] = "out" => arrived[p] = gen /\ left[p] = gen
    /\ pc[p] \in {"count", "last", "release"} =>
         sense[p] = flag /\ arrived[p] = gen + 1 /\ left[p] = gen
    /\ (pc[p] = "wait" /\ sense[p] = flag) => arrived[p] = gen + 1 /\ left[p] = gen
    /\ (pc[p] = "wait" /\ sense[p] # flag) => arrived[p] = gen /\ left[p] + 1 = gen

\* The last participant has everybody else waiting for it.
Alone ==
  \A p \in Participants : pc[p] \in {"last", "release"} =>
    \A q \in Participants \ {p} : pc[q] = "wait" /\ sense[q] = flag

\* The participants _sem stands for.
Counted == {p \in Participants : pc[p] \in {"wait", "last"} /\ sense[p] = flag}
SemOK ==
  /\ (\A p \in Participants : pc[p] # "release") => sem = Cardinality(Counted)
  /\ (\E p \in Participants : pc[p] = "release") => sem = 0

\* The inductive invariant.
IInv == TypeOK /\ Place /\ Alone /\ SemOK

\* Sets of participants have a cardinality, and one that is as large as the team is it.
LEMMA Sizes ==
  /\ numParticipants \in Nat
  /\ \A S \in SUBSET Participants :
       /\ IsFiniteSet(S) /\ Cardinality(S) \in Nat /\ Cardinality(S) <= numParticipants
       /\ Cardinality(S) = numParticipants => S = Participants
  BY ParticipantsAssumption, FS_Subset, FS_CardinalityType DEF numParticipants

\* The initial state satisfies the invariant.
LEMMA InitIInv == Init => IInv
<1> SUFFICES ASSUME Init PROVE IInv
  OBVIOUS
<1>0. sem \in 0 .. numParticipants
  BY Sizes DEF Init
<1>1. TypeOK
  BY <1>0 DEF Init, TypeOK, PCs
<1>2. Place /\ Alone
  BY DEF Init, Place, Alone
<1>3. Counted = {}
  BY DEF Init, Counted
<1>4. SemOK
  BY <1>3, FS_EmptySet DEF Init, SemOK
<1> QED
  BY <1>1, <1>2, <1>4 DEF IInv

\* A call: nobody can be last while a participant is outside.
LEMMA ReadFlagStep == ASSUME IInv, NEW p \in Participants, ReadFlag(p) PROVE IInv'
<1> USE DEF ReadFlag, Goto
<1>1. TypeOK'
  BY DEF IInv, TypeOK, PCs
<1>2. Place'
  BY DEF IInv, TypeOK, Place
<1>3. Alone'
  BY DEF IInv, TypeOK, Alone
<1>4. Counted' = Counted
  BY DEF IInv, TypeOK, Counted
<1>5. SemOK'
  BY <1>4 DEF IInv, TypeOK, SemOK
<1> QED
  BY <1>1, <1>2, <1>3, <1>5 DEF IInv

\* An arrival: the one that completes the count finds all the others waiting.
LEMMA CountStep == ASSUME IInv, NEW p \in Participants, Count(p) PROVE IInv'
<1> USE DEF Count, Goto, IsLast
<1>1. /\ \A q \in Participants : pc[q] \notin {"last", "release"}
      /\ sense[p] = flag /\ p \notin Counted
  BY DEF IInv, TypeOK, Alone, Place, Counted
<1>2. Counted' = Counted \cup {p}
  BY <1>1 DEF IInv, TypeOK, Counted
<1>3. sem = Cardinality(Counted) /\ sem \in Nat
  BY <1>1 DEF IInv, TypeOK, SemOK
<1>4. Counted \in SUBSET Participants /\ Counted' \in SUBSET Participants
  BY DEF Counted
<1>5. Cardinality(Counted') = sem + 1
  BY <1>1, <1>2, <1>3, <1>4, Sizes, FS_AddElement
<1>6. sem' \in 0 .. numParticipants
  BY <1>3, <1>4, <1>5, Sizes
<1>7. TypeOK'
  BY <1>6 DEF IInv, TypeOK, PCs
<1>8. Place'
  BY DEF IInv, TypeOK, Place
<1>9. Alone'
  <2>1. CASE sem + 1 = numParticipants
    <3>1. Counted' = Participants
      BY <2>1, <1>4, <1>5, Sizes
    <3>2. \A q \in Participants \ {p} : pc[q] = "wait" /\ sense[q] = flag
      BY <3>1, <1>1, <1>2 DEF Counted
    <3> QED
      BY <3>2, <1>1 DEF IInv, TypeOK, Alone
  <2>2. CASE sem + 1 # numParticipants
    BY <2>2, <1>1 DEF IInv, TypeOK, Alone
  <2> QED
    BY <2>1, <2>2
<1>10. SemOK'
  BY <1>1, <1>5 DEF IInv, TypeOK, SemOK
<1> QED
  BY <1>7, <1>8, <1>9, <1>10 DEF IInv

\* The reset of the counter.
LEMMA ResetStep == ASSUME IInv, NEW p \in Participants, Reset(p) PROVE IInv'
<1> USE DEF Reset, Goto, SemAfterReset
<1>1. TypeOK'
  BY Sizes DEF IInv, TypeOK, PCs
<1>2. Place'
  BY DEF IInv, TypeOK, Place
<1>3. Alone'
  BY DEF IInv, TypeOK, Alone
<1>4. SemOK'
  BY DEF IInv, TypeOK, SemOK
<1> QED
  BY <1>1, <1>2, <1>3, <1>4 DEF IInv

\* The change of the flag: all the others are on their way out.
LEMMA ReleaseStep == ASSUME IInv, NEW p \in Participants, Release(p) PROVE IInv'
<1> USE DEF Release, Goto, Return
<1>1. /\ sense[p] = flag /\ arrived[p] = gen + 1 /\ left[p] = gen /\ sem = 0
      /\ \A q \in Participants \ {p} : /\ pc[q] = "wait" /\ sense[q] = flag
                                       /\ arrived[q] = gen + 1 /\ left[q] = gen
  BY DEF IInv, Place, Alone, SemOK
<1>2. flag' \in BOOLEAN /\ flag' # flag
  BY <1>1 DEF IInv, TypeOK
<1>3. TypeOK'
  BY <1>2 DEF IInv, TypeOK, PCs
<1>4. /\ pc'[p] = "out" /\ left'[p] = gen'
      /\ \A q \in Participants \ {p} : pc'[q] = "wait" /\ left'[q] = left[q]
  BY <1>1 DEF IInv, TypeOK
<1>5. \A q \in Participants \ {p} : sense'[q] # flag'
  BY <1>1, <1>2
<1>6. Place'
  BY <1>1, <1>4, <1>5 DEF IInv, TypeOK, Place
<1>7. Alone'
  BY <1>4 DEF Alone
<1>8. Counted' = {}
  BY <1>4, <1>5 DEF Counted
<1>9. SemOK'
  BY <1>1, <1>4, <1>8, FS_EmptySet DEF SemOK
<1> QED
  BY <1>3, <1>6, <1>7, <1>9 DEF IInv

\* A waiter returns.
LEMMA WakeStep == ASSUME IInv, NEW p \in Participants, Wake(p) PROVE IInv'
<1> USE DEF Wake, Goto, Return
<1>1. TypeOK'
  BY DEF IInv, TypeOK, PCs
<1>2. Place'
  BY DEF IInv, TypeOK, Place
<1>3. Alone'
  BY DEF IInv, TypeOK, Alone
<1>4. Counted' = Counted
  BY DEF IInv, TypeOK, Counted
<1>5. SemOK'
  BY <1>4 DEF IInv, TypeOK, SemOK
<1> QED
  BY <1>1, <1>2, <1>3, <1>5 DEF IInv

\* Every step preserves the invariant.
LEMMA NextIInv == ASSUME IInv, [Next]_vars PROVE IInv'
<1>1. CASE UNCHANGED vars
  BY <1>1 DEF vars, IInv, TypeOK, Place, Alone, SemOK, Counted
<1>2. CASE \E p \in Participants : Step(p)
  BY <1>2, ReadFlagStep, CountStep, ResetStep, ReleaseStep, WakeStep DEF Step
<1> QED
  BY <1>1, <1>2 DEF Next, Terminated

\* The invariant holds in every reachable state.
THEOREM Invariance == Spec => []IInv
<1>1. IInv /\ [Next]_vars => IInv'
  BY NextIInv
<1> QED
  BY <1>1, InitIInv, PTL DEF Spec

\* Types, for every team: _sem never counts more than the participants.
THEOREM TypeCorrect == Spec => []TypeOK
<1>1. IInv => TypeOK
  BY DEF IInv
<1> QED
  BY <1>1, Invariance, PTL

\* computeVectorReductions runs with every participant in the barrier, for every team.
THEOREM ReductionsSafe == Spec => []ReductionsAlone
<1>1. IInv => ReductionsAlone
  BY DEF IInv, Place, Alone, ReductionsAlone
<1> QED
  BY <1>1, Invariance, PTL

\* Nobody returns from an episode before everybody has called it.
LEMMA StepRefines == ASSUME IInv, [Next]_vars PROVE [Team!Next]_<<arrived, left>>
<1>1. CASE UNCHANGED vars
  BY <1>1 DEF vars
<1>2. ASSUME NEW p \in Participants, ReadFlag(p) PROVE Team!Arrive(p)
  BY <1>2 DEF IInv, TypeOK, Place, ReadFlag, Team!Arrive
<1>3. ASSUME NEW p \in Participants, Count(p) \/ Reset(p) PROVE UNCHANGED <<arrived, left>>
  BY <1>3 DEF Count, Reset
<1>4. \A q \in Participants : arrived[q] \in {gen, gen + 1}
  BY DEF IInv, TypeOK, Place, PCs
<1>5. ASSUME NEW p \in Participants, Release(p) PROVE Team!Leave(p)
  <2>1. arrived[p] = gen + 1 /\ left[p] = gen
    BY <1>5 DEF IInv, Place, Release
  <2>2. \A q \in Participants : arrived[q] = gen + 1
    BY <1>5, <2>1 DEF IInv, Place, Alone, Release
  <2> QED
    BY <1>5, <2>1, <2>2 DEF IInv, TypeOK, Release, Return, Team!Leave
<1>6. ASSUME NEW p \in Participants, Wake(p) PROVE Team!Leave(p)
  <2>1. arrived[p] = gen /\ left[p] + 1 = gen
    BY <1>6 DEF IInv, Place, Wake
  <2> QED
    BY <1>4, <1>6, <2>1 DEF IInv, TypeOK, Wake, Return, Team!Leave
<1> QED
  BY <1>1, <1>2, <1>3, <1>5, <1>6 DEF Next, Step, Terminated, vars, Team!Next

\* The centralized barrier implements the barrier of a team, for every team: when
\* barrier() returns, all participants have reached it.
THEOREM Refinement == Spec => ImplementsBarrier
<1>1. Init => Team!Init
  BY DEF Init, Team!Init
<1>2. IInv /\ [Next]_vars => [Team!Next]_<<arrived, left>>
  BY StepRefines
<1> QED
  BY <1>1, <1>2, Invariance, PTL DEF Spec, ImplementsBarrier, Team!Spec
=============================================================================
