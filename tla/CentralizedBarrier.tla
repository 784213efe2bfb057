------------------------- MODULE CentralizedBarrier -------------------------
(***************************************************************************)
(* The centralized barrier (plugins/barr/centralized_barrier.cpp): one     *)
(* counter and one flag that changes sense at each episode.  The wait of a *)
(* MultipleSyncCond is modelled by what it promises: it returns once the   *)
(* flag has the value waited for.                                          *)
(***************************************************************************)
EXTENDS Naturals, FiniteSets

CONSTANTS Participants, Episodes   \* Episodes bounds the calls of each participant

ASSUME ParticipantsAssumption == IsFiniteSet(Participants) /\ Participants # {}
ASSUME EpisodesAssumption == Episodes \in Nat

VARIABLES
  sem, flag,       \* _sem and _flag
  pc,              \* where a participant is in barrier()
  sense,           \* the value of _flag its call read
  arrived, left,   \* history: calls and returns of each participant
  gen              \* history: times the flag has changed

vars == <<sem, flag, pc, sense, arrived, left, gen>>

numParticipants == Cardinality(Participants)
PCs == {"out", "count", "last", "release", "wait"}

Init ==
  /\ sem = 0 /\ flag = FALSE
  /\ pc = [p \in Participants |-> "out"]
  /\ sense = [p \in Participants |-> FALSE]
  /\ arrived = [p \in Participants |-> 0] /\ left = [p \in Participants |-> 0]
  /\ gen = 0

Goto(p, l) == pc' = [pc EXCEPT ![p] = l]

\* The call, and the test of _flag that chooses the branch.
ReadFlag(p) ==
  /\ pc[p] = "out" /\ arrived[p] < Episodes
  /\ arrived' = [arrived EXCEPT ![p] = @ + 1]
  /\ sense' = [sense EXCEPT ![p] = flag]
  /\ Goto(p, "count")
  /\ UNCHANGED <<sem, flag, left, gen>>

\* Mutant of IsLast: one participant too early.
IsLastEarly(val) == val + 1 = numParticipants

IsLast(val) == val = numParticipants

\* val = ++_sem
Count(p) ==
  /\ pc[p] = "count"
  /\ sem' = sem + 1
  /\ Goto(p, IF IsLast(sem + 1) THEN "last" ELSE "wait")
  /\ UNCHANGED <<flag, sense, arrived, left, gen>>

\* Mutant of SemAfterReset: the counter keeps its value.
SemKept == sem

SemAfterReset == 0

\* The last participant: computeVectorReductions, then _sem = 0.
Reset(p) ==
  /\ pc[p] = "last"
  /\ sem' = SemAfterReset
  /\ Goto(p, "release")
  /\ UNCHANGED <<flag, sense, arrived, left, gen>>

Return(p) ==
  /\ Goto(p, "out")
  /\ left' = [left EXCEPT ![p] = @ + 1]

\* _flag takes the other value, the waiters are signalled and barrier() returns.
Release(p) ==
  /\ pc[p] = "release"
  /\ flag' = ~ sense[p]
  /\ gen' = gen + 1
  /\ Return(p)
  /\ UNCHANGED <<sem, sense, arrived>>

\* wait() finds the flag changed and barrier() returns.
Wake(p) ==
  /\ pc[p] = "wait" /\ flag # sense[p]
  /\ Return(p)
  /\ UNCHANGED <<sem, flag, sense, arrived, gen>>

Step(p) == ReadFlag(p) \/ Count(p) \/ Reset(p) \/ Release(p) \/ Wake(p)

Terminated == (\A p \in Participants : left[p] = Episodes) /\ UNCHANGED vars

Next == (\E p \in Participants : Step(p)) \/ Terminated

Spec == Init /\ [][Next]_vars

\* Every participant keeps running and calls barrier() Episodes times.
FairSpec == Spec /\ \A p \in Participants : WF_vars(Step(p))
-----------------------------------------------------------------------------

\* Types; _sem never counts more than the participants.
TypeOK ==
  /\ sem \in 0 .. numParticipants /\ flag \in BOOLEAN /\ gen \in Nat
  /\ pc \in [Participants -> PCs]
  /\ sense \in [Participants -> BOOLEAN]
  /\ arrived \in [Participants -> Nat] /\ left \in [Participants -> Nat]

\* computeVectorReductions runs while every participant is inside this same episode
\* and blocked: nobody has returned from it, nobody is still on the way out of the
\* previous one.
ReductionsAlone ==
  \A p \in Participants : pc[p] = "last" =>
    \A q \in Participants \ {p} :
      pc[q] = "wait" /\ arrived[q] = arrived[p] /\ left[q] = left[p]

Team == INSTANCE TeamBarrier

\* barrier() returns only after all participants reached it, in every episode: the
\* one counter and the one flag keep successive episodes apart.
ImplementsBarrier == Team!Spec

\* Every participant gets through all its barriers: no arrival is lost between the
\* reset of the counter and the change of the flag.
EveryoneThrough == <>(\A p \in Participants : left[p] = Episodes)
=============================================================================
