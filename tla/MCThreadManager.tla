-------------------------- MODULE MCThreadManager ---------------------------
(***************************************************************************)
(* Instances of ThreadManager for TLC: threads on two CPUs, and what the   *)
(* main WD may do in each program.                                         *)
(***************************************************************************)
EXTENDS ThreadManager

CONSTANT N

NThreads == 0 .. N - 1
\* The last thread shares the CPU of the first when there are three.
Oversubscribed == [t \in Threads |-> t % 2]
Setup(untied, masks, sizes, ties, forks, tasks) ==
  [untied |-> untied, masks |-> masks, sizes |-> sizes, ties |-> ties, forks |-> forks,
   tasks |-> tasks]
Masks == SUBSET Cpus \ {{}}
Sizes == {1, Cardinality(Threads)}

\* Tied tasks; a main WD that stays on its thread and changes the team, in one way; or
\* tasks that release several others at once.
PassSetups == {Setup(u, {}, {}, {1}, FALSE, 2) : u \in BOOLEAN}
              \cup {Setup(FALSE, Masks, {}, {}, FALSE, 2), Setup(FALSE, {}, Sizes, {}, FALSE, 2),
                    Setup(FALSE, {}, {}, {}, TRUE, 4)}
\* A main WD that moves and changes the mask.
MaskSetups == {Setup(TRUE, Masks, {}, {}, FALSE, 1)}
\* A task releases several that are tied to threads.
BatchSetups == {Setup(FALSE, {}, {}, {1, 2}, TRUE, 3)}

\* Where a task may have several successors, all the others come after the first task.
InProgram ==
  setup.forks /\ Len(after') > Len(after) /\ after # <<>> => after'[Len(after')] = 1

Programs == Init /\ [][Next /\ InProgram]_vars /\ \A t \in Threads : WF_vars(Step(t))
=============================================================================
