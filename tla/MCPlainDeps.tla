---------------------------- MODULE MCPlainDeps -----------------------------
(***************************************************************************)
(* Instances of PlainDeps for TLC: the menus from which the parent picks   *)
(* the accesses of the tasks it creates and of the waits it enters.        *)
(***************************************************************************)
EXTENDS PlainDeps

\* Exactly one access, to address 1, in the modes of M.
Single(M) == {x \in Accesses : Touched(x) = {1} /\ x[1] \in M}

\* Accesses to the addresses 1 and 2 at once.
Pair(m, n) == [a \in Addr |-> IF a = 1 THEN m ELSE n]
Pairs == {Pair(Commutative, Commutative), Pair(InOut, Concurrent)}

TaskAccesses == Single(Modes) \cup Pairs
WaitAccesses == Single({In, InOut}) \cup {Pair(In, In)}

\* Nothing is registered in the domain.
Clear == GroupsClosed /\ \A a \in Addr : lastWriter[a] = NULL /\ readers[a] = {}

IsPair(x) == Cardinality(Touched(x)) = 2

\* A program whose first access was to both addresses.
Paired == tasks > 0 /\ IsPair(acc[1])

\* The modes of the n-th access to address 1 alone.  In an empty domain an output acts like
\* an inout, a concurrent access like a commutative one, and a wait returns at once; a group
\* closes another kind of group from the second access on.
ModesOf(n) == CASE n = 1 -> {In, InOut, Commutative}
                [] n = 2 -> Modes
                [] n = 3 -> Modes \ {Concurrent}

\* A program accesses address 1 alone, three times, or both addresses at once: twice, and
\* once more after a taskwait, unless its tasks are gone by then.
InProgram ==
  /\ tasks' > tasks =>
       LET x == acc'[lastDepObjId'] IN
       /\ tasks > 0 => (IsPair(x) <=> Paired)
       /\ IsPair(x) \/ (x[1] \in ModesOf(tasks') /\ (tasks > 0 \/ kind'[lastDepObjId'] = "submit"))
       /\ Paired /\ tasks = 2 => Clear
  /\ tasks \in TaskWaitAfter /\ TaskWait => Paired /\ ~Clear

Programs == Init /\ [][Next /\ InProgram]_vars /\ Fairness
=============================================================================
