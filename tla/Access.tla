------------------------------- MODULE Access -------------------------------
(***************************************************************************)
(* Data accesses of a task (core/nanos-int.h, nanos_access_type_internal_t)*)
(* and what two accesses to one address mean for the order of their tasks. *)
(*                                                                         *)
(* The flags input, output, concurrent and commutative of the C structure  *)
(* are one of five modes here: plain_deps.cpp asserts that concurrent and  *)
(* commutative are exclusive and come with input and output set.           *)
(***************************************************************************)
CONSTANT Addr       \* the addresses tasks name in their dependence clauses

None == "none"      \* the task does not name the address
In == "in"
Out == "out"
InOut == "inout"
Concurrent == "concurrent"
Commutative == "commutative"

\* The modes that make the runtime open a group behind a CommutationDO.
GroupModes == {Concurrent, Commutative}
WriteModes == {Out, InOut}
Modes == {In, Out, InOut} \cup GroupModes

\* What one task declares: at most one access for each address.
Accesses == [Addr -> Modes \cup {None}]
NoAccess == [a \in Addr |-> None]
Touched(acc) == {a \in Addr : acc[a] # None}

\* Two accesses to one address order their tasks unless both only read it or
\* both belong to the same kind of group.
ModesConflict(m, n) ==
  /\ m # None /\ n # None
  /\ ~ (m = n /\ m \in {In} \cup GroupModes)

Conflict(x, y) == \E a \in Addr : ModesConflict(x[a], y[a])

\* Members of a commutative group run in any order but one at a time.
Excludes(x, y) == \E a \in Addr : x[a] = Commutative /\ y[a] = Commutative
=============================================================================
