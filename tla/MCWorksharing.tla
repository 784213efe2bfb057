--------------------------- MODULE MCWorksharing ----------------------------
(***************************************************************************)
(* Instances of Worksharing and Slicers for TLC: the programs to run.       *)
(***************************************************************************)
EXTENDS Slicers

For(policy, lower, upper, step, chunk) ==
  [policy |-> policy, lower |-> lower, upper |-> upper, step |-> step, chunk |-> chunk]
Program(mode, nowait, loops) == [mode |-> mode, nowait |-> nowait, loops |-> loops]

\* Upwards from 0 and downwards from 3: no iteration, fewer than threads, one or several
\* rounds of chunks, with a bound that the step reaches or steps over.
Shapes == {For(p, 0, u, s, c) : p \in Policies, u \in {-1, 0, 4, 7}, s \in {1, 3}, c \in {0, 2}}
            \cup {For(p, 3, u, s, c) : p \in Policies, u \in {4, 3, -1}, s \in {-1, -2}, c \in {0, 2}}

Lone == {Program("omp", TRUE, <<l>>) : l \in Shapes}

\* Programs of two loops, of every policy.
A == For("dynamic", 0, 4, 1, 2)
B == For("guided", 3, -1, -1, 0)
C == For("static", 0, 4, 1, 0)
D == For("static", 1, 6, 2, 1)

Pairs == {<<A, B>>, <<B, C>>, <<C, A>>, <<D, C>>}

OpenMP == {Program("omp", n, ls) : n \in BOOLEAN, ls \in Pairs}
OmpSs == {Program("ompss", FALSE, ls) : ls \in Pairs}
           \cup {Program("ompss", TRUE, ls) : ls \in {<<A, B>>, <<B, C>>, <<A, A>>}}

\* Wide enough for an item that leaves its loop.
Window == -4 .. 10

\* The same shapes through the slicers, sections and repetitions, and programs that mix
\* slicers and plugins.
Cut == {[l EXCEPT !.policy = p] : l \in {k \in Shapes : k.policy = "static"},
                                  p \in {"static_for", "dynamic_for", "guided_for"}}
         \cup {For(p, 0, u, 1, 0) : p \in {"compound_wd", "repeat_n"}, u \in {0, 3}}

E == For("static_for", 0, 4, 1, 0)
F == For("dynamic_for", 3, -1, -1, 2)

Slicing == {Program("ompss", FALSE, <<l>>) : l \in Cut}
             \cup {Program("ompss", TRUE, ls) : ls \in {<<E, A>>, <<F, E>>, <<A, F>>}}

Everything == Lone \cup OpenMP \cup OmpSs \cup Slicing

\* A static loop without a taskwait, followed by another of the same kind.
StaticNowait == {Program("ompss", TRUE, <<C, For("static", 5, 7, 1, 0)>>)}
=============================================================================
