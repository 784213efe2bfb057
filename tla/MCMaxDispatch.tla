--------------------------- MODULE MCMaxDispatch ----------------------------
(***************************************************************************)
(* Instances of MaxDispatch for TLC: the programs to run.                  *)
(***************************************************************************)
EXTENDS MaxDispatch

\* A task on device dev that takes its commutative slots in the order ss and accesses the
\* other addresses as x says.
T(dev, ss, x) ==
  [dev |-> dev, slots |-> ss,
   acc |-> [a \in Addr |-> IF a \in RangeOf(ss) THEN Commutative
                           ELSE IF a \in DOMAIN x THEN x[a] ELSE None]]
On(a, mode) == [b \in {a} |-> mode]
No == [b \in {} |-> None]

Mixed == {
  \* the same slots in both orders
  <<T("smp", <<1, 2>>, No), T("max", <<2, 1>>, No), T("smp", <<2, 1>>, No)>>,
  \* a task that gets its first slot and not its second
  <<T("max", <<1>>, No), T("smp", <<2, 1>>, No), T("smp", <<2>>, No)>>,
  \* an immediate successor and a ready task, each with a slot the other needs
  <<T("smp", <<>>, On(3, Out)), T("smp", <<1, 2>>, On(3, In)), T("max", <<2, 1>>, No)>>,
  \* two immediate successors, the first of which may have to be passed over
  <<T("smp", <<>>, On(3, Out)), T("smp", <<1>>, On(3, In)), T("smp", <<>>, On(3, In)),
    T("max", <<1>>, No)>>,
  \* a chain from thread to device and back
  <<T("smp", <<>>, On(3, Out)), T("max", <<>>, On(3, InOut)), T("smp", <<>>, On(3, In)),
    T("max", <<>>, On(3, Out))>>,
  \* two runs in flight that release one task
  <<T("max", <<>>, On(1, Out)), T("max", <<>>, On(2, Out)),
    T("smp", <<>>, [b \in {1, 2} |-> In])>>,
  \* the same on two engines, with a slot that the second one needs to run
  <<T("max", <<3>>, On(1, Out)), T("max2", <<3>>, On(2, Out)),
    T("smp", <<>>, [b \in {1, 2} |-> In]), T("max2", <<>>, On(1, In))>>,
  \* two threads that finish the predecessors of one task
  <<T("smp", <<>>, On(1, Out)), T("smp", <<>>, On(2, Out)),
    T("smp", <<3>>, [b \in {1, 2} |-> In])>>}

TwoEngines == <<"max", "max2">>

\* A task for each engine.
OneEach == {<<T("max", <<>>, No), T("max2", <<>>, No)>>}
=============================================================================
