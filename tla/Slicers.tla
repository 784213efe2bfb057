------------------------------ MODULE Slicers -------------------------------
(***************************************************************************)
(* The slicers of plugins/slicers: a loop of an OmpSs program, unless its  *)
(* schedule asks for the plugins of Worksharing, and the sections and      *)
(* repetitions of the API are one work descriptor that a slicer splits.    *)
(* static_for ties a slice to every thread; dynamic_for, guided_for,       *)
(* compound_wd and repeat_n stay in the ready queue and give a slice to    *)
(* every thread that asks.  They share the threads, the queues and the     *)
(* taskwait of Worksharing, and a program may use both.                    *)
(*                                                                         *)
(* Sections and repetitions are the iterations 0 .. upper of a loop.       *)
(***************************************************************************)
EXTENDS Worksharing

VARIABLE nli   \* what the work descriptor of a loop in the ready queue still offers

allVars == <<vars, nli>>

SlicerInit ==
  /\ Init
  /\ nli = [l \in Loops |-> [lower |-> 0, upper |-> 0, chunk |-> 0]]

\* A thread that executes the iterations lower .. upper, in chunks that are stride apart
\* when the slice is static.
Slice(l, lower, upper, chunk, stride) ==
  [loop |-> l, d |-> <<"slice", lower, upper, chunk, stride>>]

Beyond(a, b, step) == a * Sign(step) > b * Sign(step)
AfterSubmit == IF prog.nowait THEN "create" ELSE "wait"

\* submit() of the slicers that stay in the ready queue.
SubmitSliced(t) ==
  LET i == Info(t) IN
  /\ Creating(t) /\ i.policy \in SlicerPolicies \ {"static_for"}
  /\ nli' = [nli EXCEPT ![at[t]] =
               [lower |-> i.lower, upper |-> i.upper, chunk |-> Max2(i.chunk, 1)]]
  /\ pool' = Append(pool, [loop |-> at[t], d |-> Sliced])
  /\ at' = [at EXCEPT ![t] = @ + 1]
  /\ Goto(t, AfterSubmit)
  /\ UNCHANGED <<prog, work, desc, linked, pos, singleGuard, mySingle, nextWDs, elected,
                 done, again, lastpriv>>

\* The upper bound of the chunk that dequeue() cuts off.  A guided chunk is one iteration
\* longer than the chunk that was computed.
CutAt(policy, i, step) ==
  IF policy = "dynamic_for" THEN i.lower + i.chunk * step - step
  ELSE LET niters == CDiv(i.upper - i.lower, step) + 1
       IN  i.lower + Max2(CDiv(niters, 2 * N), i.chunk) * step

\* Nothing is left behind that cut: the work descriptor itself is the slice.
LastCut(i, upper, step) ==
  Beyond(i.lower, i.upper, step) \/ ~ Beyond(i.upper, upper, step)

\* A thread asks the slicer of the first work descriptor, under the lock of the queue.
TakeSlice(t) ==
  LET l == Head(pool).loop
      step == prog.loops[l].step
      policy == prog.loops[l].policy
      i == nli[l]
      upper == CutAt(policy, i, step)
  IN
  /\ pc[t] = "wait" /\ nextWDs[t] = <<>>
  /\ pool # <<>> /\ Head(pool).d = Sliced /\ policy \in {"dynamic_for", "guided_for"}
  /\ IF LastCut(i, upper, step)
     THEN /\ work' = [work EXCEPT ![t] = Slice(l, i.lower, i.upper, 0, 0)]
          /\ pool' = Tail(pool) /\ nli' = nli
     ELSE /\ work' = [work EXCEPT ![t] = Slice(l, i.lower, upper, 0, 0)]
          /\ nli' = [nli EXCEPT ![l].lower = upper + step] /\ pool' = pool
  /\ Goto(t, "slice")
  /\ UNCHANGED <<prog, at, desc, linked, pos, singleGuard, mySingle, nextWDs, elected, done,
                 again, lastpriv>>

\* The same for sections and repetitions, which are handed out from the last to the first.
\* A compound work descriptor may be serialized whenever its options say so.
TakeSection(t) ==
  LET l == Head(pool).loop
      n == nli[l].upper
      policy == prog.loops[l].policy
  IN
  /\ pc[t] = "wait" /\ nextWDs[t] = <<>>
  /\ pool # <<>> /\ Head(pool).d = Sliced /\ policy \in {"compound_wd", "repeat_n"}
  /\ \/ /\ n = 0 \/ policy = "compound_wd"
        /\ work' = [work EXCEPT ![t] = Slice(l, 0, n, 0, 0)]
        /\ pool' = Tail(pool) /\ nli' = nli
     \/ /\ n > 0
        /\ work' = [work EXCEPT ![t] = Slice(l, n, n, 0, 0)]
        /\ nli' = [nli EXCEPT ![l].upper = n - 1] /\ pool' = pool
  /\ Goto(t, "slice")
  /\ UNCHANGED <<prog, at, desc, linked, pos, singleGuard, mySingle, nextWDs, elected, done,
                 again, lastpriv>>

\* The work function of such a slice.  The slicer never assigns nli.last.
RunSlice(t) ==
  LET w == work[t] IN
  /\ pc[t] = "slice" /\ prog.loops[w.loop].policy # "static_for"
  /\ \E junk \in BOOLEAN : Execute(w.loop, [lower |-> w.d[2], upper |-> w.d[3], last |-> junk])
  /\ work' = [work EXCEPT ![t] = NoWork]
  /\ Goto(t, "wait")
  /\ UNCHANGED <<prog, at, desc, linked, pos, singleGuard, mySingle, nextWDs, pool, elected, nli>>

\* The slice of thread u in a static loop: one block, or interleaved chunks.
StaticSlice(l, u) ==
  LET i      == prog.loops[l]
      n      == NIters(i)
      adjust == CRem(n, N)
      block  == CDiv(n, N) * i.step
      first  == Cardinality({j \in 0 .. u - 1 : adjust > j})
      offset == i.chunk * i.step
  IN  IF i.chunk = 0
      THEN Slice(l, i.lower + block * u + first * i.step, i.upper,
                 block + (IF adjust > u THEN i.step ELSE 0), n * i.step)
      ELSE Slice(l, i.lower + u * offset, i.upper, offset, offset * N)

\* No empty slices when there are chunks, except the first one.
HasSlice(i, u) == u = 0 \/ i.chunk = 0 \/ ~ Beyond(i.lower + u * i.chunk * i.step, i.upper, i.step)

\* SlicerStaticFor::submit: the creator executes the first slice at once.
SubmitStatic(t) ==
  LET l == at[t] IN
  /\ Creating(t) /\ Info(t).policy = "static_for"
  /\ nextWDs' = [u \in Threads |-> IF u # t /\ HasSlice(Info(t), u)
                                   THEN Append(nextWDs[u], StaticSlice(l, u)) ELSE nextWDs[u]]
  /\ work' = [work EXCEPT ![t] = StaticSlice(l, t)]
  /\ at' = [at EXCEPT ![t] = @ + 1]
  /\ Goto(t, "inline")
  /\ UNCHANGED <<prog, desc, linked, pos, singleGuard, mySingle, pool, elected, done, again,
                 lastpriv, nli>>

\* One chunk of staticLoop, or its end.
StaticLoop(t) ==
  LET w     == work[t]
      step  == prog.loops[w.loop].step
      lower == w.d[2]
      upper == w.d[3]
      top   == lower + w.d[4] - Sign(step)
      last  == ~ Beyond(upper, top, step)
  IN
  /\ pc[t] \in {"slice", "inline"} /\ prog.loops[w.loop].policy = "static_for"
  /\ \/ /\ ~ Beyond(lower, upper, step)
        /\ Execute(w.loop, [lower |-> lower, upper |-> IF last THEN upper ELSE top, last |-> last])
        /\ work' = [work EXCEPT ![t] = Slice(w.loop, lower + w.d[5], upper, w.d[4], w.d[5])]
        /\ pc' = pc
     \/ /\ Beyond(lower, upper, step)
        /\ work' = [work EXCEPT ![t] = NoWork]
        /\ Goto(t, IF pc[t] = "inline" THEN AfterSubmit ELSE "wait")
        /\ UNCHANGED <<done, again, lastpriv>>
  /\ UNCHANGED <<prog, at, desc, linked, pos, singleGuard, mySingle, nextWDs, pool, elected, nli>>

SlicerStep(t) ==
  \/ SubmitSliced(t) \/ TakeSlice(t) \/ TakeSection(t) \/ RunSlice(t)
  \/ SubmitStatic(t) \/ StaticLoop(t)

ThreadStep(t) == (Step(t) /\ UNCHANGED nli) \/ SlicerStep(t)

SlicerNext == (\E t \in Threads : ThreadStep(t)) \/ (Terminated /\ UNCHANGED nli)

SlicerSpec == SlicerInit /\ [][SlicerNext]_allVars

\* Every thread of the team keeps running.
FairSlicerSpec == SlicerSpec /\ \A t \in Threads : WF_allVars(ThreadStep(t))
=============================================================================
