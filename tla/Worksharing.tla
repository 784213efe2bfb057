---------------------------- MODULE Worksharing -----------------------------
(***************************************************************************)
(* Loops shared by the threads of a team: the static, dynamic and guided   *)
(* worksharing plugins (plugins/worksharing), the team's list of           *)
(* descriptors (TeamData::getTeamWorkSharingDescriptor), the replicate     *)
(* slicer and the code Mercurium emits for a loop.  In an OpenMP program   *)
(* every thread of the team creates every loop and takes items from it; in *)
(* an OmpSs program thread 0 alone creates the loop and submits a work     *)
(* descriptor whose slices the team executes.  The other slicers are in    *)
(* module Slicers, which extends this one.                                 *)
(*                                                                         *)
(* An item and the iterations of its body are one step.  The team keeps    *)
(* its size, and the bounds stay far from the limits of int64_t.           *)
(***************************************************************************)
EXTENDS Integers, FiniteSets, Sequences

CONSTANTS
  N,         \* threads of the team, getFinalSize()
  Programs,  \* the programs to run, see ProgramsAssumption
  Space      \* the integers the history counts executions for

Threads == 0 .. N - 1    \* by getTeamId()

\* The plugins of this module, and the slicers of module Slicers.
Policies == {"static", "dynamic", "guided"}
SlicerPolicies == {"static_for", "dynamic_for", "guided_for", "compound_wd", "repeat_n"}
LoopInfos == [policy : Policies \cup SlicerPolicies, lower : Int, upper : Int, step : Int \ {0}, chunk : Nat]

ASSUME NAssumption == N \in Nat \ {0}
ASSUME SpaceAssumption == Space \subseteq Int /\ IsFiniteSet(Space)
ASSUME ProgramsAssumption ==
  \A p \in Programs : /\ p.mode \in {"omp", "ompss"} /\ p.nowait \in BOOLEAN
                      /\ p.loops # <<>> /\ p.loops \in Seq(LoopInfos)
                      /\ \A l \in DOMAIN p.loops : p.loops[l].policy \in SlicerPolicies =>
                           p.mode = "ompss"

VARIABLES
  prog,        \* the program running
  at,          \* the loop a thread is in, or creates next
  pc,          \* where a thread is
  work,        \* the loop and the descriptor a thread takes items from
  desc,        \* what each descriptor points to
  linked,      \* descriptors in the team's list
  pos,         \* TeamData::_wsDescriptor as a position in that list, 0 for NULL
  singleGuard, \* ThreadTeam::_singleGuardCount
  mySingle,    \* TeamData::_singleCount
  nextWDs,     \* slices tied to a thread, BaseThread::_nextWDs
  pool,        \* replicate work descriptors in the ready queue
  elected,     \* history: how many create() returned true, by loop
  done, again, \* history: the iterations executed, and those executed again, by loop
  lastpriv     \* the lastprivate variable of each loop: {} or {the iteration it comes from}

vars == <<prog, at, pc, work, desc, linked, pos, singleGuard, mySingle, nextWDs, pool,
          elected, done, again, lastpriv>>

Loops == DOMAIN prog.loops
NoWork == [loop |-> 0, d |-> <<"none">>]

\* A descriptor of the team's list, a thread's own, and a copy made by duplicateWS.
Team(k) == <<"team", k>>
Local(t) == <<"local", t>>
Copy(l, t) == <<"copy", l, t>>
Sliced == <<"sliced">>   \* none: a work descriptor of module Slicers

Descriptors == {Team(k) : k \in Loops} \cup {Local(t) : t \in Threads}
                 \cup {Copy(l, t) : l \in Loops, t \in Threads}

\* nanos_ws_desc_t with its WorkSharingLoopInfo, before create() fills it.
Empty == [ws |-> FALSE, lower |-> 0, upper |-> 0, step |-> 1, chunk |-> 0,
          chunks |-> 0, current |-> 0]

Max2(a, b) == IF a > b THEN a ELSE b
Abs(a) == IF a < 0 THEN -a ELSE a
Sign(a) == IF a < 0 THEN -1 ELSE 1

\* Division and remainder of C, which truncate towards zero.
CDiv(a, b) == Sign(a) * Sign(b) * (Abs(a) \div Abs(b))
CRem(a, b) == a - b * CDiv(a, b)

\* niters, for a loop or for what is left of one in its descriptor
NIters(i) == CDiv(i.upper - i.lower, i.step) + 1

\* The iterations of for (i = lower; i <= upper; i += step), with >= when step < 0.
Iterations(lower, upper, step) ==
  {i \in Space : /\ lower * Sign(step) <= i * Sign(step)
                 /\ i * Sign(step) <= upper * Sign(step)
                 /\ (i - lower) % Abs(step) = 0}

LoopSpace(l) == LET i == prog.loops[l] IN Iterations(i.lower, i.upper, i.step)
-----------------------------------------------------------------------------

(***************************************************************************)
(* The arithmetic of the plugins.                                          *)
(***************************************************************************)

\* The chunk a guided loop hands out when n iterations are left.
GUIDED_FACTOR == 2
GuidedSize(n, chunk) == Max2(CDiv(n, N * GUIDED_FACTOR), chunk)

\* niters after k chunks of a guided loop of n iterations
GuidedLeft(n, chunk) ==
  LET rest == [m \in Int |-> m - GuidedSize(m, chunk)]
      left[k \in Nat] == IF k = 0 THEN n ELSE rest[left[k - 1]]
  IN  left

\* Mutant of NumOfChunks: the remainder of the division gets no chunk of its own.
NumOfChunksFloor(policy, n, chunk) ==
  IF policy = "dynamic" THEN CDiv(n, chunk)
  ELSE CHOOSE k \in 0 .. Max2(n, 0) :
         GuidedLeft(n, chunk)[k] <= 0 /\ \A j \in 0 .. k - 1 : GuidedLeft(n, chunk)[j] > 0

NumOfChunks(policy, n, chunk) ==
  IF policy = "dynamic" THEN CDiv(n, chunk) + (IF CRem(n, chunk) # 0 THEN 1 ELSE 0)
  ELSE CHOOSE k \in 0 .. Max2(n, 0) :
         GuidedLeft(n, chunk)[k] <= 0 /\ \A j \in 0 .. k - 1 : GuidedLeft(n, chunk)[j] > 0

\* The descriptor as the elected thread of a dynamic or guided loop initialises it.
SharedData(i) ==
  LET chunk == Max2(i.chunk, 1)
  IN  [Empty EXCEPT !.lower = i.lower, !.upper = i.upper, !.step = i.step,
                    !.chunk = chunk, !.chunks = NumOfChunks(i.policy, NIters(i), chunk)]

NoItem == [execute |-> FALSE, lower |-> 0, upper |-> 0, last |-> FALSE]

\* nextItem of the dynamic and guided plugins, for the chunk numbered k.  They never
\* assign item.last, which keeps what the caller's stack held.
SharedItem(policy, d, k, junk) ==
  LET left  == GuidedLeft(NIters(d), d.chunk)[k]
      first == IF policy = "dynamic" THEN d.chunk * k ELSE NIters(d) - left
      size  == IF policy = "dynamic" THEN d.chunk ELSE GuidedSize(left, d.chunk)
      lower == d.lower + first * d.step
      upper == lower + size * d.step - d.step
  IN  [execute |-> TRUE, lower |-> lower, last |-> junk,
       upper |-> IF upper * d.step > d.upper * d.step THEN d.upper ELSE upper]

\* Mutant of StaticShare: the iterations left over go to the thread after the one they
\* were counted for.
StaticShareShifted(d, t) ==
  LET adjust == CRem(NIters(d), N)
      schunk == (CDiv(NIters(d), N) - 1) * d.step
      lower  == d.lower + (schunk + d.step) * t + (IF adjust > t THEN t ELSE adjust) * d.step
  IN  [lower |-> lower, upper |-> lower + schunk + (IF adjust >= t THEN d.step ELSE 0)]

\* The block of consecutive iterations of thread t in a static loop without chunks.
StaticShare(d, t) ==
  LET adjust == CRem(NIters(d), N)
      schunk == (CDiv(NIters(d), N) - 1) * d.step
      lower  == d.lower + (schunk + d.step) * t + (IF adjust > t THEN t ELSE adjust) * d.step
  IN  [lower |-> lower, upper |-> lower + schunk + (IF adjust > t THEN d.step ELSE 0)]

\* Mutant of IsLast: the end of the loop is recognised by the bound of the for statement.
IsLastPast(upper, d) == upper * Sign(d.step) > d.upper * Sign(d.step)

\* The test that sets item.last: of equality in a block, of reach in a chunk.
IsLast(upper, d) ==
  IF d.chunk = 0 THEN upper = d.upper ELSE upper * Sign(d.step) >= d.upper * Sign(d.step)

\* nextItem of the static plugin for thread t.
StaticItem(d, t) ==
  LET s     == Sign(d.step)
      lower == d.lower + d.chunk * d.step * t
      upper == lower + d.chunk * d.step - d.step
      block == IF d.chunk = 0 THEN StaticShare(d, t) ELSE [lower |-> lower, upper |-> upper]
      last  == IsLast(block.upper, d)
      top   == IF last THEN d.upper ELSE block.upper
  IN  IF d.lower * s > d.upper * s
      THEN NoItem
      ELSE [execute |-> block.lower * s <= top * s,
            lower |-> block.lower, upper |-> top, last |-> last]

\* Mutant of StaticRest: the descriptor still offers the share that was taken.
StaticRestKept(d) == d

\* What that call leaves in the descriptor: the loop starts after the thread's share.
StaticRest(d) ==
  IF d.lower * Sign(d.step) > d.upper * Sign(d.step) THEN d
  ELSE [d EXCEPT !.lower = IF d.chunk = 0 THEN d.upper + d.step
                           ELSE d.lower + d.chunk * d.step * N]
-----------------------------------------------------------------------------

Init ==
  /\ prog \in Programs
  /\ at = [t \in Threads |-> 1]
  /\ pc = [t \in Threads |-> IF prog.mode = "omp" \/ t = 0 THEN "create" ELSE "wait"]
  /\ work = [t \in Threads |-> NoWork]
  /\ desc = [d \in Descriptors |-> Empty]
  /\ linked = 0 /\ pos = [t \in Threads |-> 0]
  /\ singleGuard = 0 /\ mySingle = [t \in Threads |-> 0]
  /\ nextWDs = [t \in Threads |-> <<>>] /\ pool = <<>>
  /\ elected = [l \in Loops |-> 0]
  /\ done = [l \in Loops |-> {}] /\ again = [l \in Loops |-> {}]
  /\ lastpriv = [l \in Loops |-> {}]

Goto(t, l) == pc' = [pc EXCEPT ![t] = l]
Info(t) == prog.loops[at[t]]
Creating(t) == pc[t] = "create" /\ at[t] <= Len(prog.loops)
Elect(t, single) ==
  elected' = IF single THEN [elected EXCEPT ![at[t]] = @ + 1] ELSE elected

\* create() returns the descriptor d: an OpenMP thread takes items from it, the OmpSs
\* creator hands it to the work descriptor that it submits.
Created(t, d) ==
  /\ work' = [work EXCEPT ![t] = [loop |-> at[t], d |-> d]]
  /\ Goto(t, IF prog.mode = "omp" THEN "items" ELSE "submit")

\* Mutant of Single: the thread compares with a guard that it has not advanced.
SingleStale(local) == singleGuard = local

\* ThreadTeam::singleGuard(local): the compare-and-swap from local - 1 to local.
Single(local) == singleGuard = local - 1

\* WorkSharingStaticFor::create, which fills the thread's own descriptor.
CreateStatic(t) ==
  LET i == Info(t) IN
  /\ Creating(t) /\ i.policy = "static"
  /\ desc' = [desc EXCEPT ![Local(t)] =
                [Empty EXCEPT !.ws = TRUE, !.lower = i.lower, !.upper = i.upper,
                              !.step = i.step, !.chunk = i.chunk]]
  /\ mySingle' = [mySingle EXCEPT ![t] = @ + 1]
  /\ singleGuard' = IF Single(mySingle'[t]) THEN mySingle'[t] ELSE singleGuard
  /\ Elect(t, Single(mySingle'[t]))
  /\ Created(t, Local(t))
  /\ UNCHANGED <<prog, at, linked, pos, nextWDs, pool, done, again, lastpriv>>

\* Mutant of LinkedWith: the new descriptor is not stored in the list.
LinkedWithout(single) == linked

LinkedWith(single) == IF single THEN linked + 1 ELSE linked

\* getTeamWorkSharingDescriptor: take the next descriptor of the team's list, or append
\* it; the thread whose compare-and-swap appends it is the one elected.  The loops are those
\* of implicit WDs, the main one or one of a parallel region: a loop inside an explicit task
\* has a descriptor of its own.
Link(t) ==
  LET single == linked = pos[t] IN
  /\ Creating(t) /\ Info(t).policy \in {"dynamic", "guided"}
  /\ pos' = [pos EXCEPT ![t] = @ + 1]
  /\ linked' = LinkedWith(single)
  /\ Elect(t, single)
  /\ Goto(t, IF single THEN "init" ELSE "spin")
  /\ UNCHANGED <<prog, at, work, desc, singleGuard, mySingle, nextWDs, pool, done, again, lastpriv>>

InitLoop(t) ==
  /\ pc[t] = "init"
  /\ desc' = [desc EXCEPT ![Team(pos[t])] = SharedData(Info(t))]
  /\ Goto(t, "publish")
  /\ UNCHANGED <<prog, at, work, linked, pos, singleGuard, mySingle, nextWDs, pool,
                 elected, done, again, lastpriv>>

\* (*wsd)->ws = this
Publish(t) ==
  /\ pc[t] = "publish"
  /\ desc' = [desc EXCEPT ![Team(pos[t])].ws = TRUE]
  /\ Created(t, Team(pos[t]))
  /\ UNCHANGED <<prog, at, linked, pos, singleGuard, mySingle, nextWDs, pool, elected,
                 done, again, lastpriv>>

\* Mutant of Visible: a thread that was not elected does not wait for the descriptor.
VisibleAtOnce(t) == TRUE

Visible(t) == desc[Team(pos[t])].ws

\* while ( (*wsd)->ws == NULL ) {;}
Spin(t) ==
  /\ pc[t] = "spin" /\ Visible(t)
  /\ Created(t, Team(pos[t]))
  /\ UNCHANGED <<prog, at, desc, linked, pos, singleGuard, mySingle, nextWDs, pool,
                 elected, done, again, lastpriv>>

\* SlicerReplicate::submit.  A static loop puts a slice on the queue of every thread: a
\* copy of the descriptor for the others, the creator's own descriptor for itself.  A
\* dynamic or guided loop goes to the ready queue.  Then the implicit taskwait, which
\* nowait leaves out.
Submit(t) ==
  LET l == at[t]
      w == work[t]
      static == prog.loops[l].policy = "static"
      Slice(u) == IF u = t THEN w ELSE [loop |-> l, d |-> Copy(l, u)]
  IN
  /\ pc[t] = "submit"
  /\ work' = [work EXCEPT ![t] = NoWork]
  /\ nextWDs' = IF static THEN [u \in Threads |-> Append(nextWDs[u], Slice(u))] ELSE nextWDs
  /\ desc' = IF static THEN [d \in Descriptors |-> IF \E u \in Threads \ {t} : d = Copy(l, u)
                                                   THEN desc[w.d] ELSE desc[d]]
             ELSE desc
  /\ pool' = IF static THEN pool ELSE Append(pool, w)
  /\ at' = [at EXCEPT ![t] = @ + 1]
  /\ Goto(t, IF prog.nowait THEN "create" ELSE "wait")
  /\ UNCHANGED <<prog, linked, pos, singleGuard, mySingle, elected, done, again, lastpriv>>

\* The body of loop l for an item, and the copy of the lastprivate variable after it.
Execute(l, item) ==
  LET body == Iterations(item.lower, item.upper, prog.loops[l].step)
      s == Sign(prog.loops[l].step)
  IN
  /\ again' = [again EXCEPT ![l] = @ \cup (done[l] \cap body)]
  /\ done' = [done EXCEPT ![l] = @ \cup body]
  /\ lastpriv' = IF item.last /\ body # {}
                 THEN [lastpriv EXCEPT ![l] = {i \in body : \A j \in body : j * s <= i * s}]
                 ELSE lastpriv

\* What nextItem may return, and what it leaves in the descriptor d.
Items(policy, d, t) ==
  IF policy = "static" THEN {StaticItem(d, t)}
  ELSE IF d.current >= d.chunks THEN {NoItem}
  ELSE {SharedItem(policy, d, d.current, junk) : junk \in BOOLEAN}

Advance(policy, d) ==
  IF policy = "static" THEN StaticRest(d) ELSE [d EXCEPT !.current = @ + 1]

\* nanos_worksharing_next_item, then the item's iterations, or the end of the loop.
NextItem(t) ==
  LET w == work[t]
      policy == prog.loops[w.loop].policy
  IN
  /\ pc[t] = "items"
  /\ desc' = [desc EXCEPT ![w.d] = Advance(policy, @)]
  /\ \E item \in Items(policy, desc[w.d], t) :
       IF item.execute THEN Execute(w.loop, item) /\ UNCHANGED <<pc, work>>
       ELSE /\ Goto(t, IF prog.mode = "omp" THEN "sync" ELSE "wait")
            /\ work' = [work EXCEPT ![t] = NoWork]
            /\ UNCHANGED <<done, again, lastpriv>>
  /\ UNCHANGED <<prog, at, linked, pos, singleGuard, mySingle, nextWDs, pool, elected>>

\* The end of an OpenMP loop: the team's barrier, which nowait leaves out.
Sync(t) ==
  /\ pc[t] = "sync"
  /\ prog.nowait \/ \A u \in Threads : at[u] > at[t] \/ (at[u] = at[t] /\ pc[u] = "sync")
  /\ at' = [at EXCEPT ![t] = @ + 1]
  /\ Goto(t, "create")
  /\ UNCHANGED <<prog, work, desc, linked, pos, singleGuard, mySingle, nextWDs, pool,
                 elected, done, again, lastpriv>>

\* A slice of module Slicers carries the nanos_loop_info_t of its work descriptor.
IsSlice(w) == w.d[1] = "slice"

\* A worker, or the creator in its taskwait, takes the first slice tied to it.
TakeNext(t) ==
  /\ pc[t] = "wait" /\ nextWDs[t] # <<>>
  /\ work' = [work EXCEPT ![t] = Head(nextWDs[t])]
  /\ nextWDs' = [nextWDs EXCEPT ![t] = Tail(@)]
  /\ Goto(t, IF IsSlice(Head(nextWDs[t])) THEN "slice" ELSE "items")
  /\ UNCHANGED <<prog, at, desc, linked, pos, singleGuard, mySingle, pool, elected, done, again,
                 lastpriv>>

\* getItemsLeft(wsd) <= 1
LastSlice(d) == d.chunks - d.current <= 1

\* Otherwise it takes a slice of the first work descriptor of the ready queue, under the
\* queue's lock: SlicerReplicate::dequeue leaves it there for others while items are left.
TakePool(t) ==
  /\ pc[t] = "wait" /\ nextWDs[t] = <<>> /\ pool # <<>> /\ Head(pool).d # Sliced
  /\ work' = [work EXCEPT ![t] = Head(pool)]
  /\ pool' = IF LastSlice(desc[Head(pool).d]) THEN Tail(pool) ELSE pool
  /\ Goto(t, "items")
  /\ UNCHANGED <<prog, at, desc, linked, pos, singleGuard, mySingle, nextWDs, elected,
                 done, again, lastpriv>>

\* No slice is queued or being executed: the creator has no unfinished child.
NoChildren == /\ pool = <<>> /\ \A u \in Threads : nextWDs[u] = <<>>
              /\ \A u \in Threads : pc[u] \notin {"items", "slice"}

\* The creator's taskwait ends.
WaitEnd ==
  /\ prog.mode = "ompss" /\ pc[0] = "wait" /\ NoChildren
  /\ Goto(0, "create")
  /\ UNCHANGED <<prog, at, work, desc, linked, pos, singleGuard, mySingle, nextWDs, pool,
                 elected, done, again, lastpriv>>

\* The program ends: an OpenMP thread after its loops, the OmpSs creator when what it
\* submitted is done, and with it the workers, which are told to stop.
Leave(t) ==
  /\ \/ /\ pc[t] = "create" /\ at[t] > Len(prog.loops)
        /\ Goto(t, IF prog.mode = "omp" \/ NoChildren THEN "out" ELSE "wait")
     \/ pc[t] = "wait" /\ pc[0] = "out" /\ Goto(t, "out")
  /\ UNCHANGED <<prog, at, work, desc, linked, pos, singleGuard, mySingle, nextWDs, pool,
                 elected, done, again, lastpriv>>

Step(t) == \/ CreateStatic(t) \/ Link(t) \/ InitLoop(t) \/ Publish(t) \/ Spin(t)
           \/ Submit(t) \/ NextItem(t) \/ Sync(t) \/ TakeNext(t) \/ TakePool(t)
           \/ (t = 0 /\ WaitEnd) \/ Leave(t)

AllOut == \A t \in Threads : pc[t] = "out"
Terminated == AllOut /\ UNCHANGED vars

Next == (\E t \in Threads : Step(t)) \/ Terminated

Spec == Init /\ [][Next]_vars

\* Every thread of the team keeps running.
FairSpec == Spec /\ \A t \in Threads : WF_vars(Step(t))
-----------------------------------------------------------------------------

\* A loop, and the descriptor, the work descriptor or the slice it is executed through.
IsItem(w) == w.loop \in Loops /\ (w.d \in Descriptors \/ w.d = Sliced \/ IsSlice(w))

\* Types of the variables.
TypeOK ==
  /\ prog \in Programs
  /\ at \in [Threads -> 1 .. Len(prog.loops) + 1]
  /\ pc \in [Threads -> {"create", "init", "publish", "spin", "submit", "items", "sync",
                         "slice", "inline", "wait", "out"}]
  /\ \A t \in Threads : work[t] = NoWork \/ IsItem(work[t])
  /\ DOMAIN desc = Descriptors
  /\ \A d \in Descriptors : desc[d].ws \in BOOLEAN /\ desc[d].current \in Nat
  /\ linked \in 0 .. Len(prog.loops) /\ pos \in [Threads -> 0 .. linked]
  /\ singleGuard \in 0 .. Len(prog.loops)
  /\ mySingle \in [Threads -> 0 .. Len(prog.loops)]
  /\ \A t \in Threads : \A k \in DOMAIN nextWDs[t] : IsItem(nextWDs[t][k])
  /\ \A k \in DOMAIN pool : IsItem(pool[k])
  /\ elected \in [Loops -> 0 .. N]
  /\ done \in [Loops -> SUBSET Space] /\ again \in [Loops -> SUBSET Space]
  /\ lastpriv \in [Loops -> SUBSET Space]

\* No two threads execute the same iteration and none executes one outside the loop,
\* however the chunks of successive loops interleave and whatever the sign and the
\* stride of the step: loops without iterations, fewer iterations than threads and a
\* last chunk that is cut short included.
NoIterationTwice ==
  \A l \in Loops : done[l] \subseteq LoopSpace(l) /\ again[l] = {}

\* The end of loop l is behind: every OpenMP thread has left it, the OmpSs creator has
\* seen its slices done; under nowait in OmpSs, when the program ends.
LoopOver(l) ==
  \/ prog.mode = "omp" /\ \A t \in Threads : at[t] > l
  \/ prog.mode = "ompss" /\ ~ prog.nowait /\ at[0] > l /\ pc[0] \in {"create", "out"}
  \/ AllOut

\* When the barrier or the taskwait that ends a loop is behind, every iteration of it has
\* been executed; under nowait, when the last thread has left the loop.
NoIterationLost ==
  \A l \in Loops : LoopOver(l) => LoopSpace(l) \subseteq done[l]

\* create() tells one thread, and one only, that it is the single of its loop, although
\* the threads of the team may be several loops apart.
SingleElected ==
  /\ \A l \in Loops : elected[l] <= 1
  /\ \A l \in Loops : LoopOver(l) /\ prog.loops[l].policy \in Policies => elected[l] = 1

\* A thread reads a descriptor of the team's list only when it is filled for the loop it
\* executes: threads that reach the loops at different times agree on which is which.
DescriptorOfMyLoop ==
  \A t \in Threads : pc[t] = "items" /\ work[t].d[1] = "team" =>
    LET d == desc[work[t].d]
        i == prog.loops[work[t].loop]
    IN  d.lower = i.lower /\ d.upper = i.upper /\ d.step = i.step

\* After a static loop whose last iteration is its upper bound the lastprivate variable has
\* the value of that iteration: no other thread's item overwrites it, whichever finishes last.
LastprivateAtBound ==
  \A l \in Loops :
    LoopOver(l) /\ prog.loops[l].policy \in {"static", "static_for"} /\ prog.loops[l].upper \in LoopSpace(l) =>
      lastpriv[l] = {prog.loops[l].upper}

\* Every thread gets through every loop: nobody spins on a descriptor that is never
\* published, and no slice stays in a queue.
LoopsEnd == <>AllOut
=============================================================================
