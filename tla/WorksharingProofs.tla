------------------------- MODULE WorksharingProofs --------------------------
(***************************************************************************)
(* Worksharing loops for every team and every program of loops, with the   *)
(* slicers: one thread is elected to create each loop, and a thread only   *)
(* reads a descriptor that was filled for the loop it executes.            *)
(*                                                                         *)
(* The argument: a thread's counter is the number of loops it has created  *)
(* with a policy that uses it, so a loop has a rank that all threads agree *)
(* on, whatever their distance.  A loop is created when the team's counter *)
(* has passed its rank, which happens once; its descriptor is the one at   *)
(* that place of the team's list, and no other loop has that place.  The   *)
(* bounds of a descriptor are written before it is published, and items    *)
(* are only made from a published one.                                     *)
(***************************************************************************)
EXTENDS Slicers, FiniteSetTheorems, TLAPS

\* The policies whose create() uses the single guard, and the team's list.
Guarded == {"static"}
Shared == {"dynamic", "guided"}

\* The policy of a loop.
Policy(l) == prog.loops[l].policy

\* The loops of ls before l with one of the policies S, and their number.
Before(ls, S, l) == {k \in DOMAIN ls : k < l /\ ls[k].policy \in S}
Count(ls, S, l) == Cardinality(Before(ls, S, l))

\* Thread t has called create() for the loop it is in; the loops it has created are
\* the ones below Reached(t).
Past(t) == \/ pc[t] \in {"init", "publish", "spin", "submit"}
           \/ prog.mode = "omp" /\ pc[t] \in {"items", "sync"}
Reached(t) == at[t] + (IF Past(t) THEN 1 ELSE 0)

\* The counters of a thread say how many loops it has created, and nobody is ahead of
\* the team's.
Turns ==
  \A t \in Threads :
    /\ mySingle[t] = Count(prog.loops, Guarded, Reached(t)) /\ mySingle[t] <= singleGuard
    /\ pos[t] = Count(prog.loops, Shared, Reached(t)) /\ pos[t] <= linked

\* A loop has its single when the team's counter has passed it.
Passed(l) ==
  \/ Policy(l) \in Guarded /\ Count(prog.loops, Guarded, l) < singleGuard
  \/ Policy(l) \in Shared /\ Count(prog.loops, Shared, l) < linked
Elections == \A l \in Loops : elected[l] = IF Passed(l) THEN 1 ELSE 0

\* The descriptor of a loop in the team's list, and that it describes the loop.
Place(ls, l) == Team(Count(ls, Shared, l) + 1)
Describes(d, i) == d.lower = i.lower /\ d.upper = i.upper /\ d.step = i.step
Filled(l) == Describes(desc[Place(prog.loops, l)], prog.loops[l])
Published ==
  \A l \in Loops : Policy(l) \in Shared /\ desc[Place(prog.loops, l)].ws => Filled(l)

\* What items come from: a thread's own descriptor or a copy of it, or the team's list.
OfStatic(w) == Policy(w.loop) \in Guarded /\ \/ \E t \in Threads : w.d = Local(t)
                                             \/ \E t \in Threads : w.d = Copy(w.loop, t)
OfShared(w) == Policy(w.loop) \in Shared /\ w.d = Place(prog.loops, w.loop) /\ Filled(w.loop)

\* What is in the queues.
Entries ==
  /\ \A t \in Threads : \A k \in DOMAIN nextWDs[t] : OfStatic(nextWDs[t][k]) \/ IsSlice(nextWDs[t][k])
  /\ \A k \in DOMAIN pool : OfShared(pool[k]) \/ pool[k].d = Sliced

\* What thread t has where it is.
PlaceOf(t) ==
  /\ Past(t) => at[t] \in Loops
  /\ pc[t] \in {"init", "publish", "spin"} => Policy(at[t]) \in Shared
  /\ pc[t] = "publish" => Filled(at[t])
  /\ pc[t] \in {"items", "submit"} =>
       work[t].loop \in Loops /\ (OfStatic(work[t]) \/ OfShared(work[t]))
  /\ pc[t] = "submit" => work[t].loop = at[t]
  /\ pc[t] \in {"slice", "inline"} => work[t].loop \in Loops /\ IsSlice(work[t])
  /\ pc[t] \in {"wait", "slice", "inline", "submit"} => prog.mode = "ompss"
  /\ pc[t] = "sync" => prog.mode = "omp"
  /\ pc[t] = "out" /\ (prog.mode = "omp" \/ t = 0) => at[t] = Len(prog.loops) + 1
Places == \A t \in Threads : PlaceOf(t)

\* Types in more detail.
Ints == [lower : Int, upper : Int, chunk : Int]
SliceDs == {"slice"} \X Int \X Int \X Int \X Int
WDs == [loop : Loops, d : Descriptors \cup {Sliced} \cup SliceDs]
Chunks == {0} \cup {SharedData(prog.loops[l]).chunks : l \in Loops}
Descs == [ws : BOOLEAN, lower : Int, upper : Int, step : Int, chunk : Int, chunks : Chunks,
          current : Nat]
Shape ==
  /\ work \in [Threads -> WDs \cup {NoWork}]
  /\ desc \in [Descriptors -> Descs]
  /\ nextWDs \in [Threads -> Seq(WDs)] /\ pool \in Seq(WDs)
  /\ nli \in [Loops -> Ints]

\* The inductive invariant.
IInv == TypeOK /\ Shape /\ Turns /\ Elections /\ Published /\ Entries /\ Places
-----------------------------------------------------------------------------
(* Counting loops.                                                         *)

\* The programs.
LEMMA ProgramFacts ==
  ASSUME prog \in Programs
  PROVE  /\ prog.mode \in {"omp", "ompss"} /\ prog.nowait \in BOOLEAN
         /\ prog.loops \in Seq(LoopInfos) /\ Len(prog.loops) \in Nat
         /\ Loops = 1 .. Len(prog.loops) /\ Len(prog.loops) >= 1
         /\ \A l \in Loops : /\ prog.loops[l] \in LoopInfos
                             /\ Policy(l) \in SlicerPolicies => prog.mode = "ompss"
BY ProgramsAssumption DEF Loops, Policy

\* The loops before l are finitely many.
LEMMA CountFacts ==
  ASSUME NEW ls, NEW n \in Nat, DOMAIN ls = 1 .. n, NEW S, NEW l \in Int
  PROVE  /\ IsFiniteSet(Before(ls, S, l)) /\ Count(ls, S, l) \in Nat
         /\ Count(ls, S, l) <= n
         /\ l <= 1 => Count(ls, S, l) = 0
<1>1. IsFiniteSet(1 .. n) /\ Cardinality(1 .. n) = n
  BY FS_Interval
<1>2. Before(ls, S, l) \subseteq 1 .. n
  BY DEF Before
<1>3. IsFiniteSet(Before(ls, S, l)) /\ Cardinality(Before(ls, S, l)) <= n
  BY <1>1, <1>2, FS_Subset
<1>4. Count(ls, S, l) \in Nat
  BY <1>3, FS_CardinalityType DEF Count
<1>5. l <= 1 => Before(ls, S, l) = {}
  BY DEF Before
<1> QED
  BY <1>3, <1>4, <1>5, FS_EmptySet DEF Count

\* The next loop counts if it has one of the policies.
LEMMA CountNext ==
  ASSUME NEW ls, NEW n \in Nat, DOMAIN ls = 1 .. n, NEW S, NEW l \in 1 .. n
  PROVE  Count(ls, S, l + 1) = Count(ls, S, l) + (IF ls[l].policy \in S THEN 1 ELSE 0)
<1>1. IsFiniteSet(Before(ls, S, l)) /\ l \notin Before(ls, S, l) /\ Count(ls, S, l) \in Nat
  BY CountFacts DEF Before
<1>2. CASE ls[l].policy \in S
  <2>1. Before(ls, S, l + 1) = Before(ls, S, l) \cup {l}
    BY <1>2 DEF Before
  <2> QED
    BY <1>1, <1>2, <2>1, FS_AddElement DEF Count
<1>3. CASE ls[l].policy \notin S
  <2>1. Before(ls, S, l + 1) = Before(ls, S, l)
    BY <1>3 DEF Before
  <2> QED
    BY <1>1, <1>3, <2>1 DEF Count
<1> QED
  BY <1>2, <1>3

\* Counts grow.
LEMMA CountGrows ==
  ASSUME NEW ls, NEW n \in Nat, DOMAIN ls = 1 .. n, NEW S, NEW l \in Int, NEW m \in Int, l <= m
  PROVE  Count(ls, S, l) <= Count(ls, S, m)
<1>1. Before(ls, S, l) \subseteq Before(ls, S, m)
  BY DEF Before
<1>2. IsFiniteSet(Before(ls, S, m))
  BY CountFacts
<1> QED
  BY <1>1, <1>2, FS_Subset DEF Count

\* Two loops of the policies have different counts, in their order.
LEMMA CountOrder ==
  ASSUME NEW ls, NEW n \in Nat, DOMAIN ls = 1 .. n, NEW S, NEW l \in 1 .. n, NEW m \in Int,
         ls[l].policy \in S
  PROVE  l < m <=> Count(ls, S, l) < Count(ls, S, m)
<1>1. Count(ls, S, l + 1) = Count(ls, S, l) + 1
  BY CountNext
<1>2. Count(ls, S, l) \in Nat /\ Count(ls, S, m) \in Nat
  BY CountFacts
<1>3. CASE l < m
  <2>1. Count(ls, S, l + 1) <= Count(ls, S, m)
    BY <1>3, CountGrows
  <2> QED
    BY <1>1, <1>2, <1>3, <2>1
<1>4. CASE ~ (l < m)
  <2>1. Count(ls, S, m) <= Count(ls, S, l)
    BY <1>4, CountGrows
  <2> QED
    BY <1>2, <1>4, <2>1
<1> QED
  BY <1>3, <1>4

-----------------------------------------------------------------------------
(* Descriptors and work descriptors.                                       *)

\* Descriptors of different kinds are different.
LEMMA DescriptorFacts ==
  /\ \A k : Team(k)[1] = "team" /\ Team(k)[2] = k
  /\ \A t : Local(t)[1] = "local" /\ Local(t)[2] = t
  /\ \A l, t : Copy(l, t)[1] = "copy" /\ Copy(l, t)[2] = l /\ Copy(l, t)[3] = t
  /\ Sliced[1] = "sliced" /\ NoWork.d[1] = "none" /\ NoWork.loop = 0
  /\ \A d \in SliceDs : /\ d[1] = "slice"
                        /\ d[2] \in Int /\ d[3] \in Int /\ d[4] \in Int /\ d[5] \in Int
BY DEF Team, Local, Copy, Sliced, NoWork, SliceDs

\* The descriptors of the program.
LEMMA DescriptorSet ==
  ASSUME prog \in Programs
  PROVE  /\ \A k \in Loops : Team(k) \in Descriptors
         /\ \A t \in Threads : Local(t) \in Descriptors
         /\ \A l \in Loops, t \in Threads : Copy(l, t) \in Descriptors
         /\ \A d \in Descriptors : d[1] \in {"team", "local", "copy"}
BY DescriptorFacts DEF Descriptors

\* Every shared loop has a place of its own in the team's list.
LEMMA PlaceFacts ==
  ASSUME prog \in Programs
  PROVE  /\ \A l \in Loops : Policy(l) \in Shared =>
              Place(prog.loops, l) \in Descriptors /\ Place(prog.loops, l)[1] = "team"
         /\ \A l, m \in Loops :
              Policy(l) \in Shared /\ Policy(m) \in Shared
                /\ Place(prog.loops, l) = Place(prog.loops, m) => l = m
<1> DEFINE ls == prog.loops
<1>1. Len(ls) \in Nat /\ DOMAIN ls = 1 .. Len(ls) /\ Loops = 1 .. Len(ls)
  BY ProgramFacts DEF Loops
<1>2. ASSUME NEW l \in Loops, Policy(l) \in Shared
      PROVE  Count(ls, Shared, l) + 1 \in Loops
  <2>1. Count(ls, Shared, l + 1) = Count(ls, Shared, l) + 1
    BY <1>1, <1>2, CountNext DEF Policy
  <2>2. Count(ls, Shared, l + 1) <= Len(ls) /\ Count(ls, Shared, l) \in Nat
    BY <1>1, CountFacts
  <2> QED
    BY <1>1, <2>1, <2>2
<1>3. ASSUME NEW l \in Loops, NEW m \in Loops, Policy(l) \in Shared, Policy(m) \in Shared,
             Place(ls, l) = Place(ls, m)
      PROVE  l = m
  <2>1. Count(ls, Shared, l) + 1 = Count(ls, Shared, m) + 1
    BY <1>3, DescriptorFacts DEF Place
  <2>2. Count(ls, Shared, l) \in Nat /\ Count(ls, Shared, m) \in Nat
    BY <1>1, CountFacts
  <2>3. l < m <=> Count(ls, Shared, l) < Count(ls, Shared, m)
    BY <1>1, <1>3, CountOrder DEF Policy
  <2>4. m < l <=> Count(ls, Shared, m) < Count(ls, Shared, l)
    BY <1>1, <1>3, CountOrder DEF Policy
  <2> QED
    BY <1>1, <2>1, <2>2, <2>3, <2>4
<1> QED
  BY <1>2, <1>3, DescriptorFacts, DescriptorSet DEF Place

\* The initial state satisfies the invariant.
LEMMA InitIInv == SlicerInit => IInv
<1> SUFFICES ASSUME SlicerInit PROVE IInv
  OBVIOUS
<1> USE DEF SlicerInit, Init
<1>1. /\ Len(prog.loops) \in Nat /\ DOMAIN prog.loops = 1 .. Len(prog.loops)
      /\ Len(prog.loops) >= 1 /\ Loops = 1 .. Len(prog.loops)
  BY ProgramFacts DEF Loops
<1>2. 0 \in Threads /\ N \in Nat /\ Threads \subseteq Nat
  BY NAssumption DEF Threads
<1>3. TypeOK
  <2>1. \A d \in Descriptors : desc[d].ws \in BOOLEAN /\ desc[d].current \in Nat
    BY DEF Empty
  <2>2. elected \in [Loops -> 0 .. N] /\ at \in [Threads -> 1 .. Len(prog.loops) + 1]
    BY <1>1, <1>2
  <2>3. /\ linked \in 0 .. Len(prog.loops) /\ pos \in [Threads -> 0 .. linked]
        /\ singleGuard \in 0 .. Len(prog.loops)
        /\ mySingle \in [Threads -> 0 .. Len(prog.loops)]
    BY <1>1
  <2> QED
    BY <2>1, <2>2, <2>3 DEF TypeOK
<1>4. Shape
  BY <1>1 DEF Shape, Descs, Chunks, Empty, Ints
<1>5. Turns
  BY <1>1, <1>2, CountFacts DEF Turns, Reached, Past
<1>6. Elections
  <2>1. \A l \in Loops : Count(prog.loops, Guarded, l) \in Nat /\ Count(prog.loops, Shared, l) \in Nat
    BY <1>1, CountFacts
  <2> QED
    BY <2>1 DEF Elections, Passed
<1>7. Published
  BY PlaceFacts DEF Published, Empty
<1>8. Entries /\ Places
  BY <1>1, ProgramFacts DEF Entries, Places, PlaceOf, Past
<1> QED
  BY <1>3, <1>4, <1>5, <1>6, <1>7, <1>8 DEF IInv

-----------------------------------------------------------------------------
(* Steps.                                                                  *)

\* What is filled stays filled.
KeepsFilled == \A l \in Loops : Policy(l) \in Shared /\ Filled(l) => Filled(l)'

\* The other threads do not move.
OthersRest(t) == \A u \in Threads \ {t} :
  at'[u] = at[u] /\ pc'[u] = pc[u] /\ work'[u] = work[u]

\* They keep their places.
LEMMA OthersKeep ==
  ASSUME IInv, NEW t \in Threads, prog' = prog, KeepsFilled, OthersRest(t), PlaceOf(t)'
  PROVE  Places'
<1> SUFFICES ASSUME NEW u \in Threads, u # t PROVE PlaceOf(u)'
  BY DEF Places
<1>1. at'[u] = at[u] /\ pc'[u] = pc[u] /\ work'[u] = work[u] /\ PlaceOf(u)
  BY DEF OthersRest, IInv, Places
<1>2. Loops' = Loops /\ (Past(u)' <=> Past(u)) /\ \A l : Policy(l)' = Policy(l)
  BY <1>1 DEF Loops, Past, Policy
<1>3. OfStatic(work[u]) => OfStatic(work[u])'
  BY <1>1 DEF OfStatic, Policy
<1>4. work[u].loop \in Loops /\ OfShared(work[u]) => OfShared(work[u])'
  BY <1>1 DEF OfShared, Policy, KeepsFilled
<1>5. at[u] \in Loops /\ Policy(at[u]) \in Shared /\ Filled(at[u]) => Filled(at[u])'
  BY <1>1 DEF KeepsFilled
<1>6. pc[u] = "publish" => Past(u) /\ Policy(at[u]) \in Shared
  BY <1>1 DEF Past, PlaceOf
<1>7. IsSlice(work[u])' <=> IsSlice(work[u])
  BY <1>1 DEF IsSlice
<1> QED
  BY <1>1, <1>2, <1>3, <1>4, <1>5, <1>6, <1>7 DEF PlaceOf

\* A step of thread t that leaves descriptors and counters alone.
LEMMA QuietStep ==
  ASSUME IInv, NEW t \in Threads,
         UNCHANGED <<prog, desc, linked, pos, singleGuard, mySingle, elected>>, OthersRest(t),
         \/ Reached(t)' = Reached(t)
         \/ /\ Reached(t)' = Reached(t) + 1 /\ Reached(t) \in Loops
            /\ Policy(Reached(t)) \notin Guarded \cup Shared,
         TypeOK', Shape', Entries', PlaceOf(t)'
  PROVE  IInv'
<1>1. KeepsFilled
  BY DEF KeepsFilled, Filled
<1>2. Published' /\ Elections'
  BY DEF IInv, Published, Filled, Policy, Loops, Elections, Passed
<1>3. Places'
  BY <1>1, OthersKeep
<1>4. Turns'
  <2>1. DOMAIN prog.loops = 1 .. Len(prog.loops) /\ Len(prog.loops) \in Nat
    BY ProgramFacts DEF IInv, TypeOK, Loops
  <2>2. /\ Count(prog.loops, Guarded, Reached(t)') = Count(prog.loops, Guarded, Reached(t))
        /\ Count(prog.loops, Shared, Reached(t)') = Count(prog.loops, Shared, Reached(t))
    <3>1. CASE Reached(t)' = Reached(t)
      BY <3>1
    <3>2. CASE /\ Reached(t)' = Reached(t) + 1 /\ Reached(t) \in Loops
               /\ Policy(Reached(t)) \notin Guarded \cup Shared
      <4>1. PICK r \in Loops : r = Reached(t)
        BY <3>2
      <4>2. r \in 1 .. Len(prog.loops) /\ Count(prog.loops, Guarded, r) \in Nat
            /\ Count(prog.loops, Shared, r) \in Nat
        BY <2>1, CountFacts DEF Loops
      <4>3. Count(prog.loops, Guarded, r + 1) = Count(prog.loops, Guarded, r)
        BY <2>1, <3>2, <4>1, <4>2, CountNext DEF Policy
      <4>4. Count(prog.loops, Shared, r + 1) = Count(prog.loops, Shared, r)
        BY <2>1, <3>2, <4>1, <4>2, CountNext DEF Policy
      <4> QED
        BY <3>2, <4>1, <4>3, <4>4
    <3> QED
      BY <3>1, <3>2
  <2>3. \A u \in Threads \ {t} : Reached(u)' = Reached(u)
    BY DEF OthersRest, Reached, Past
  <2> QED
    BY <2>2, <2>3 DEF IInv, Turns
<1> QED
  BY <1>2, <1>3, <1>4 DEF IInv

\* Places of the program counter.
PCs == {"create", "init", "publish", "spin", "submit", "items", "sync", "slice", "inline",
        "wait", "out"}

\* What the proofs below use of the program.
LEMMA Basics ==
  ASSUME IInv
  PROVE  /\ prog \in Programs /\ prog.mode \in {"omp", "ompss"}
         /\ Len(prog.loops) \in Nat /\ Loops = 1 .. Len(prog.loops)
         /\ DOMAIN prog.loops = 1 .. Len(prog.loops) /\ Len(prog.loops) >= 1
         /\ 0 \in Threads /\ Threads \subseteq Nat
         /\ \A l \in Loops : /\ prog.loops[l] \in LoopInfos
                             /\ Policy(l) \in SlicerPolicies => prog.mode = "ompss"
         /\ at \in [Threads -> 1 .. Len(prog.loops) + 1] /\ pc \in [Threads -> PCs]
         /\ work \in [Threads -> WDs \cup {NoWork}]
BY ProgramFacts, NAssumption DEF IInv, TypeOK, Shape, Loops, PCs, Threads

\* Work descriptors are items.
Typed ==
  /\ \A t \in Threads : work[t] = NoWork \/ IsItem(work[t])
  /\ \A t \in Threads : \A k \in DOMAIN nextWDs[t] : IsItem(nextWDs[t][k])
  /\ \A k \in DOMAIN pool : IsItem(pool[k])
  /\ DOMAIN desc = Descriptors
  /\ \A d \in Descriptors : desc[d].ws \in BOOLEAN /\ desc[d].current \in Nat

\* It follows from the types in more detail.
LEMMA ItemsTyped == Shape => Typed
<1>1. \A w \in WDs : IsItem(w)
  BY DescriptorFacts DEF WDs, IsItem, IsSlice
<1> QED
  BY <1>1 DEF Shape, Typed, Descs

\* The types of a step that leaves the counters alone.
LEMMA QuietTypes ==
  ASSUME IInv, UNCHANGED <<prog, linked, pos, singleGuard, mySingle, elected>>, Shape',
         at' \in [Threads -> 1 .. Len(prog.loops) + 1], pc' \in [Threads -> PCs],
         done' \in [Loops -> SUBSET Space], again' \in [Loops -> SUBSET Space],
         lastpriv' \in [Loops -> SUBSET Space]
  PROVE  TypeOK'
<1>1. Loops' = Loops
  BY DEF Loops
<1>2. Typed'
  BY ItemsTyped, PTL
<1> QED
  BY <1>1, <1>2 DEF TypeOK, Typed, IInv, PCs

\* The body of a loop.
LEMMA ExecuteTypes ==
  ASSUME TypeOK, NEW l \in Loops, NEW item, Execute(l, item)
  PROVE  /\ done' \in [Loops -> SUBSET Space] /\ again' \in [Loops -> SUBSET Space]
         /\ lastpriv' \in [Loops -> SUBSET Space]
<1>1. Iterations(item.lower, item.upper, prog.loops[l].step) \subseteq Space
  BY DEF Iterations
<1> QED
  BY <1>1 DEF Execute, TypeOK

\* A queue that loses its first entry.
LEMMA TailTyped ==
  ASSUME NEW W, NEW q \in Seq(W), q # <<>>
  PROVE  /\ Head(q) \in W /\ Head(q) = q[1] /\ 1 \in DOMAIN q /\ Tail(q) \in Seq(W)
         /\ \A k \in DOMAIN Tail(q) : k + 1 \in DOMAIN q /\ Tail(q)[k] = q[k + 1]
OBVIOUS

\* A queue that gains a last entry.
LEMMA AppendTyped ==
  ASSUME NEW W, NEW q \in Seq(W), NEW w \in W
  PROVE  /\ Append(q, w) \in Seq(W)
         /\ \A k \in DOMAIN Append(q, w) :
              (k \in DOMAIN q /\ Append(q, w)[k] = q[k]) \/ Append(q, w)[k] = w
  OBVIOUS

\* The sets of types do not change.
LEMMA SameSets ==
  ASSUME prog' = prog
  PROVE  /\ Loops' = Loops /\ Descriptors' = Descriptors /\ WDs' = WDs /\ Chunks' = Chunks
         /\ Descs' = Descs
BY DEF Loops, Descriptors, WDs, Chunks, Descs

\* Work descriptors stay what they are.
LEMMA EntryKept ==
  ASSUME prog' = prog, KeepsFilled
  PROVE  \A w \in WDs : /\ OfStatic(w) => OfStatic(w)'
                        /\ OfShared(w) => OfShared(w)'
<1>1. \A w \in WDs : w.loop \in Loops
  BY DEF WDs
<1> QED
  BY <1>1 DEF OfStatic, OfShared, Policy, KeepsFilled

\* The queues keep what they hold when they do not change.
LEMMA SameEntries ==
  ASSUME IInv, UNCHANGED <<prog, nextWDs, pool>>, KeepsFilled PROVE Entries'
<1>1. /\ \A t \in Threads : \A k \in DOMAIN nextWDs[t] : nextWDs[t][k] \in WDs
      /\ \A k \in DOMAIN pool : pool[k] \in WDs
  BY DEF IInv, Shape
<1> QED
  BY <1>1, EntryKept DEF IInv, Entries

\* A thread that was not elected finds the descriptor.
LEMMA SpinStep == ASSUME IInv, NEW t \in Threads, Spin(t), UNCHANGED nli PROVE IInv'
<1> USE DEF Spin, Created, Goto
<1>0. KeepsFilled
  BY DEF KeepsFilled, Filled
<1>1. at[t] \in Loops /\ Policy(at[t]) \in Shared /\ PlaceOf(t)
  BY DEF IInv, Places, PlaceOf, Past
<1>2. Team(pos[t]) = Place(prog.loops, at[t])
  <2>1. pos[t] = Count(prog.loops, Shared, at[t] + 1)
    BY Basics DEF IInv, Turns, Reached, Past
  <2>2. Count(prog.loops, Shared, at[t] + 1) = Count(prog.loops, Shared, at[t]) + 1
    BY <1>1, Basics, CountNext DEF Policy
  <2> QED
    BY <2>1, <2>2 DEF Place
<1>3. Filled(at[t]) /\ Team(pos[t]) \in Descriptors
  BY <1>1, <1>2, Basics, PlaceFacts DEF Visible, IInv, Published
<1>4. work' = [work EXCEPT ![t] = [loop |-> at[t], d |-> Team(pos[t])]]
  OBVIOUS
<1>5. Shape'
  BY <1>1, <1>3, <1>4, Basics, SameSets DEF IInv, Shape, WDs
<1>6. TypeOK'
  BY <1>5, Basics, QuietTypes DEF PCs, IInv, TypeOK
<1>7. PlaceOf(t)'
  BY <1>1, <1>2, <1>3, <1>4, Basics DEF PlaceOf, Past, OfShared, Filled, Policy, Loops
<1>8. Reached(t)' = Reached(t) /\ OthersRest(t)
  BY Basics DEF Reached, Past, OthersRest
<1> QED
  BY <1>0, <1>5, <1>6, <1>7, <1>8, SameEntries, QuietStep

\* The barrier at the end of an OpenMP loop.
LEMMA SyncStep == ASSUME IInv, NEW t \in Threads, Sync(t), UNCHANGED nli PROVE IInv'
<1> USE DEF Sync, Goto
<1>0. KeepsFilled
  BY DEF KeepsFilled, Filled
<1>1. prog.mode = "omp" /\ at[t] \in Loops
  BY DEF IInv, Places, PlaceOf, Past
<1>2. Shape'
  BY SameSets DEF IInv, Shape
<1>3. TypeOK'
  <2>1. at' \in [Threads -> 1 .. Len(prog.loops) + 1] /\ pc' \in [Threads -> PCs]
    BY <1>1, Basics DEF PCs
  <2> QED
    BY <1>2, <2>1, QuietTypes DEF IInv, TypeOK
<1>4. PlaceOf(t)'
  BY <1>1, Basics DEF PlaceOf, Past
<1>5. Reached(t)' = Reached(t) /\ OthersRest(t)
  BY <1>1, Basics DEF Reached, Past, OthersRest
<1> QED
  BY <1>0, <1>2, <1>3, <1>4, <1>5, SameEntries, QuietStep

\* A slice of the thread's own queue.
LEMMA TakeNextStep == ASSUME IInv, NEW t \in Threads, TakeNext(t), UNCHANGED nli PROVE IInv'
<1> USE DEF TakeNext, Goto
<1>0. KeepsFilled
  BY DEF KeepsFilled, Filled
<1>1. /\ nextWDs[t] \in Seq(WDs) /\ nextWDs[t] # <<>> /\ Head(nextWDs[t]) \in WDs
      /\ Head(nextWDs[t]) = nextWDs[t][1] /\ 1 \in DOMAIN nextWDs[t]
      /\ Tail(nextWDs[t]) \in Seq(WDs)
      /\ \A k \in DOMAIN Tail(nextWDs[t]) :
           k + 1 \in DOMAIN nextWDs[t] /\ Tail(nextWDs[t])[k] = nextWDs[t][k + 1]
  BY TailTyped DEF IInv, Shape
<1>2. PICK w \in WDs : w = Head(nextWDs[t]) /\ (OfStatic(w) \/ IsSlice(w)) /\ w.loop \in Loops
  BY <1>1 DEF IInv, Entries, WDs
<1>3. work' = [work EXCEPT ![t] = w] /\ nextWDs' = [nextWDs EXCEPT ![t] = Tail(nextWDs[t])]
  BY <1>1, <1>2
<1>4. prog.mode = "ompss"
  BY DEF IInv, Places, PlaceOf
<1>5. Shape'
  BY <1>1, <1>2, <1>3, Basics, SameSets DEF IInv, Shape
<1>6. TypeOK'
  BY <1>5, Basics, QuietTypes DEF PCs, IInv, TypeOK
<1>7. pc'[t] = IF IsSlice(w) THEN "slice" ELSE "items"
  BY <1>2, Basics
<1>8. PlaceOf(t)'
  <2>1. OfStatic(w) => OfStatic(w)'
    BY <1>0, <1>2, EntryKept
  <2> QED
    BY <1>2, <1>3, <1>4, <1>7, <2>1, Basics DEF PlaceOf, Past, Loops
<1>9. Reached(t)' = Reached(t) /\ OthersRest(t)
  BY <1>4, <1>7, Basics DEF Reached, Past, OthersRest
<1>10. Entries'
  <2>1. \A v \in WDs : (OfStatic(v) => OfStatic(v)') /\ (OfShared(v) => OfShared(v)')
    BY <1>0, EntryKept
  <2>2. \A k \in DOMAIN pool : OfShared(pool[k])' \/ pool[k].d = Sliced
    BY <2>1 DEF IInv, Entries, Shape
  <2>3. ASSUME NEW u \in Threads, NEW k \in DOMAIN nextWDs'[u]
        PROVE  OfStatic(nextWDs[u][k])' \/ IsSlice(nextWDs[u][k])'
    <3>1. \E j \in DOMAIN nextWDs[u] : nextWDs'[u][k] = nextWDs[u][j]
      BY <1>1, <1>3, <2>3 DEF IInv, Shape
    <3>2. PICK v \in WDs : v = nextWDs'[u][k] /\ (OfStatic(v) \/ IsSlice(v))
      BY <3>1 DEF IInv, Shape, Entries
    <3> QED
      BY <2>1, <3>2 DEF OfStatic, IsSlice, Policy
  <2> QED
    BY <2>2, <2>3 DEF Entries
<1> QED
  BY <1>5, <1>6, <1>8, <1>9, <1>10, QuietStep

\* A work descriptor of the ready queue.
LEMMA TakePoolStep == ASSUME IInv, NEW t \in Threads, TakePool(t), UNCHANGED nli PROVE IInv'
<1> USE DEF TakePool, Goto
<1>0. KeepsFilled
  BY DEF KeepsFilled, Filled
<1>1. /\ pool \in Seq(WDs) /\ Head(pool) \in WDs /\ Head(pool) = pool[1] /\ 1 \in DOMAIN pool
      /\ Tail(pool) \in Seq(WDs)
      /\ \A k \in DOMAIN Tail(pool) : k + 1 \in DOMAIN pool /\ Tail(pool)[k] = pool[k + 1]
  BY TailTyped DEF IInv, Shape
<1>2. PICK w \in WDs : w = Head(pool) /\ OfShared(w) /\ w.loop \in Loops
  BY <1>1 DEF IInv, Entries, WDs
<1>3. work' = [work EXCEPT ![t] = w] /\ (pool' = pool \/ pool' = Tail(pool)) /\ pc'[t] = "items"
  BY <1>1, <1>2, Basics
<1>4. prog.mode = "ompss"
  BY DEF IInv, Places, PlaceOf
<1>5. Shape'
  BY <1>1, <1>2, <1>3, Basics, SameSets DEF IInv, Shape
<1>6. TypeOK'
  BY <1>5, Basics, QuietTypes DEF PCs, IInv, TypeOK
<1>8. PlaceOf(t)'
  <2>1. OfShared(w)'
    BY <1>0, <1>2, EntryKept
  <2> QED
    BY <1>2, <1>3, <1>4, <2>1, Basics DEF PlaceOf, Past, Loops, OfShared, Policy
<1>9. Reached(t)' = Reached(t) /\ OthersRest(t)
  BY <1>4, <1>3, Basics DEF Reached, Past, OthersRest
<1>10. Entries'
  <2>1. \A v \in WDs : (OfStatic(v) => OfStatic(v)') /\ (OfShared(v) => OfShared(v)')
    BY <1>0, EntryKept
  <2>2. \A u \in Threads : \A k \in DOMAIN nextWDs[u] :
          OfStatic(nextWDs[u][k])' \/ IsSlice(nextWDs[u][k])
    BY <2>1 DEF IInv, Entries, Shape
  <2>3. ASSUME NEW k \in DOMAIN pool' PROVE OfShared(pool[k])' \/ pool'[k].d = Sliced
    <3>1. \E j \in DOMAIN pool : pool'[k] = pool[j]
      BY <1>1, <1>3, <2>3
    <3>2. PICK v \in WDs : v = pool'[k] /\ (OfShared(v) \/ v.d = Sliced)
      BY <1>1, <3>1 DEF IInv, Entries
    <3> QED
      BY <2>1, <3>2 DEF OfShared, Policy, Filled
  <2> QED
    BY <2>2, <2>3 DEF Entries, IsSlice, OfStatic, Policy
<1> QED
  BY <1>5, <1>6, <1>8, <1>9, <1>10, QuietStep

\* Ends of a taskwait and of the program.
LEMMA LeaveStep ==
  ASSUME IInv, NEW t \in Threads, (t = 0 /\ WaitEnd) \/ Leave(t), UNCHANGED nli PROVE IInv'
<1>0. /\ UNCHANGED <<prog, at, work, desc, linked, pos, singleGuard, mySingle, nextWDs, pool,
                     elected, done, again, lastpriv>>
      /\ pc[t] \in {"create", "wait"}
      /\ \E l \in {"create", "wait", "out"} : pc' = [pc EXCEPT ![t] = l]
  BY DEF WaitEnd, Leave, Goto
<1>1. KeepsFilled
  BY <1>0 DEF KeepsFilled, Filled
<1>2. Shape'
  BY <1>0, SameSets DEF IInv, Shape
<1>3. TypeOK'
  BY <1>0, <1>2, Basics, QuietTypes DEF PCs, IInv, TypeOK
<1>4. PlaceOf(t)
  BY DEF IInv, Places
<1>5. PlaceOf(t)'
  <2>1. pc'[t] = "wait" => prog.mode = "ompss"
    BY <1>0, Basics DEF WaitEnd, Leave, Goto
  <2>2. pc'[t] = "out" /\ (prog.mode = "omp" \/ t = 0) => at[t] = Len(prog.loops) + 1
    BY <1>0, <1>4, Basics DEF WaitEnd, Leave, Goto, PlaceOf
  <2> QED
    BY <1>0, <2>1, <2>2, Basics DEF PlaceOf, Past
<1>6. Reached(t)' = Reached(t) /\ OthersRest(t)
  BY <1>0, Basics DEF Reached, Past, OthersRest
<1> QED
  BY <1>0, <1>1, <1>2, <1>3, <1>5, <1>6, SameEntries, QuietStep

-----------------------------------------------------------------------------
(* The slicers.                                                            *)

\* Division of C gives integers.
LEMMA CDivInt ==
  ASSUME NEW a \in Int, NEW b \in Int, b # 0 PROVE CDiv(a, b) \in Int /\ CRem(a, b) \in Int
<1>1. Abs(a) \in Nat /\ Abs(b) \in Nat \ {0}
  BY DEF Abs
<1>2. Abs(a) \div Abs(b) \in Int
  BY <1>1
<1>3. Sign(a) \in {-1, 1} /\ Sign(b) \in {-1, 1}
  BY DEF Sign
<1>4. Sign(a) * Sign(b) \in {-1, 1}
  BY <1>3
<1>5. CDiv(a, b) \in Int
  BY <1>2, <1>4 DEF CDiv
<1> QED
  BY <1>5 DEF CRem

\* A slice of integers is a work descriptor.
LEMMA SliceTyped ==
  ASSUME NEW l \in Loops, NEW a \in Int, NEW b \in Int, NEW c \in Int, NEW e \in Int
  PROVE  /\ Slice(l, a, b, c, e) \in WDs /\ IsSlice(Slice(l, a, b, c, e))
         /\ Slice(l, a, b, c, e).loop = l
BY DEF Slice, WDs, SliceDs, IsSlice

\* The loops and what is left of them are integers.
LEMMA LoopTypes ==
  ASSUME IInv, NEW l \in Loops
  PROVE  /\ prog.loops[l].lower \in Int /\ prog.loops[l].upper \in Int
         /\ prog.loops[l].step \in Int \ {0} /\ prog.loops[l].chunk \in Nat
         /\ nli[l].lower \in Int /\ nli[l].upper \in Int /\ nli[l].chunk \in Int
BY Basics DEF LoopInfos, IInv, Shape, Ints

\* A loop goes to the ready queue.
LEMMA SubmitSlicedStep == ASSUME IInv, NEW t \in Threads, SubmitSliced(t) PROVE IInv'
<1> USE DEF SubmitSliced, Goto, Creating, Info
<1>0. KeepsFilled
  BY DEF KeepsFilled, Filled
<1>1. PICK l \in Loops : l = at[t]
  BY Basics
<1>2. Policy(l) \in SlicerPolicies /\ prog.mode = "ompss" /\ Policy(l) \notin Guarded \cup Shared
  BY <1>1, Basics DEF Policy, SlicerPolicies, Guarded, Shared
<1>3. PICK w \in WDs : w.d = Sliced /\ pool' = Append(pool, w)
  BY <1>1 DEF WDs
<1>4. pc'[t] \in {"create", "wait"} /\ pc' \in [Threads -> PCs] /\ pc[t] = "create"
  BY Basics DEF AfterSubmit, PCs
<1>5. Max2(prog.loops[l].chunk, 1) \in Int
  BY LoopTypes DEF Max2
<1>6. nli' \in [Loops -> Ints]
  <2>1. [lower |-> prog.loops[l].lower, upper |-> prog.loops[l].upper,
         chunk |-> Max2(prog.loops[l].chunk, 1)] \in Ints
    BY <1>5, LoopTypes DEF Ints
  <2>2. nli' = [nli EXCEPT ![l] = [lower |-> prog.loops[l].lower, upper |-> prog.loops[l].upper,
                                   chunk |-> Max2(prog.loops[l].chunk, 1)]]
    BY <1>1
  <2> QED
    BY <2>1, <2>2 DEF IInv, Shape
<1>7. /\ pool' \in Seq(WDs)
      /\ \A k \in DOMAIN pool' : (k \in DOMAIN pool /\ pool'[k] = pool[k]) \/ pool'[k] = w
  BY <1>3, AppendTyped DEF IInv, Shape
<1>8. Shape'
  BY <1>6, <1>7, SameSets DEF IInv, Shape
<1>9. at' \in [Threads -> 1 .. Len(prog.loops) + 1] /\ at'[t] = l + 1
  BY <1>1, Basics
<1>10. TypeOK'
  BY <1>4, <1>8, <1>9, QuietTypes DEF IInv, TypeOK
<1>11. PlaceOf(t)'
  BY <1>2, <1>4, Basics DEF PlaceOf, Past
<1>12. OthersRest(t) /\ Reached(t)' = Reached(t) + 1 /\ Reached(t) = l
  BY <1>1, <1>4, <1>9, Basics DEF Reached, Past, OthersRest
<1>13. Entries'
  <2>1. \A v \in WDs : (OfStatic(v) => OfStatic(v)') /\ (OfShared(v) => OfShared(v)')
    BY <1>0, EntryKept
  <2>2. \A u \in Threads : \A k \in DOMAIN nextWDs[u] :
          OfStatic(nextWDs[u][k])' \/ IsSlice(nextWDs[u][k])
    BY <2>1 DEF IInv, Entries, Shape
  <2>3. ASSUME NEW k \in DOMAIN pool' PROVE OfShared(pool[k])' \/ pool'[k].d = Sliced
    <3>1. pool'[k] \in WDs
      BY <1>7, <2>3
    <3>2. PICK v \in WDs : v = pool'[k] /\ (OfShared(v) \/ v.d = Sliced)
      BY <1>3, <1>7, <2>3, <3>1 DEF IInv, Entries
    <3> QED
      BY <2>1, <3>2 DEF OfShared, Policy, Filled
  <2> QED
    BY <2>2, <2>3 DEF Entries, IsSlice, OfStatic, Policy
<1> QED
  BY <1>2, <1>8, <1>10, <1>11, <1>12, <1>13, QuietStep

\* A thread gets the slice w of the first work descriptor of the ready queue.
LEMMA SliceTaken ==
  ASSUME IInv, NEW t \in Threads, pc[t] = "wait", pool # <<>>, NEW w \in WDs, IsSlice(w),
         work' = [work EXCEPT ![t] = w], pc' = [pc EXCEPT ![t] = "slice"],
         pool' = pool \/ pool' = Tail(pool), nli' \in [Loops -> Ints],
         UNCHANGED <<prog, at, desc, linked, pos, singleGuard, mySingle, nextWDs, elected, done,
                     again, lastpriv>>
  PROVE  IInv'
<1>0. KeepsFilled
  BY DEF KeepsFilled, Filled
<1>1. /\ pool \in Seq(WDs) /\ Tail(pool) \in Seq(WDs)
      /\ \A k \in DOMAIN Tail(pool) : k + 1 \in DOMAIN pool /\ Tail(pool)[k] = pool[k + 1]
  BY TailTyped DEF IInv, Shape
<1>2. Shape'
  BY <1>1, SameSets DEF IInv, Shape
<1>3. TypeOK'
  BY <1>2, Basics, QuietTypes DEF PCs, IInv, TypeOK
<1>4. prog.mode = "ompss" /\ w.loop \in Loops /\ Loops' = Loops
  BY DEF IInv, Places, PlaceOf, WDs, Loops
<1>5. PlaceOf(t)'
  BY <1>4, Basics DEF PlaceOf, Past, IsSlice
<1>6. Reached(t)' = Reached(t) /\ OthersRest(t)
  BY <1>4, Basics DEF Reached, Past, OthersRest
<1>7. Entries'
  <2>1. \A v \in WDs : (OfStatic(v) => OfStatic(v)') /\ (OfShared(v) => OfShared(v)')
    BY <1>0, EntryKept
  <2>2. \A u \in Threads : \A k \in DOMAIN nextWDs[u] :
          OfStatic(nextWDs[u][k])' \/ IsSlice(nextWDs[u][k])
    BY <2>1 DEF IInv, Entries, Shape
  <2>3. ASSUME NEW k \in DOMAIN pool' PROVE OfShared(pool[k])' \/ pool'[k].d = Sliced
    <3>1. \E j \in DOMAIN pool : pool'[k] = pool[j]
      BY <1>1, <2>3
    <3>2. PICK v \in WDs : v = pool'[k] /\ (OfShared(v) \/ v.d = Sliced)
      BY <1>1, <3>1 DEF IInv, Entries
    <3> QED
      BY <2>1, <3>2 DEF OfShared, Policy, Filled
  <2> QED
    BY <2>2, <2>3 DEF Entries, IsSlice, OfStatic, Policy
<1> QED
  BY <1>2, <1>3, <1>5, <1>6, <1>7, QuietStep

\* A chunk of a loop.
LEMMA TakeSliceStep == ASSUME IInv, NEW t \in Threads, TakeSlice(t) PROVE IInv'
<1>0. pool \in Seq(WDs) /\ pool # <<>>
  BY DEF TakeSlice, IInv, Shape
<1>1. PICK l \in Loops : l = Head(pool).loop
  <2>1. Head(pool) \in WDs
    BY <1>0
  <2> QED
    BY <2>1 DEF WDs
<1>2. PICK upper \in Int : upper = CutAt(prog.loops[l].policy, nli[l], prog.loops[l].step)
  <2>0. nli[l].upper - nli[l].lower \in Int /\ prog.loops[l].step \in Int \ {0}
    BY LoopTypes
  <2>1. CDiv(nli[l].upper - nli[l].lower, prog.loops[l].step) + 1 \in Int
    <3>1. CDiv(nli[l].upper - nli[l].lower, prog.loops[l].step) \in Int
      BY <2>0, CDivInt
    <3> QED
      BY <3>1
  <2>2. CDiv(CDiv(nli[l].upper - nli[l].lower, prog.loops[l].step) + 1, 2 * N) \in Int
    BY <2>1, CDivInt, NAssumption
  <2>3. \A a, b \in Int : Max2(a, b) \in Int
    BY DEF Max2
  <2>4. \A a, b \in Int : a * b \in Int /\ a + b \in Int /\ a - b \in Int
    OBVIOUS
  <2> QED
    BY <2>2, <2>3, <2>4, LoopTypes DEF CutAt
<1>3. PICK w \in WDs : /\ IsSlice(w) /\ work' = [work EXCEPT ![t] = w]
                       /\ pool' = pool \/ pool' = Tail(pool)
                       /\ nli' = nli \/ nli' = [nli EXCEPT ![l].lower = upper + prog.loops[l].step]
  <2>1. Slice(l, nli[l].lower, nli[l].upper, 0, 0) \in WDs
        /\ IsSlice(Slice(l, nli[l].lower, nli[l].upper, 0, 0))
    BY LoopTypes, SliceTyped
  <2>2. Slice(l, nli[l].lower, upper, 0, 0) \in WDs
        /\ IsSlice(Slice(l, nli[l].lower, upper, 0, 0))
    BY LoopTypes, SliceTyped
  <2> QED
    BY <1>1, <1>2, <2>1, <2>2 DEF TakeSlice
<1>4. nli' \in [Loops -> Ints]
  <2>1. nli \in [Loops -> Ints]
    BY DEF IInv, Shape
  <2>2. upper + prog.loops[l].step \in Int
    BY LoopTypes
  <2> QED
    BY <1>3, <2>1, <2>2 DEF Ints
<1> QED
  BY <1>3, <1>4, SliceTaken DEF TakeSlice, Goto

\* A section or a repetition.
LEMMA TakeSectionStep == ASSUME IInv, NEW t \in Threads, TakeSection(t) PROVE IInv'
<1>0. pool \in Seq(WDs) /\ pool # <<>>
  BY DEF TakeSection, IInv, Shape
<1>1. PICK l \in Loops : l = Head(pool).loop
  <2>1. Head(pool) \in WDs
    BY <1>0
  <2> QED
    BY <2>1 DEF WDs
<1>2. PICK n \in Int : n = nli[l].upper
  BY LoopTypes
<1>3. PICK w \in WDs : /\ IsSlice(w) /\ work' = [work EXCEPT ![t] = w]
                       /\ pool' = pool \/ pool' = Tail(pool)
                       /\ nli' = nli \/ nli' = [nli EXCEPT ![l].upper = n - 1]
  <2>1. Slice(l, 0, n, 0, 0) \in WDs /\ IsSlice(Slice(l, 0, n, 0, 0))
    BY SliceTyped
  <2>2. Slice(l, n, n, 0, 0) \in WDs /\ IsSlice(Slice(l, n, n, 0, 0))
    BY SliceTyped
  <2> QED
    BY <1>1, <1>2, <2>1, <2>2 DEF TakeSection
<1>4. nli' \in [Loops -> Ints]
  <2>1. nli \in [Loops -> Ints]
    BY DEF IInv, Shape
  <2>2. n - 1 \in Int
    BY LoopTypes
  <2> QED
    BY <1>3, <2>1, <2>2 DEF Ints
<1> QED
  BY <1>3, <1>4, SliceTaken DEF TakeSection, Goto

\* The body of a slice.
LEMMA RunSliceStep == ASSUME IInv, NEW t \in Threads, RunSlice(t) PROVE IInv'
<1> USE DEF RunSlice, Goto
<1>0. KeepsFilled
  BY DEF KeepsFilled, Filled
<1>1. work[t].loop \in Loops /\ prog.mode = "ompss"
  BY DEF IInv, Places, PlaceOf
<1>2. /\ done' \in [Loops -> SUBSET Space] /\ again' \in [Loops -> SUBSET Space]
      /\ lastpriv' \in [Loops -> SUBSET Space]
  BY <1>1, ExecuteTypes DEF IInv
<1>3. Shape'
  BY SameSets DEF IInv, Shape
<1>4. TypeOK'
  BY <1>2, <1>3, Basics, QuietTypes DEF PCs
<1>5. PlaceOf(t)'
  BY <1>1, Basics DEF PlaceOf, Past
<1>6. Reached(t)' = Reached(t) /\ OthersRest(t)
  BY <1>1, Basics DEF Reached, Past, OthersRest
<1> QED
  BY <1>0, <1>3, <1>4, <1>5, <1>6, SameEntries, QuietStep

\* The slices of a static loop.
LEMMA StaticSliceTyped ==
  ASSUME IInv, NEW l \in Loops, NEW u \in Threads
  PROVE  StaticSlice(l, u) \in WDs /\ IsSlice(StaticSlice(l, u)) /\ StaticSlice(l, u).loop = l
<1> DEFINE i == prog.loops[l]
           n == NIters(i)
           adjust == CRem(n, N)
           block == CDiv(n, N) * i.step
           first == Cardinality({j \in 0 .. u - 1 : adjust > j})
           offset == i.chunk * i.step
<1>1. i.lower \in Int /\ i.upper \in Int /\ i.step \in Int \ {0} /\ i.chunk \in Int /\ u \in Int
  BY LoopTypes, Basics
<1>2. i.upper - i.lower \in Int /\ N \in Int \ {0}
  BY <1>1, NAssumption
<1>3. CDiv(i.upper - i.lower, i.step) \in Int
  BY <1>1, <1>2, CDivInt
<1>4. n \in Int
  BY <1>3 DEF NIters
<1>5. CDiv(n, N) \in Int /\ adjust \in Int
  BY <1>2, <1>4, CDivInt
<1>6. first \in Int
  <2>1. IsFiniteSet(0 .. u - 1)
    BY <1>1, FS_Interval
  <2>2. IsFiniteSet({j \in 0 .. u - 1 : adjust > j})
    BY <2>1, FS_Subset
  <2> QED
    BY <2>2, FS_CardinalityType
<1> HIDE DEF n, adjust, first
<1>7. block \in Int /\ offset \in Int
  BY <1>1, <1>5
<1> HIDE DEF block, offset
<1>8. /\ i.lower + block * u + first * i.step \in Int
      /\ block + (IF adjust > u THEN i.step ELSE 0) \in Int
      /\ n * i.step \in Int /\ i.lower + u * offset \in Int /\ offset * N \in Int
  <2>1. block * u \in Int /\ first * i.step \in Int /\ n * i.step \in Int /\ u * offset \in Int
        /\ offset * N \in Int
    BY <1>1, <1>2, <1>4, <1>6, <1>7
  <2> QED
    BY <1>1, <1>7, <2>1
<1>9. StaticSlice(l, u) =
        IF i.chunk = 0
        THEN Slice(l, i.lower + block * u + first * i.step, i.upper,
                   block + (IF adjust > u THEN i.step ELSE 0), n * i.step)
        ELSE Slice(l, i.lower + u * offset, i.upper, offset, offset * N)
  BY DEF StaticSlice, n, adjust, first, block, offset
<1> HIDE DEF i
<1>10. CASE i.chunk = 0
  <2>1. PICK a \in Int, b \in Int, c \in Int, e \in Int :
          StaticSlice(l, u) = Slice(l, a, b, c, e)
    BY <1>1, <1>8, <1>9, <1>10
  <2> QED
    BY <2>1, SliceTyped
<1>11. CASE i.chunk # 0
  <2>1. PICK a \in Int, b \in Int, c \in Int, e \in Int :
          StaticSlice(l, u) = Slice(l, a, b, c, e)
    BY <1>1, <1>7, <1>8, <1>9, <1>11
  <2> QED
    BY <2>1, SliceTyped
<1> QED
  BY <1>10, <1>11

\* A static loop is cut into slices.
LEMMA SubmitStaticStep == ASSUME IInv, NEW t \in Threads, SubmitStatic(t) PROVE IInv'
<1> USE DEF SubmitStatic, Goto, Creating, Info
<1>0. KeepsFilled
  BY DEF KeepsFilled, Filled
<1>1. PICK l \in Loops : l = at[t]
  BY Basics
<1>2. Policy(l) \in SlicerPolicies /\ prog.mode = "ompss" /\ Policy(l) \notin Guarded \cup Shared
  BY <1>1, Basics DEF Policy, SlicerPolicies, Guarded, Shared
<1>3. \A u \in Threads : StaticSlice(l, u) \in WDs /\ IsSlice(StaticSlice(l, u))
                         /\ StaticSlice(l, u).loop = l
  BY StaticSliceTyped
<1>4. /\ pc[t] = "create" /\ pc'[t] = "inline" /\ pc' \in [Threads -> PCs]
      /\ at' \in [Threads -> 1 .. Len(prog.loops) + 1] /\ at'[t] = l + 1
  BY <1>1, Basics DEF PCs
<1>5. PICK w \in WDs : IsSlice(w) /\ work' = [work EXCEPT ![t] = w]
  BY <1>1, <1>3
<1>6. ASSUME NEW u \in Threads
      PROVE  /\ nextWDs'[u] \in Seq(WDs)
             /\ \A k \in DOMAIN nextWDs'[u] :
                  \/ k \in DOMAIN nextWDs[u] /\ nextWDs'[u][k] = nextWDs[u][k]
                  \/ IsSlice(nextWDs'[u][k])
  <2>1. nextWDs[u] \in Seq(WDs)
    BY DEF IInv, Shape
  <2>2. nextWDs'[u] = nextWDs[u] \/ nextWDs'[u] = Append(nextWDs[u], StaticSlice(l, u))
    BY <1>1
  <2>3. CASE nextWDs'[u] = nextWDs[u]
    BY <2>1, <2>3
  <2>4. CASE nextWDs'[u] = Append(nextWDs[u], StaticSlice(l, u))
    <3>1. PICK v \in WDs : IsSlice(v) /\ nextWDs'[u] = Append(nextWDs[u], v)
      BY <1>3, <2>4
    <3>2. IsSlice(v)'
      BY <3>1 DEF IsSlice
    <3>3. /\ nextWDs'[u] \in Seq(WDs)
          /\ \A k \in DOMAIN nextWDs'[u] :
               (k \in DOMAIN nextWDs[u] /\ nextWDs'[u][k] = nextWDs[u][k]) \/ nextWDs'[u][k] = v
      BY <2>1, <3>1, AppendTyped
    <3> QED
      BY <3>1, <3>3
  <2> QED
    BY <2>2, <2>3, <2>4
<1>7. nextWDs' \in [Threads -> Seq(WDs)]
  BY <1>6
<1>8. Shape'
  BY <1>5, <1>7, SameSets DEF IInv, Shape
<1>9. TypeOK'
  BY <1>4, <1>8, QuietTypes DEF IInv, TypeOK
<1>10. PlaceOf(t)'
  <2>1. work'[t] = w /\ w.loop \in Loops /\ Loops' = Loops
    BY <1>5, Basics DEF WDs, Loops
  <2> QED
    BY <1>2, <1>4, <1>5, <2>1, Basics DEF PlaceOf, Past, IsSlice
<1>11. OthersRest(t) /\ Reached(t)' = Reached(t) + 1 /\ Reached(t) = l
  BY <1>1, <1>2, <1>4, Basics DEF Reached, Past, OthersRest
<1>12. Entries'
  <2>1. \A v \in WDs : (OfStatic(v) => OfStatic(v)') /\ (OfShared(v) => OfShared(v)')
    BY <1>0, EntryKept
  <2>2. \A k \in DOMAIN pool : OfShared(pool[k])' \/ pool[k].d = Sliced
    BY <2>1 DEF IInv, Entries, Shape
  <2>3. ASSUME NEW u \in Threads, NEW k \in DOMAIN nextWDs'[u]
        PROVE  OfStatic(nextWDs[u][k])' \/ IsSlice(nextWDs[u][k])'
    <3>1. nextWDs'[u][k] \in WDs
      BY <1>6, <2>3
    <3>2. PICK v \in WDs : v = nextWDs'[u][k] /\ (OfStatic(v) \/ IsSlice(v))
      BY <1>6, <2>3, <3>1 DEF IInv, Entries
    <3> QED
      BY <2>1, <3>2 DEF OfStatic, IsSlice, Policy
  <2> QED
    BY <2>2, <2>3 DEF Entries
<1> QED
  BY <1>2, <1>8, <1>9, <1>10, <1>11, <1>12, QuietStep

\* A chunk of such a slice, or its end.
LEMMA StaticLoopStep == ASSUME IInv, NEW t \in Threads, StaticLoop(t) PROVE IInv'
<1>0. KeepsFilled /\ UNCHANGED <<prog, at, desc, linked, pos, singleGuard, mySingle, nextWDs, pool,
                                 elected, nli>> /\ pc[t] \in {"slice", "inline"}
  BY DEF KeepsFilled, Filled, StaticLoop
<1>1. PICK l \in Loops : l = work[t].loop
  BY <1>0 DEF IInv, Places, PlaceOf
<1>2. prog.mode = "ompss" /\ work[t] \in WDs /\ IsSlice(work[t])
  BY <1>0, <1>1, Basics, DescriptorFacts DEF IInv, Places, PlaceOf, NoWork
<1>3. work[t].d \in SliceDs
  BY <1>2, Basics, DescriptorSet, DescriptorFacts DEF WDs, IsSlice
<1>4. CASE pc' = pc /\ ~ Beyond(work[t].d[2], work[t].d[3], prog.loops[l].step)
  <2>1. PICK w \in WDs : IsSlice(w) /\ work' = [work EXCEPT ![t] = w]
    <3>1. PICK a \in Int, b \in Int, c \in Int, e \in Int :
            a = work[t].d[2] /\ b = work[t].d[3] /\ c = work[t].d[4] /\ e = work[t].d[5]
      BY <1>3, DescriptorFacts
    <3>2. work' = [work EXCEPT ![t] = Slice(l, a + e, b, c, e)]
      BY <1>1, <1>4, <3>1 DEF StaticLoop
    <3>3. a + e \in Int
      OBVIOUS
    <3> QED
      BY <3>2, <3>3, SliceTyped
  <2>2. PICK item : Execute(l, item)
    BY <1>1, <1>4 DEF StaticLoop
  <2>3. /\ done' \in [Loops -> SUBSET Space] /\ again' \in [Loops -> SUBSET Space]
        /\ lastpriv' \in [Loops -> SUBSET Space]
    BY <2>2, ExecuteTypes DEF IInv
  <2>4. Shape'
    BY <1>0, <2>1, SameSets DEF IInv, Shape
  <2>5. TypeOK'
    BY <1>0, <1>4, <2>3, <2>4, Basics, QuietTypes
  <2>6. PlaceOf(t)'
    BY <1>0, <1>2, <1>4, <2>1, Basics DEF PlaceOf, Past, IsSlice, WDs, Loops
  <2>7. Reached(t)' = Reached(t) /\ OthersRest(t)
    BY <1>0, <1>4, <2>1, Basics DEF Reached, Past, OthersRest
  <2> QED
    BY <1>0, <2>4, <2>5, <2>6, <2>7, SameEntries, QuietStep
<1>5. CASE /\ work' = [work EXCEPT ![t] = NoWork] /\ UNCHANGED <<done, again, lastpriv>>
           /\ pc' = [pc EXCEPT ![t] = IF pc[t] = "inline" THEN AfterSubmit ELSE "wait"]
  <2>1. Shape'
    BY <1>0, <1>5, SameSets DEF IInv, Shape
  <2>2. pc' \in [Threads -> PCs] /\ pc'[t] \in {"create", "wait"}
    BY <1>5, Basics DEF PCs, AfterSubmit
  <2>3. TypeOK'
    BY <1>0, <1>5, <2>1, <2>2, Basics, QuietTypes DEF IInv, TypeOK
  <2>4. PlaceOf(t)'
    BY <1>0, <1>2, <2>2, Basics DEF PlaceOf, Past
  <2>5. Reached(t)' = Reached(t) /\ OthersRest(t)
    BY <1>0, <1>2, <1>5, <2>2, Basics DEF Reached, Past, OthersRest
  <2> QED
    BY <1>0, <2>1, <2>3, <2>4, <2>5, SameEntries, QuietStep
<1> QED
  BY <1>1, <1>4, <1>5 DEF StaticLoop, Goto

-----------------------------------------------------------------------------
(* The plugins: steps that change descriptors or counters.                 *)

\* A step that changes descriptors and leaves the counters alone.
LEMMA CalmStep ==
  ASSUME IInv, NEW t \in Threads,
         UNCHANGED <<prog, linked, pos, singleGuard, mySingle, elected>>, OthersRest(t),
         Reached(t)' = Reached(t), KeepsFilled, Published',
         TypeOK', Shape', Entries', PlaceOf(t)'
  PROVE  IInv'
<1>1. Elections'
  BY DEF IInv, Policy, Loops, Elections, Passed
<1>2. Places'
  BY OthersKeep
<1>3. \A u \in Threads : Reached(u)' = Reached(u)
  BY DEF OthersRest, Reached, Past
<1>4. Turns'
  BY <1>3 DEF IInv, Turns
<1> QED
  BY <1>1, <1>2, <1>4 DEF IInv

\* The position of a thread that has called create() is the place of its loop.
LEMMA TeamPlace ==
  ASSUME IInv, NEW t \in Threads, pc[t] \in {"init", "publish", "spin"}
  PROVE  /\ at[t] \in Loops /\ Policy(at[t]) \in Shared
         /\ Team(pos[t]) = Place(prog.loops, at[t]) /\ Team(pos[t]) \in Descriptors
<1>1. at[t] \in Loops /\ Policy(at[t]) \in Shared
  BY DEF IInv, Places, PlaceOf, Past
<1>2. pos[t] = Count(prog.loops, Shared, at[t] + 1)
  BY Basics DEF IInv, Turns, Reached, Past
<1>3. Count(prog.loops, Shared, at[t] + 1) = Count(prog.loops, Shared, at[t]) + 1
  BY <1>1, Basics, CountNext DEF Policy
<1>4. Team(pos[t]) = Place(prog.loops, at[t])
  BY <1>2, <1>3 DEF Place
<1> QED
  BY <1>1, <1>4, Basics, PlaceFacts

\* The other loops keep their descriptors.
LEMMA OtherPlaces ==
  ASSUME IInv, NEW l \in Loops, Policy(l) \in Shared, NEW p \in Descriptors,
         p = Place(prog.loops, l), \A e \in Descriptors : e # p => desc'[e] = desc[e]
  PROVE  \A m \in Loops : Policy(m) \in Shared /\ m # l =>
           desc'[Place(prog.loops, m)] = desc[Place(prog.loops, m)]
<1> SUFFICES ASSUME NEW m \in Loops, Policy(m) \in Shared, m # l
             PROVE  desc'[Place(prog.loops, m)] = desc[Place(prog.loops, m)]
  OBVIOUS
<1>1. Place(prog.loops, m) # p /\ Place(prog.loops, m) \in Descriptors
  BY Basics, PlaceFacts
<1> QED
  BY <1>1

\* Published descriptors describe their loops if the changed one does.
LEMMA StillPublished ==
  ASSUME IInv, prog' = prog, NEW l \in Loops, Filled(l)' \/ ~ desc'[Place(prog.loops, l)].ws,
         \A m \in Loops : Policy(m) \in Shared /\ m # l =>
           desc'[Place(prog.loops, m)] = desc[Place(prog.loops, m)]
  PROVE  Published'
<1> SUFFICES ASSUME NEW m \in Loops, Policy(m) \in Shared, desc'[Place(prog.loops, m)].ws
             PROVE  Filled(m)'
  BY DEF Published, Loops, Policy
<1>1. CASE m = l
  BY <1>1
<1>2. CASE m # l
  <2>1. Filled(m)
    BY <1>2 DEF IInv, Published
  <2> QED
    BY <1>2, <2>1 DEF Filled
<1> QED
  BY <1>1, <1>2

\* The elected thread initialises the descriptor of its loop.
LEMMA InitLoopStep == ASSUME IInv, NEW t \in Threads, InitLoop(t), UNCHANGED nli PROVE IInv'
<1> USE DEF InitLoop, Goto, Info
<1>1. PICK l \in Loops : l = at[t] /\ Policy(l) \in Shared
  BY TeamPlace
<1>2. PICK p \in Descriptors : p = Place(prog.loops, l) /\ p = Team(pos[t])
  BY <1>1, TeamPlace
<1>3. PICK d : d = SharedData(prog.loops[l])
  OBVIOUS
<1>4. /\ d.lower = prog.loops[l].lower /\ d.upper = prog.loops[l].upper /\ d.step = prog.loops[l].step
      /\ d.ws = FALSE
      /\ d \in Descs
  <2>1. Max2(prog.loops[l].chunk, 1) \in Int
    BY LoopTypes DEF Max2
  <2>2. PICK c \in Chunks : c = d.chunks
    BY <1>3 DEF Chunks
  <2>3. d = [ws |-> FALSE, lower |-> prog.loops[l].lower, upper |-> prog.loops[l].upper,
             step |-> prog.loops[l].step, chunk |-> Max2(prog.loops[l].chunk, 1),
             chunks |-> c, current |-> 0]
    BY <1>3, <2>2 DEF SharedData, Empty
  <2>4. d.lower = prog.loops[l].lower /\ d.upper = prog.loops[l].upper
        /\ d.step = prog.loops[l].step /\ d.ws = FALSE
    BY <2>3
  <2>5. d \in Descs
    BY <2>1, <2>2, <2>3, LoopTypes DEF Descs
  <2> QED
    BY <2>4, <2>5
<1>5. desc' = [desc EXCEPT ![p] = d] /\ p \in DOMAIN desc
  BY <1>1, <1>2, <1>3 DEF IInv, Shape
<1>6. Filled(l)' /\ ~ desc'[p].ws
  BY <1>2, <1>4, <1>5 DEF Filled, Describes
<1>7. \A m \in Loops : Policy(m) \in Shared /\ m # l =>
         desc'[Place(prog.loops, m)] = desc[Place(prog.loops, m)]
  <2>1. \A e \in Descriptors : e # p => desc'[e] = desc[e]
    BY <1>5 DEF IInv, Shape
  <2> HIDE DEF InitLoop
  <2> QED
    BY <1>1, <1>2, <2>1, OtherPlaces
<1>8. KeepsFilled
  BY <1>6, <1>7 DEF KeepsFilled, Filled
<1>9. Published'
  BY <1>6, <1>7, StillPublished
<1>10. Shape'
  BY <1>4, <1>5, SameSets DEF IInv, Shape
<1>11. TypeOK'
  BY <1>10, Basics, QuietTypes DEF PCs, IInv, TypeOK
<1>12. PlaceOf(t)'
  BY <1>1, <1>6, Basics, SameSets DEF PlaceOf, Past, Policy
<1>13. Reached(t)' = Reached(t) /\ OthersRest(t)
  BY Basics DEF Reached, Past, OthersRest
<1> QED
  BY <1>8, <1>9, <1>10, <1>11, <1>12, <1>13, SameEntries, CalmStep

\* It publishes the descriptor.
LEMMA PublishStep == ASSUME IInv, NEW t \in Threads, Publish(t), UNCHANGED nli PROVE IInv'
<1> USE DEF Publish, Goto, Created
<1>1. PICK l \in Loops : l = at[t] /\ Policy(l) \in Shared /\ Filled(l)
  BY TeamPlace DEF IInv, Places, PlaceOf
<1>2. PICK p \in Descriptors : p = Place(prog.loops, l) /\ p = Team(pos[t])
  BY <1>1, TeamPlace
<1>3. PICK d \in Descs :
         /\ desc' = [desc EXCEPT ![p] = d] /\ d.lower = desc[p].lower
         /\ d.upper = desc[p].upper /\ d.step = desc[p].step
  <2>1. desc' = [desc EXCEPT ![p] = [desc[p] EXCEPT !.ws = TRUE]]
    BY <1>2 DEF IInv, Shape
  <2>2. desc[p] \in Descs
    BY <1>2 DEF IInv, Shape
  <2>3. [desc[p] EXCEPT !.ws = TRUE] \in Descs
    BY <2>2 DEF Descs
  <2> QED
    BY <2>1, <2>2, <2>3 DEF Descs
<1>4. desc'[p] = d /\ p \in DOMAIN desc
  BY <1>3 DEF IInv, Shape
<1>5. Filled(l)'
  BY <1>1, <1>2, <1>3, <1>4 DEF Filled, Describes
<1>6. \A m \in Loops : Policy(m) \in Shared /\ m # l =>
         desc'[Place(prog.loops, m)] = desc[Place(prog.loops, m)]
  <2>1. \A e \in Descriptors : e # p => desc'[e] = desc[e]
    BY <1>3 DEF IInv, Shape
  <2> HIDE DEF Publish
  <2> QED
    BY <1>1, <1>2, <2>1, OtherPlaces
<1>7. KeepsFilled
  BY <1>5, <1>6 DEF KeepsFilled, Filled
<1>8. Published'
  BY <1>5, <1>6, StillPublished
<1>9. PICK w \in WDs : w.loop = l /\ w.d = p /\ work' = [work EXCEPT ![t] = w]
  BY <1>1, <1>2 DEF WDs
<1>10. Shape'
  <2>1. desc' \in [Descriptors -> Descs] /\ work' \in [Threads -> WDs \cup {NoWork}]
    BY <1>3, <1>9 DEF IInv, Shape
  <2> QED
    BY <2>1, SameSets DEF IInv, Shape
<1>11. TypeOK'
  BY <1>10, Basics, QuietTypes DEF PCs, IInv, TypeOK
<1>12. OfShared(w)'
  BY <1>1, <1>2, <1>5, <1>9 DEF OfShared, Policy
<1>13. PlaceOf(t)'
  BY <1>1, <1>9, <1>12, Basics, SameSets DEF PlaceOf, Past, OfShared, Policy
<1>14. Reached(t)' = Reached(t) /\ OthersRest(t)
  BY Basics DEF Reached, Past, OthersRest
<1> QED
  BY <1>7, <1>8, <1>10, <1>11, <1>13, <1>14, SameEntries, CalmStep

\* Descriptors outside the team's list do not matter to it.
LEMMA TeamUntouched ==
  ASSUME IInv, prog' = prog,
         \A e \in Descriptors : e[1] = "team" => desc'[e] = desc[e]
  PROVE  KeepsFilled /\ Published'
<1>1. \A l \in Loops : Policy(l) \in Shared =>
         desc'[Place(prog.loops, l)] = desc[Place(prog.loops, l)]
  BY Basics, PlaceFacts
<1>2. KeepsFilled
  BY <1>1 DEF KeepsFilled, Filled
<1>3. Published'
  <2> SUFFICES ASSUME NEW m \in Loops, Policy(m) \in Shared, desc'[Place(prog.loops, m)].ws
               PROVE  Filled(m)'
    BY DEF Published, Loops, Policy
  <2>1. Filled(m)
    BY <1>1 DEF IInv, Published
  <2> QED
    BY <1>2, <2>1 DEF KeepsFilled
<1> QED
  BY <1>2, <1>3

\* The types of a step that moves the counters.
LEMMA CounterTypes ==
  ASSUME IInv, prog' = prog, at' = at, pc' \in [Threads -> PCs], Shape', Elections',
         UNCHANGED <<done, again, lastpriv>>,
         linked' \in 0 .. Len(prog.loops), pos' \in [Threads -> 0 .. linked'],
         singleGuard' \in 0 .. Len(prog.loops), mySingle' \in [Threads -> 0 .. Len(prog.loops)],
         DOMAIN elected' = Loops, elected' = [l \in Loops |-> elected'[l]]
  PROVE  TypeOK'
<1>1. Loops' = Loops
  BY DEF Loops
<1>2. Typed'
  BY ItemsTyped, PTL
<1>3. elected' \in [Loops -> 0 .. N]
  BY <1>1, NAssumption DEF Elections
<1> QED
  BY <1>1, <1>2, <1>3 DEF TypeOK, Typed, IInv, PCs

\* The counter passes the loop whose number it has, and no other.
LEMMA NextPassed ==
  ASSUME NEW ls, NEW n \in Nat, DOMAIN ls = 1 .. n, NEW S, NEW l \in 1 .. n, NEW m \in 1 .. n,
         ls[l].policy \in S, ls[m].policy \in S
  PROVE  Count(ls, S, m) < Count(ls, S, l) + 1 <=> Count(ls, S, m) < Count(ls, S, l) \/ m = l
<1>1. Count(ls, S, l) \in Nat /\ Count(ls, S, m) \in Nat
  BY CountFacts
<1>2. l < m <=> Count(ls, S, l) < Count(ls, S, m)
  BY CountOrder
<1>3. m < l <=> Count(ls, S, m) < Count(ls, S, l)
  BY CountOrder
<1> QED
  BY <1>1, <1>2, <1>3

\* The thread that advances a counter is the single of its loop.
LEMMA Elected ==
  ASSUME IInv, prog' = prog, NEW l \in Loops,
         \/ /\ Policy(l) \in Guarded /\ linked' = linked
            /\ \/ singleGuard' = singleGuard /\ elected' = elected
               \/ /\ Count(prog.loops, Guarded, l) = singleGuard /\ singleGuard' = singleGuard + 1
                  /\ elected' = [elected EXCEPT ![l] = @ + 1]
         \/ /\ Policy(l) \in Shared /\ singleGuard' = singleGuard
            /\ \/ linked' = linked /\ elected' = elected
               \/ /\ Count(prog.loops, Shared, l) = linked /\ linked' = linked + 1
                  /\ elected' = [elected EXCEPT ![l] = @ + 1]
  PROVE  Elections' /\ DOMAIN elected' = Loops /\ elected' = [m \in Loops |-> elected'[m]]
<1>0. /\ elected \in [Loops -> 0 .. N] /\ N \in Nat
      /\ singleGuard \in Nat /\ linked \in Nat
      /\ \A m \in Loops : elected[m] = IF Passed(m) THEN 1 ELSE 0
      /\ \A m \in Loops : Count(prog.loops, Guarded, m) \in Nat /\ Count(prog.loops, Shared, m) \in Nat
  <2>1. /\ elected \in [Loops -> 0 .. N] /\ N \in Nat
        /\ singleGuard \in Nat /\ linked \in Nat
    BY Basics, NAssumption DEF IInv, TypeOK
  <2>2. \A m \in Loops : elected[m] = IF Passed(m) THEN 1 ELSE 0
    BY DEF IInv, Elections
  <2>3. ASSUME NEW m \in Loops
        PROVE  Count(prog.loops, Guarded, m) \in Nat /\ Count(prog.loops, Shared, m) \in Nat
    <3>1. m \in Int
      BY Basics
    <3> QED
      BY <3>1, Basics, CountFacts
  <2> QED
    BY <2>1, <2>2, <2>3
<1>1. DOMAIN elected' = Loops /\ elected' = [m \in Loops |-> elected'[m]]
  BY <1>0
<1>2. ASSUME NEW m \in Loops PROVE elected'[m] = IF Passed(m)' THEN 1 ELSE 0
  <2>1. /\ Policy(m) \in Guarded => Policy(m) \notin Shared
        /\ Policy(l) \in Guarded => Policy(l) \notin Shared
    BY DEF Guarded, Shared
  <2>2. CASE singleGuard' = singleGuard /\ linked' = linked /\ elected' = elected
    BY <1>0, <2>2 DEF Passed, Policy
  <2>3. CASE /\ Policy(l) \in Guarded /\ linked' = linked
             /\ Count(prog.loops, Guarded, l) = singleGuard /\ singleGuard' = singleGuard + 1
             /\ elected' = [elected EXCEPT ![l] = @ + 1]
    <3>1. Policy(m) \in Guarded =>
            (Count(prog.loops, Guarded, m) < singleGuard + 1
               <=> Count(prog.loops, Guarded, m) < singleGuard \/ m = l)
      BY <2>3, Basics, NextPassed DEF Policy
    <3>2. Passed(m)' <=> Passed(m) \/ m = l
      BY <2>1, <2>3, <3>1 DEF Passed, Policy
    <3>3. ~ Passed(l)
      BY <1>0, <2>1, <2>3 DEF Passed
    <3> QED
      BY <1>0, <2>3, <3>2, <3>3
  <2>4. CASE /\ Policy(l) \in Shared /\ singleGuard' = singleGuard
             /\ Count(prog.loops, Shared, l) = linked /\ linked' = linked + 1
             /\ elected' = [elected EXCEPT ![l] = @ + 1]
    <3>1. Policy(m) \in Shared =>
            (Count(prog.loops, Shared, m) < linked + 1
               <=> Count(prog.loops, Shared, m) < linked \/ m = l)
      BY <2>4, Basics, NextPassed DEF Policy
    <3>2. Passed(m)' <=> Passed(m) \/ m = l
      BY <2>1, <2>4, <3>1 DEF Passed, Policy
    <3>3. ~ Passed(l)
      BY <1>0, <2>1, <2>4 DEF Passed
    <3> QED
      BY <1>0, <2>4, <3>2, <3>3
  <2> QED
    BY <2>2, <2>3, <2>4
<1>3. Elections'
  BY <1>2, SameSets DEF Elections
<1> QED
  BY <1>1, <1>3

\* Entries that no step of a plugin disturbs, and the rest of such a step.
LEMMA CreateFacts ==
  ASSUME IInv, NEW t \in Threads, Creating(t)
  PROVE  /\ at[t] \in Loops /\ pc[t] = "create" /\ Reached(t) = at[t]
         /\ mySingle[t] = Count(prog.loops, Guarded, at[t]) /\ mySingle[t] <= singleGuard
         /\ pos[t] = Count(prog.loops, Shared, at[t]) /\ pos[t] <= linked
         /\ Count(prog.loops, Guarded, at[t]) \in Nat /\ Count(prog.loops, Shared, at[t]) \in Nat
         /\ \A S : Count(prog.loops, S, at[t] + 1) \in 0 .. Len(prog.loops)
         /\ \A S : Count(prog.loops, S, at[t] + 1) =
                     Count(prog.loops, S, at[t]) + (IF Policy(at[t]) \in S THEN 1 ELSE 0)
<1>1. at[t] \in Loops /\ pc[t] = "create" /\ Reached(t) = at[t]
  BY Basics DEF Creating, Reached, Past
<1>2. PICK l \in Loops : l = at[t]
  BY <1>1
<1>3. \A S : Count(prog.loops, S, l) \in Nat /\ Count(prog.loops, S, l + 1) \in 0 .. Len(prog.loops)
  BY Basics, CountFacts
<1>4. \A S : Count(prog.loops, S, l + 1) =
               Count(prog.loops, S, l) + (IF Policy(l) \in S THEN 1 ELSE 0)
  BY Basics, CountNext DEF Policy
<1> QED
  BY <1>1, <1>2, <1>3, <1>4 DEF IInv, Turns

\* create() of a static loop.
LEMMA CreateStaticStep ==
  ASSUME IInv, NEW t \in Threads, CreateStatic(t), UNCHANGED nli PROVE IInv'
<1>1. PICK l \in Loops : l = at[t] /\ Policy(l) = "static"
  BY CreateFacts DEF CreateStatic, Info, Policy
<1>2. /\ UNCHANGED <<prog, at, linked, pos, nextWDs, pool, done, again, lastpriv, nli>>
      /\ Creating(t) /\ pc[t] = "create"
  BY DEF CreateStatic, Creating
<1>3. Policy(l) \in Guarded /\ Policy(l) \notin Shared
  BY <1>1 DEF Guarded, Shared
<1>4. /\ mySingle[t] = Count(prog.loops, Guarded, l) /\ mySingle[t] <= singleGuard
      /\ mySingle[t] + 1 = Count(prog.loops, Guarded, l + 1)
      /\ mySingle[t] \in Nat /\ mySingle[t] + 1 \in 0 .. Len(prog.loops) /\ singleGuard \in Nat
      /\ pos[t] = Count(prog.loops, Shared, l + 1)
  BY <1>1, <1>2, <1>3, CreateFacts DEF IInv, TypeOK
<1>5. /\ mySingle' = [mySingle EXCEPT ![t] = mySingle[t] + 1]
      /\ mySingle'[t] = mySingle[t] + 1 /\ mySingle' \in [Threads -> 0 .. Len(prog.loops)]
  BY <1>4 DEF CreateStatic, IInv, TypeOK
<1>6. \/ singleGuard' = singleGuard /\ elected' = elected /\ singleGuard # mySingle[t]
      \/ /\ Count(prog.loops, Guarded, l) = singleGuard /\ singleGuard' = singleGuard + 1
         /\ elected' = [elected EXCEPT ![l] = @ + 1]
  BY <1>1, <1>4, <1>5 DEF CreateStatic, Elect, Single
<1>7. singleGuard' \in 0 .. Len(prog.loops) /\ mySingle'[t] <= singleGuard' /\ singleGuard <= singleGuard'
  BY <1>4, <1>5, <1>6, Basics DEF IInv, TypeOK
<1>8. Elections' /\ DOMAIN elected' = Loops /\ elected' = [m \in Loops |-> elected'[m]]
  BY <1>2, <1>3, <1>6, Elected
<1>9. PICK d \in Descs : desc' = [desc EXCEPT ![Local(t)] = d]
  <2>1. [Empty EXCEPT !.ws = TRUE, !.lower = prog.loops[l].lower, !.upper = prog.loops[l].upper,
                      !.step = prog.loops[l].step, !.chunk = prog.loops[l].chunk] \in Descs
    <3>1. 0 \in Chunks
      BY DEF Chunks
    <3>2. /\ prog.loops[l].lower \in Int /\ prog.loops[l].upper \in Int
          /\ prog.loops[l].step \in Int /\ prog.loops[l].chunk \in Int
      BY LoopTypes
    <3> QED
      BY <3>1, <3>2 DEF Empty, Descs
  <2> QED
    BY <1>1, <2>1 DEF CreateStatic, Info
<1>10. KeepsFilled /\ Published'
  <2>1. \A e \in Descriptors : e[1] = "team" => desc'[e] = desc[e]
    BY <1>9, DescriptorFacts DEF IInv, Shape
  <2> QED
    BY <1>2, <2>1, TeamUntouched
<1>11. PICK w \in WDs : w.loop = l /\ w.d = Local(t) /\ work' = [work EXCEPT ![t] = w]
  BY <1>1, Basics, DescriptorSet DEF CreateStatic, Created, WDs
<1>12. Shape'
  <2>1. desc' \in [Descriptors -> Descs] /\ work' \in [Threads -> WDs \cup {NoWork}]
    BY <1>9, <1>11 DEF IInv, Shape
  <2> QED
    BY <1>2, <2>1, SameSets DEF IInv, Shape
<1>13. /\ pc' = [pc EXCEPT ![t] = IF prog.mode = "omp" THEN "items" ELSE "submit"]
       /\ pc' \in [Threads -> PCs]
  BY Basics DEF CreateStatic, Created, Goto, PCs
<1>14. TypeOK'
  <2>1. linked' \in 0 .. Len(prog.loops) /\ pos' \in [Threads -> 0 .. linked']
    BY <1>2 DEF IInv, TypeOK
  <2> QED
    BY <1>2, <1>5, <1>7, <1>8, <1>12, <1>13, <2>1, CounterTypes
<1>15. OthersRest(t)
  BY <1>2, <1>11, <1>13, Basics DEF OthersRest
<1>16. Reached(t)' = l + 1 /\ Past(t)'
  BY <1>1, <1>2, <1>13, Basics DEF Reached, Past
<1>17. PlaceOf(t)'
  <2>1. OfStatic(w)'
    BY <1>2, <1>3, <1>11 DEF OfStatic, Policy
  <2> QED
    BY <1>1, <1>2, <1>11, <1>13, <2>1, Basics, SameSets DEF PlaceOf
<1>18. Entries'
  BY <1>2, <1>10, SameEntries
<1>19. Places'
  BY <1>2, <1>10, <1>15, <1>17, OthersKeep
<1>20. Turns'
  <2>1. \A u \in Threads \ {t} : Reached(u)' = Reached(u) /\ mySingle'[u] = mySingle[u]
    BY <1>2, <1>5, <1>15 DEF OthersRest, Reached, Past, IInv, TypeOK
  <2>2. ASSUME NEW u \in Threads
        PROVE  /\ mySingle'[u] = Count(prog.loops, Guarded, Reached(u)') /\ mySingle'[u] <= singleGuard'
               /\ pos[u] = Count(prog.loops, Shared, Reached(u)') /\ pos[u] <= linked
    <3>1. CASE u = t
      BY <1>2, <1>4, <1>5, <1>7, <1>16, <3>1, CreateFacts
    <3>2. CASE u # t
      <4>1. mySingle[u] \in Nat /\ singleGuard' \in Nat /\ mySingle[u] <= singleGuard
        BY <1>7 DEF IInv, TypeOK, Turns
      <4> QED
        BY <1>4, <1>7, <2>1, <3>2, <4>1 DEF IInv, Turns
    <3> QED
      BY <3>1, <3>2
  <2> QED
    BY <1>2, <2>2 DEF Turns
<1> QED
  BY <1>8, <1>10, <1>12, <1>14, <1>18, <1>19, <1>20 DEF IInv

\* create() of a dynamic or guided loop takes its place in the list.
LEMMA LinkStep == ASSUME IInv, NEW t \in Threads, Link(t), UNCHANGED nli PROVE IInv'
<1>1. PICK l \in Loops : l = at[t] /\ Policy(l) \in Shared
  BY CreateFacts DEF Link, Info, Policy, Shared
<1>2. /\ UNCHANGED <<prog, at, work, desc, singleGuard, mySingle, nextWDs, pool, done, again,
                     lastpriv, nli>>
      /\ Creating(t) /\ pc[t] = "create"
  BY DEF Link, Creating
<1>3. Policy(l) \notin Guarded
  BY <1>1 DEF Guarded, Shared
<1>4. /\ pos[t] = Count(prog.loops, Shared, l) /\ pos[t] <= linked
      /\ pos[t] + 1 = Count(prog.loops, Shared, l + 1)
      /\ pos[t] \in Nat /\ pos[t] + 1 \in 0 .. Len(prog.loops) /\ linked \in Nat
      /\ mySingle[t] = Count(prog.loops, Guarded, l + 1)
  BY <1>1, <1>2, <1>3, CreateFacts DEF IInv, TypeOK
<1>5. pos' = [pos EXCEPT ![t] = pos[t] + 1] /\ pos'[t] = pos[t] + 1
  BY DEF Link, IInv, TypeOK
<1>6. \/ linked' = linked /\ elected' = elected /\ linked # pos[t]
      \/ /\ Count(prog.loops, Shared, l) = linked /\ linked' = linked + 1
         /\ elected' = [elected EXCEPT ![l] = @ + 1]
  BY <1>1, <1>4 DEF Link, Elect, LinkedWith
<1>7. linked' \in 0 .. Len(prog.loops) /\ pos'[t] <= linked' /\ linked <= linked'
  BY <1>4, <1>5, <1>6, Basics DEF IInv, TypeOK
<1>8. Elections' /\ DOMAIN elected' = Loops /\ elected' = [m \in Loops |-> elected'[m]]
  BY <1>1, <1>2, <1>6, Elected
<1>9. pos' \in [Threads -> 0 .. linked']
  <2>1. pos \in [Threads -> 0 .. linked] /\ linked' \in Nat
    BY <1>7 DEF IInv, TypeOK
  <2>2. \A u \in Threads : pos[u] \in 0 .. linked'
    BY <1>4, <1>7, <2>1
  <2>3. pos[t] + 1 \in 0 .. linked'
    BY <1>4, <1>5, <1>7
  <2> QED
    BY <1>5, <2>1, <2>2, <2>3
<1>10. KeepsFilled /\ Published'
  BY <1>2, TeamUntouched
<1>11. Shape'
  BY <1>2, SameSets DEF IInv, Shape
<1>12. pc' \in [Threads -> PCs] /\ pc'[t] \in {"init", "spin"}
       /\ \E s \in {"init", "spin"} : pc' = [pc EXCEPT ![t] = s]
  BY Basics DEF Link, Goto, PCs
<1>13. TypeOK'
  <2>1. singleGuard' \in 0 .. Len(prog.loops) /\ mySingle' \in [Threads -> 0 .. Len(prog.loops)]
    BY <1>2 DEF IInv, TypeOK
  <2> QED
    BY <1>2, <1>7, <1>8, <1>9, <1>11, <1>12, <2>1, CounterTypes
<1>14. OthersRest(t)
  BY <1>2, <1>12, Basics DEF OthersRest
<1>15. Reached(t)' = l + 1 /\ Past(t)'
  BY <1>1, <1>2, <1>12, Basics DEF Reached, Past
<1>16. PlaceOf(t)'
  BY <1>1, <1>2, <1>12, Basics, SameSets DEF PlaceOf, Policy
<1>17. Entries'
  BY <1>2, <1>10, SameEntries
<1>18. Places'
  BY <1>2, <1>10, <1>14, <1>16, OthersKeep
<1>19. Turns'
  <2>1. \A u \in Threads \ {t} : Reached(u)' = Reached(u) /\ pos'[u] = pos[u]
    BY <1>2, <1>5, <1>14 DEF OthersRest, Reached, Past, IInv, TypeOK
  <2>2. ASSUME NEW u \in Threads
        PROVE  /\ mySingle[u] = Count(prog.loops, Guarded, Reached(u)') /\ mySingle[u] <= singleGuard
               /\ pos'[u] = Count(prog.loops, Shared, Reached(u)') /\ pos'[u] <= linked'
    <3>1. CASE u = t
      BY <1>2, <1>4, <1>5, <1>7, <1>15, <3>1, CreateFacts
    <3>2. CASE u # t
      <4>1. pos[u] \in Nat /\ linked' \in Nat /\ pos[u] <= linked
        BY <1>7 DEF IInv, TypeOK, Turns
      <4> QED
        BY <1>4, <1>7, <2>1, <3>2, <4>1 DEF IInv, Turns
    <3> QED
      BY <3>1, <3>2
  <2> QED
    BY <1>2, <2>2 DEF Turns
<1> QED
  BY <1>8, <1>10, <1>11, <1>13, <1>17, <1>18, <1>19 DEF IInv

\* The replicate slicer submits a loop.
LEMMA SubmitStep == ASSUME IInv, NEW t \in Threads, Submit(t), UNCHANGED nli PROVE IInv'
<1>1. /\ UNCHANGED <<prog, linked, pos, singleGuard, mySingle, elected, done, again, lastpriv, nli>>
      /\ pc[t] = "submit" /\ work' = [work EXCEPT ![t] = NoWork]
      /\ at' = [at EXCEPT ![t] = @ + 1]
      /\ pc' = [pc EXCEPT ![t] = IF prog.nowait THEN "create" ELSE "wait"]
  BY DEF Submit, Goto
<1>2. /\ prog.mode = "ompss" /\ work[t].loop = at[t] /\ at[t] \in Loops
      /\ OfStatic(work[t]) \/ OfShared(work[t])
  BY <1>1 DEF IInv, Places, PlaceOf, Past
<1>3. PICK w \in WDs : w = work[t]
  BY <1>2, Basics DEF NoWork
<1>4. PICK l \in Loops : l = at[t] /\ w.loop = l
  BY <1>2, <1>3
<1>5. /\ pc' \in [Threads -> PCs] /\ pc'[t] \in {"create", "wait"}
      /\ at' \in [Threads -> 1 .. Len(prog.loops) + 1]
  BY <1>1, <1>2, Basics DEF PCs
<1>6. OthersRest(t) /\ Reached(t)' = Reached(t)
  BY <1>1, <1>2, <1>5, Basics DEF OthersRest, Reached, Past
<1>7. PlaceOf(t)'
  BY <1>1, <1>2, <1>5, Basics DEF PlaceOf, Past
<1>8. CASE Policy(l) = "static"
  <2>1. OfStatic(w) /\ w.d \in Descriptors
    <3>1. OfStatic(w)
      BY <1>2, <1>3, <1>4, <1>8 DEF OfShared, Shared
    <3> QED
      BY <1>4, <3>1, Basics, DescriptorSet DEF OfStatic
  <2>2. pool' = pool
    BY <1>4, <1>8 DEF Submit, Policy
  <2>3. ASSUME NEW u \in Threads
        PROVE  \E v \in WDs : OfStatic(v) /\ nextWDs'[u] = Append(nextWDs[u], v)
    <3>1. /\ [loop |-> l, d |-> Copy(l, u)] \in WDs
          /\ OfStatic([loop |-> l, d |-> Copy(l, u)])
      BY <1>4, <1>8, Basics, DescriptorSet DEF WDs, OfStatic, Guarded
    <3>2. nextWDs'[u] = Append(nextWDs[u], IF u = t THEN w ELSE [loop |-> l, d |-> Copy(l, u)])
      BY <1>3, <1>4, <1>8 DEF Submit, Policy
    <3> QED
      BY <2>1, <3>1, <3>2
  <2>4. ASSUME NEW e \in Descriptors
        PROVE  desc'[e] \in Descs /\ (e[1] = "team" => desc'[e] = desc[e])
    <3>1. desc'[e] = IF \E u \in Threads \ {t} : e = Copy(l, u) THEN desc[w.d] ELSE desc[e]
      BY <1>3, <1>4, <1>8 DEF Submit, Policy
    <3>2. e[1] = "team" => ~ \E u \in Threads \ {t} : e = Copy(l, u)
      BY DescriptorFacts
    <3> QED
      BY <2>1, <3>1, <3>2 DEF IInv, Shape
  <2>5. desc' \in [Descriptors -> Descs]
    <3>1. DOMAIN desc' = Descriptors /\ desc' = [e \in Descriptors |-> desc'[e]]
      BY <1>4, <1>8 DEF Submit, Policy
    <3> QED
      BY <2>4, <3>1
  <2>6. KeepsFilled /\ Published'
    BY <1>1, <2>4, TeamUntouched
  <2>7. ASSUME NEW u \in Threads
        PROVE  /\ nextWDs'[u] \in Seq(WDs)
               /\ \A k \in DOMAIN nextWDs'[u] :
                    OfStatic(nextWDs[u][k])' \/ IsSlice(nextWDs[u][k])'
    <3>1. PICK v \in WDs : OfStatic(v) /\ nextWDs'[u] = Append(nextWDs[u], v)
      BY <2>3
    <3>2. /\ nextWDs'[u] \in Seq(WDs)
          /\ \A k \in DOMAIN nextWDs'[u] :
               (k \in DOMAIN nextWDs[u] /\ nextWDs'[u][k] = nextWDs[u][k]) \/ nextWDs'[u][k] = v
      BY <3>1, AppendTyped DEF IInv, Shape
    <3>3. ASSUME NEW k \in DOMAIN nextWDs'[u]
          PROVE  OfStatic(nextWDs[u][k])' \/ IsSlice(nextWDs[u][k])'
      <4>1. nextWDs'[u][k] \in WDs
        BY <3>2, <3>3
      <4>2. PICK x \in WDs : x = nextWDs'[u][k] /\ (OfStatic(x) \/ IsSlice(x))
        BY <3>1, <3>2, <3>3, <4>1 DEF IInv, Entries
      <4>3. OfStatic(x) => OfStatic(x)'
        BY <1>1, <2>6, EntryKept
      <4> QED
        BY <4>2, <4>3 DEF OfStatic, IsSlice, Policy
    <3> QED
      BY <3>2, <3>3
  <2>8. Entries'
    <3>1. \A k \in DOMAIN pool : OfShared(pool[k])' \/ pool[k].d = Sliced
      BY <1>1, <2>2, <2>6, EntryKept DEF IInv, Entries, Shape
    <3> QED
      BY <2>2, <2>7, <3>1 DEF Entries, OfShared, Policy, Filled
  <2>9. Shape'
    <3>1. nextWDs' \in [Threads -> Seq(WDs)]
      <4>1. DOMAIN nextWDs' = Threads /\ nextWDs' = [u \in Threads |-> nextWDs'[u]]
        BY <1>4, <1>8 DEF Submit, Policy
      <4> QED
        BY <2>7, <4>1
    <3>2. work' \in [Threads -> WDs \cup {NoWork}]
      BY <1>1, Basics
    <3> QED
      BY <1>1, <2>2, <2>5, <3>1, <3>2, SameSets DEF IInv, Shape
  <2>10. TypeOK'
    BY <1>1, <1>5, <2>9, QuietTypes DEF IInv, TypeOK
  <2> QED
    BY <1>1, <1>6, <1>7, <2>6, <2>8, <2>9, <2>10, CalmStep
<1>9. CASE Policy(l) # "static"
  <2>1. OfShared(w)
    BY <1>2, <1>3, <1>4, <1>9 DEF OfStatic, Guarded
  <2>2. UNCHANGED <<desc, nextWDs>> /\ pool' = Append(pool, w)
    BY <1>3, <1>4, <1>9 DEF Submit, Policy
  <2>3. KeepsFilled
    BY <1>1, <2>2 DEF KeepsFilled, Filled
  <2>4. /\ pool' \in Seq(WDs)
        /\ \A k \in DOMAIN pool' : (k \in DOMAIN pool /\ pool'[k] = pool[k]) \/ pool'[k] = w
    BY <2>2, AppendTyped DEF IInv, Shape
  <2>5. Shape'
    BY <1>1, <2>2, <2>4, SameSets DEF IInv, Shape
  <2>6. TypeOK'
    BY <1>1, <1>5, <2>5, QuietTypes DEF IInv, TypeOK
  <2>7. Entries'
    <3>1. \A v \in WDs : (OfStatic(v) => OfStatic(v)') /\ (OfShared(v) => OfShared(v)')
      BY <1>1, <2>3, EntryKept
    <3>2. \A u \in Threads : \A k \in DOMAIN nextWDs[u] :
            OfStatic(nextWDs[u][k])' \/ IsSlice(nextWDs[u][k])
      BY <2>2, <3>1 DEF IInv, Entries, Shape
    <3>3. ASSUME NEW k \in DOMAIN pool' PROVE OfShared(pool[k])' \/ pool'[k].d = Sliced
      <4>1. pool'[k] \in WDs
        BY <2>4, <3>3
      <4>2. PICK v \in WDs : v = pool'[k] /\ (OfShared(v) \/ v.d = Sliced)
        BY <2>1, <2>4, <3>3, <4>1 DEF IInv, Entries
      <4> QED
        BY <3>1, <4>2 DEF OfShared, Policy, Filled
    <3> QED
      BY <2>2, <3>2, <3>3 DEF Entries, IsSlice, OfStatic, Policy
  <2> QED
    BY <1>1, <1>6, <1>7, <2>2, <2>5, <2>6, <2>7, QuietStep
<1> QED
  BY <1>8, <1>9

\* What nextItem leaves in a descriptor.
LEMMA AdvanceFacts ==
  ASSUME NEW d \in Descs, NEW policy
  PROVE  /\ Advance(policy, d) \in Descs
         /\ policy # "static" => /\ Advance(policy, d).lower = d.lower
                                 /\ Advance(policy, d).upper = d.upper
                                 /\ Advance(policy, d).step = d.step
<1>1. CASE policy = "static"
  <2>1. d.lower \in Int /\ d.upper \in Int /\ d.step \in Int /\ d.chunk \in Int /\ N \in Int
    BY NAssumption DEF Descs
  <2>2. d.upper + d.step \in Int
    BY <2>1
  <2>3. d.chunk * d.step \in Int
    BY <2>1
  <2>4. d.chunk * d.step * N \in Int
    BY <2>1, <2>3
  <2>5. d.lower + d.chunk * d.step * N \in Int
    BY <2>1, <2>4
  <2>6. \E x \in Int : Advance(policy, d) = d \/ Advance(policy, d) = [d EXCEPT !.lower = x]
    BY <1>1, <2>2, <2>5 DEF Advance, StaticRest
  <2> QED
    BY <1>1, <2>6 DEF Descs
<1>2. CASE policy # "static"
  BY <1>2 DEF Advance, Descs
<1> QED
  BY <1>1, <1>2

\* A thread takes an item, or finds none.
LEMMA NextItemStep == ASSUME IInv, NEW t \in Threads, NextItem(t), UNCHANGED nli PROVE IInv'
<1>1. /\ UNCHANGED <<prog, at, linked, pos, singleGuard, mySingle, nextWDs, pool, elected, nli>>
      /\ pc[t] = "items"
  BY DEF NextItem
<1>2. /\ work[t].loop \in Loops /\ (OfStatic(work[t]) \/ OfShared(work[t]))
      /\ prog.mode = "omp" => at[t] \in Loops
  BY <1>1 DEF IInv, Places, PlaceOf, Past
<1>3. PICK w \in WDs : w = work[t] /\ w.loop \in Loops /\ (OfStatic(w) \/ OfShared(w))
  BY <1>2, Basics DEF NoWork
<1>4. PICK p \in Descriptors : p = w.d
  BY <1>3, Basics, DescriptorSet, PlaceFacts DEF OfStatic, OfShared
<1>5. PICK d \in Descs : d = Advance(Policy(w.loop), desc[p])
  BY AdvanceFacts DEF IInv, Shape
<1>6. desc' = [desc EXCEPT ![p] = d]
  BY <1>3, <1>4, <1>5 DEF NextItem, Policy, IInv, Shape
<1>7. \A e \in Descriptors : e # p => desc'[e] = desc[e]
  BY <1>6 DEF IInv, Shape
<1>8. desc' \in [Descriptors -> Descs] /\ desc'[p] = d
  BY <1>6 DEF IInv, Shape
<1>9. KeepsFilled /\ Published'
  <2>1. CASE OfStatic(w)
    <3>1. p[1] # "team"
      BY <1>4, <2>1, DescriptorFacts DEF OfStatic
    <3>2. \A e \in Descriptors : e[1] = "team" => desc'[e] = desc[e]
      BY <1>7, <3>1
    <3> QED
      BY <1>1, <3>2, TeamUntouched
  <2>2. CASE OfShared(w)
    <3>1. PICK l \in Loops : l = w.loop /\ Policy(l) \in Shared /\ Filled(l) /\ p = Place(prog.loops, l)
      BY <1>3, <1>4, <2>2 DEF OfShared
    <3>2. \A m \in Loops : Policy(m) \in Shared /\ m # l =>
             desc'[Place(prog.loops, m)] = desc[Place(prog.loops, m)]
      BY <1>7, <3>1, OtherPlaces
    <3>3. d.lower = desc[p].lower /\ d.upper = desc[p].upper /\ d.step = desc[p].step
      <4>1. Policy(w.loop) # "static" /\ desc[p] \in Descs
        BY <3>1 DEF Shared, IInv, Shape
      <4> QED
        BY <1>5, <4>1, AdvanceFacts
    <3>4. Filled(l)'
      BY <1>1, <1>8, <3>1, <3>3 DEF Filled, Describes
    <3>5. KeepsFilled
      BY <1>1, <3>2, <3>4 DEF KeepsFilled, Filled
    <3> QED
      BY <1>1, <3>2, <3>4, <3>5, StillPublished
  <2> QED
    BY <1>3, <2>1, <2>2
<1>10. OfStatic(w)' \/ OfShared(w)'
  BY <1>1, <1>3, <1>9, EntryKept
<1>11. \/ /\ UNCHANGED <<pc, work>> /\ \E item : Execute(w.loop, item)
       \/ /\ pc' = [pc EXCEPT ![t] = IF prog.mode = "omp" THEN "sync" ELSE "wait"]
          /\ work' = [work EXCEPT ![t] = NoWork] /\ UNCHANGED <<done, again, lastpriv>>
  BY <1>3 DEF NextItem, Goto
<1>12. /\ done' \in [Loops -> SUBSET Space] /\ again' \in [Loops -> SUBSET Space]
       /\ lastpriv' \in [Loops -> SUBSET Space]
  <2>1. CASE \E item : Execute(w.loop, item)
    BY <1>3, <2>1, ExecuteTypes DEF IInv
  <2>2. CASE UNCHANGED <<done, again, lastpriv>>
    BY <2>2 DEF IInv, TypeOK
  <2> QED
    BY <1>11, <2>1, <2>2
<1>13. pc' \in [Threads -> PCs] /\ work' \in [Threads -> WDs \cup {NoWork}]
  BY <1>11, Basics DEF PCs
<1>14. Shape'
  BY <1>1, <1>8, <1>13, SameSets DEF IInv, Shape
<1>15. TypeOK'
  BY <1>1, <1>12, <1>13, <1>14, Basics, QuietTypes
<1>16. Reached(t)' = Reached(t) /\ OthersRest(t)
  BY <1>1, <1>11, Basics DEF Reached, Past, OthersRest
<1>17. PlaceOf(t)'
  <2>1. CASE UNCHANGED <<pc, work>>
    BY <1>1, <1>2, <1>3, <1>10, <2>1, Basics, SameSets DEF PlaceOf, Past, OfStatic, OfShared, Policy, Filled
  <2>2. CASE pc' = [pc EXCEPT ![t] = IF prog.mode = "omp" THEN "sync" ELSE "wait"]
    BY <1>1, <1>2, <2>2, Basics, SameSets DEF PlaceOf, Past
  <2> QED
    BY <1>11, <2>1, <2>2
<1> QED
  BY <1>1, <1>9, <1>14, <1>15, <1>16, <1>17, SameEntries, CalmStep

-----------------------------------------------------------------------------
(* The theorems.                                                           *)

\* Every step preserves the invariant.
LEMMA NextIInv == IInv /\ [SlicerNext]_allVars => IInv'
<1> SUFFICES ASSUME IInv, [SlicerNext]_allVars PROVE IInv'
  OBVIOUS
<1>1. CASE UNCHANGED allVars
  <2> USE <1>1 DEF allVars, vars
  <2>1. TypeOK'
    BY DEF IInv, TypeOK, IsItem, IsSlice, Loops, Descriptors
  <2>2. Shape'
    BY SameSets DEF IInv, Shape
  <2>3. Turns' /\ Elections'
    BY DEF IInv, Turns, Elections, Passed, Policy, Reached, Past, Loops
  <2>4. Published' /\ KeepsFilled
    BY DEF IInv, Published, KeepsFilled, Filled, Policy, Loops
  <2>5. Entries'
    BY <2>4, SameEntries
  <2>6. Places'
    BY DEF IInv, Places, PlaceOf, Past, OfStatic, OfShared, Filled, IsSlice, Policy, Loops
  <2> QED
    BY <2>1, <2>2, <2>3, <2>4, <2>5, <2>6 DEF IInv
<1>2. CASE Terminated /\ UNCHANGED nli
  BY <1>1, <1>2 DEF Terminated, allVars
<1>3. ASSUME NEW t \in Threads, ThreadStep(t) PROVE IInv'
  <2>1. CASE SlicerStep(t)
    BY <2>1, SubmitSlicedStep, TakeSliceStep, TakeSectionStep, RunSliceStep, SubmitStaticStep,
       StaticLoopStep DEF SlicerStep
  <2>2. CASE Step(t) /\ UNCHANGED nli
    BY <2>2, CreateStaticStep, LinkStep, InitLoopStep, PublishStep, SpinStep, SubmitStep,
       NextItemStep, SyncStep, TakeNextStep, TakePoolStep, LeaveStep DEF Step
  <2> QED
    BY <1>3, <2>1, <2>2 DEF ThreadStep
<1> QED
  BY <1>1, <1>2, <1>3 DEF SlicerNext

\* The inductive invariant holds in every reachable state.
THEOREM Invariance == SlicerSpec => []IInv
BY InitIInv, NextIInv, PTL DEF SlicerSpec

\* The variables have their types for every team and every program: no counter of a thread
\* passes the team's, and no loop has more singles than the team has threads.
THEOREM TypeCorrect == SlicerSpec => []TypeOK
<1>1. IInv => TypeOK
  BY DEF IInv
<1> QED
  BY <1>1, Invariance, PTL

\* A loop that every thread, or the creator, has left behind has been passed.
LEMMA OverPassed ==
  ASSUME IInv, NEW l \in Loops, LoopOver(l), Policy(l) \in Policies
  PROVE  Passed(l)
<1>1. PICK t \in Threads : l < at[t]
  <2>1. CASE prog.mode = "omp" /\ \A t \in Threads : at[t] > l
    BY <2>1, Basics
  <2>2. CASE prog.mode = "ompss" /\ at[0] > l
    BY <2>2, Basics
  <2>3. CASE AllOut
    <3>1. at[0] = Len(prog.loops) + 1
      BY <2>3, Basics DEF AllOut, IInv, Places, PlaceOf
    <3> QED
      BY <3>1, Basics
  <2> QED
    BY <2>1, <2>2, <2>3 DEF LoopOver
<1>2. PICK r \in Int : r = Reached(t)
  BY Basics DEF Reached
<1>3. l < r
  BY <1>1, <1>2, Basics DEF Reached
<1>4. \A S : Policy(l) \in S => Count(prog.loops, S, l) < Count(prog.loops, S, r)
  BY <1>3, Basics, CountOrder DEF Policy
<1>5. /\ \A S : Count(prog.loops, S, l) \in Nat /\ Count(prog.loops, S, r) \in Nat
      /\ singleGuard \in Nat /\ linked \in Nat
      /\ Count(prog.loops, Guarded, r) <= singleGuard /\ Count(prog.loops, Shared, r) <= linked
  <2>1. \A S : Count(prog.loops, S, r) \in Nat
    BY Basics, CountFacts
  <2>2. l \in Int
    BY Basics
  <2>3. \A S : Count(prog.loops, S, l) \in Nat
    BY <2>2, Basics, CountFacts
  <2> QED
    BY <1>2, <2>1, <2>3 DEF IInv, Turns, TypeOK
<1>6. Policy(l) \in Guarded \cup Shared
  BY DEF Policies, Guarded, Shared
<1> QED
  BY <1>4, <1>5, <1>6 DEF Passed

\* create() elects one thread for every loop and never two, for every team, every program
\* and every distance between the threads.
THEOREM SingleElection == SlicerSpec => []SingleElected
<1>1. IInv => SingleElected
  <2> SUFFICES ASSUME IInv PROVE SingleElected
    OBVIOUS
  <2>1. \A l \in Loops : elected[l] = IF Passed(l) THEN 1 ELSE 0
    BY DEF IInv, Elections
  <2>2. \A l \in Loops : LoopOver(l) /\ prog.loops[l].policy \in Policies => Passed(l)
    BY OverPassed DEF Policy
  <2> QED
    BY <2>1, <2>2 DEF SingleElected
<1> QED
  BY <1>1, Invariance, PTL

\* A thread reads a descriptor of the team's list only when it is filled for the loop it
\* executes.
THEOREM RightDescriptor == SlicerSpec => []DescriptorOfMyLoop
<1>1. IInv => DescriptorOfMyLoop
  <2> SUFFICES ASSUME IInv, NEW t \in Threads, pc[t] = "items", work[t].d[1] = "team"
               PROVE  Describes(desc[work[t].d], prog.loops[work[t].loop])
    BY DEF DescriptorOfMyLoop, Describes
  <2>1. OfStatic(work[t]) \/ OfShared(work[t])
    BY DEF IInv, Places, PlaceOf
  <2>2. OfShared(work[t])
    BY <2>1, DescriptorFacts DEF OfStatic
  <2> QED
    BY <2>2 DEF OfShared, Filled
<1> QED
  BY <1>1, Invariance, PTL
=============================================================================
