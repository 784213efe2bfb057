-------------------------- MODULE MaxDispatchProofs -------------------------
(***************************************************************************)
(* From ready to done, for every program, every number of threads and of   *)
(* engines: a task is in one place, executes only with all its commutative *)
(* slots and leaves none behind, and the device is drained at the end.     *)
(*                                                                         *)
(* A slot is owned by a task exactly when somebody claims it for the task: *)
(* a thread that tries the task and has come past the slot, one that       *)
(* executes it or has still to release the slot, one that keeps the task   *)
(* as its immediate successor, or the list of running tasks.  Two threads  *)
(* never try one task: a task of the queue is tried by the holder of the   *)
(* queue's lock, a successor by the thread of its only predecessor.        *)
(***************************************************************************)
EXTENDS MaxDispatch, Integers, FiniteSetTheorems, WellFoundedInduction, SequenceTheorems, TLAPS

(* Sets of numbers.  Induction is the argument of the least counterexample. *)

\* The enumerations of a set of numbers in increasing order.
Enumerations(S) == {s \in [1 .. Cardinality(S) -> S] :
                      \A i, j \in 1 .. Cardinality(S) : i < j => s[i] < s[j]}

\* Every set of numbers has a least one.
LEMMA LeastElement == ASSUME NEW S \in SUBSET Nat, S # {} PROVE \E x \in S : \A y \in S : x <= y
<1>1. IsWellFoundedOn(OpToRel(<, Nat), Nat)
  BY NatLessThanWellFounded, Zenon
<1>2. PICK x \in S : \A y \in S : <<y, x>> \notin OpToRel(<, Nat)
  BY <1>1, WFMin, Zenon
<1>3. \A y \in S : ~ (y < x)
  BY <1>2 DEF OpToRel
<1> QED
  BY <1>3

\* A set of numbers up to c has a greatest one.
LEMMA GreatestElement ==
  ASSUME NEW c \in Nat, NEW S \in SUBSET (1 .. c), S # {}
  PROVE  \E x \in S : \A y \in S : y <= x
<1> DEFINE D == {n \in Nat : c - n \in S}
<1>1. \A y \in S : c - y \in D
  OBVIOUS
<1>2. D \in SUBSET Nat /\ D # {}
  BY <1>1
<1>3. PICK n \in D : \A m \in D : n <= m
  <2> HIDE DEF D
  <2> QED
    BY <1>2, LeastElement
<1> QED
  BY <1>1, <1>3

\* A set of numbers up to c is finite.
LEMMA BoundedFinite ==
  ASSUME NEW c \in Nat, NEW S \in SUBSET (1 .. c)
  PROVE  IsFiniteSet(S) /\ Cardinality(S) \in Nat
<1>1. IsFiniteSet(1 .. c)
  BY FS_Interval
<1>2. IsFiniteSet(S)
  BY <1>1, FS_Subset
<1> QED
  BY <1>2, FS_CardinalityType

\* A set of numbers up to c can be enumerated in increasing order: otherwise take one of
\* the least size, and enumerate it without its greatest element first.
LEMMA Enumerable == ASSUME NEW c \in Nat, NEW T \in SUBSET (1 .. c) PROVE Enumerations(T) # {}
<1> DEFINE Bad == {n \in Nat : \E S \in SUBSET (1 .. c) : Cardinality(S) = n /\ Enumerations(S) = {}}
<1>0. ASSUME NEW S \in SUBSET (1 .. c) PROVE IsFiniteSet(S) /\ Cardinality(S) \in Nat
  BY BoundedFinite
<1> SUFFICES ASSUME Bad # {} PROVE FALSE
  BY <1>0
<1>1. PICK n \in Bad : \A m \in Bad : n <= m
  <2>1. Bad \in SUBSET Nat
    OBVIOUS
  <2> HIDE DEF Bad
  <2> QED
    BY <2>1, LeastElement
<1>2. PICK S \in SUBSET (1 .. c) : Cardinality(S) = n /\ Enumerations(S) = {}
  BY <1>1
<1>3. S # {}
  <2> SUFFICES ASSUME S = {} PROVE FALSE
    OBVIOUS
  <2>1. Cardinality(S) = 0
    BY FS_EmptySet
  <2>2. [i \in 1 .. 0 |-> i] \in Enumerations(S)
    BY <2>1 DEF Enumerations
  <2> QED
    BY <1>2, <2>2
<1>4. PICK x \in S : \A y \in S : y <= x
  BY <1>3, GreatestElement
<1> DEFINE R == S \ {x}
<1>5. IsFiniteSet(S) /\ n \in Nat \ {0} /\ Cardinality(R) = n - 1
  BY <1>0, <1>2, <1>3, FS_RemoveElement, FS_EmptySet
<1>6. PICK s : s \in Enumerations(R)
  <2>1. n - 1 \notin Bad /\ n - 1 \in Nat
    <3> HIDE DEF Bad
    <3> QED
      BY <1>1, <1>5
  <2> QED
    BY <2>1, <1>5
<1> DEFINE u == [i \in 1 .. n |-> IF i = n THEN x ELSE s[i]]
<1>7. s \in [1 .. n - 1 -> R] /\ \A i, j \in 1 .. n - 1 : i < j => s[i] < s[j]
  BY <1>5, <1>6 DEF Enumerations
<1>8. u \in [1 .. n -> S]
  BY <1>5, <1>7
<1>9. ASSUME NEW i \in 1 .. n, NEW j \in 1 .. n, i < j PROVE u[i] < u[j]
  <2>1. i \in 1 .. n - 1 /\ s[i] \in R
    BY <1>5, <1>7, <1>9
  <2>2. s[i] < x
    <3>1. \A y \in S : y \in Nat
      OBVIOUS
    <3>2. s[i] \in S /\ s[i] # x
      BY <2>1
    <3>3. s[i] \in Nat /\ x \in Nat /\ s[i] <= x
      BY <3>1, <3>2, <1>4
    <3> QED
      BY <3>2, <3>3
  <2> QED
    BY <2>1, <2>2, <1>5, <1>7, <1>9
<1>10. u \in Enumerations(S)
  BY <1>2, <1>8, <1>9 DEF Enumerations
<1> QED
  BY <1>2, <1>10

\* An enumeration in increasing order names every element once.
LEMMA EnumerationFacts ==
  ASSUME NEW c \in Nat, NEW S \in SUBSET (1 .. c)
  PROVE  \A s \in Enumerations(S) :
           /\ \A x \in S : \E i \in 1 .. Cardinality(S) : s[i] = x
           /\ \A i, j \in 1 .. Cardinality(S) : s[i] = s[j] => i = j
<1> TAKE s \in Enumerations(S)
<1>1. IsFiniteSet(S) /\ Cardinality(S) \in Nat
  BY BoundedFinite
<1>2. ASSUME NEW i \in 1 .. Cardinality(S), NEW j \in 1 .. Cardinality(S), s[i] = s[j]
      PROVE  i = j
  <2>1. s[i] \in S /\ s[j] \in S /\ \A y \in S : y \in Nat
    BY DEF Enumerations
  <2>2. s[i] \in Nat /\ s[j] \in Nat
    BY <2>1
  <2>3. i < j => s[i] < s[j]
    BY DEF Enumerations
  <2>4. j < i => s[j] < s[i]
    BY DEF Enumerations
  <2> QED
    BY <1>1, <1>2, <2>2, <2>3, <2>4
<1>3. s \in Injection(1 .. Cardinality(S), S)
  BY <1>2 DEF Enumerations, Injection, IsInjective
<1>4. Cardinality(1 .. Cardinality(S)) = Cardinality(S)
  BY <1>1, FS_Interval
<1>5. s \in Surjection(1 .. Cardinality(S), S)
  BY <1>1, <1>3, <1>4, FS_Injection
<1> QED
  BY <1>2, <1>5 DEF Surjection
-----------------------------------------------------------------------------

\* The thread tries a task of the queue, or a successor.
Trying(e) == pc[e] \in {"try", "undo"}
TriesQueue(e) == Trying(e) /\ lock = e
TriesSuccessor(e) == Trying(e) /\ lock # e

\* The places of a task other than with a thread.
Waiting == {t \in Created : left[t] # {}}
Queued == RangeOf(queue)
Launched == RangeOf(running)
Kept(e) == RangeOf(nextWDs[e])
Unheld == Waiting \cup Queued \cup Launched \cup exited

\* Who holds the lock, who has a task.
Control ==
  /\ \A e \in Threads : /\ pc[e] = "scan" => lock = e
                        /\ lock = e => pc[e] = "scan" \/ Trying(e)
                        /\ cur[e] # NULL <=>
                             \/ pc[e] \in {"run", "succ", "release", "finish", "launch"}
                             \/ TriesSuccessor(e)
  /\ pc[Dfe] \notin {"submit", "run", "succ", "join"}
  /\ lock # Dfe => pc[Dfe] \notin {"try", "undo"}
  /\ \A e \in Smp : pc[e] \notin {"launch", "post", "top"}

\* A successor kept is taken before the thread looks for another task.
Keeping ==
  \A e \in Threads : nextWDs[e] # <<>> =>
    /\ Len(nextWDs[e]) = 1 /\ e # Dfe
    /\ ~ Trying(e) /\ pc[e] \notin {"submit", "lock", "scan", "run", "succ", "launch"}

\* The task a thread tries, and how far it is with its slots.
TriesOf(e) ==
  /\ lock = e => scan[e] >= 1
  /\ TriesQueue(e) => scan[e] <= Len(queue) /\ tried[e] = queue[scan[e]]
  /\ TriesSuccessor(e) => tried[e] \in Created /\ left[tried[e]] = {cur[e]}
  /\ Trying(e) => idx[e] \in 1 .. Len(Slots(tried[e])) + 1
  /\ pc[e] = "release" => idx[e] \in 1 .. Len(Slots(cur[e])) + 1
Tries == \A e \in Threads : TriesOf(e)

\* A task is in one place, and once.
Apart ==
  /\ Waiting \cap Queued = {} /\ Waiting \cap Launched = {} /\ Waiting \cap exited = {}
  /\ Queued \cap Launched = {} /\ Queued \cap exited = {} /\ Launched \cap exited = {}
  /\ \A e \in Threads : cur[e] \notin Unheld /\ Kept(e) \cap Unheld = {}
  /\ \A e, f \in Threads : /\ cur[e] \notin Kept(f)
                           /\ cur[e] = cur[f] => e = f \/ cur[e] = NULL
                           /\ e # f => Kept(e) \cap Kept(f) = {}
Somewhere ==
  \A t \in Created : t \in Unheld \/ \E e \in Threads : cur[e] = t \/ t \in Kept(e)
Once ==
  /\ \A i, j \in DOMAIN queue : queue[i] = queue[j] => i = j
  /\ \A i, j \in DOMAIN running : running[i] = running[j] => i = j

\* The tasks that have been executed, and the ones that have to be before another.
Finishing(e) == pc[e] \in {"succ", "release", "finish"} \/ TriesSuccessor(e)
Executed ==
  \A t \in Created : t \in ended <=> \/ t \in exited \/ t \in Launched \ flight
                                     \/ \E e \in Threads : cur[e] = t /\ Finishing(e)
InOrder ==
  /\ \A t \in Task : left[t] # {} => t \in Created
  /\ \A t \in Created : \A u \in 1 .. t - 1 :
       Conflict(prog[u].acc, prog[t].acc) => u \in left[t] \cup ended

\* What is left when the threads are told to stop.
Stopping ==
  /\ pc[Main] # "submit" => created = Len(prog)
  /\ stop => pc[Main] # "submit" /\ exited = Created
  /\ pc[Dfe] = "out" => stop

\* The slots a thread claims for the task it tries, and for the task it has.
Taking(e) == IF Trying(e) THEN {Slots(tried[e])[k] : k \in 1 .. idx[e] - 1} ELSE {}
Having(e) ==
  IF cur[e] = NULL \/ pc[e] = "finish" THEN {}
  ELSE IF pc[e] = "release" THEN {Slots(cur[e])[k] : k \in idx[e] .. Len(Slots(cur[e]))}
  ELSE RangeOf(Slots(cur[e]))

\* Slot a is claimed for task t, by a thread or by the list of running tasks.
ClaimsBy(e, t, a) == \/ tried[e] = t /\ a \in Taking(e)
                     \/ cur[e] = t /\ a \in Having(e)
                     \/ t \in Kept(e) /\ a \in RangeOf(Slots(t))
Claims(t, a) == \/ \E e \in Threads : ClaimsBy(e, t, a)
                \/ t \in Launched /\ a \in RangeOf(Slots(t))

\* Who claims a slot owns it, and who owns it claims it.
SlotsOwned == \A t \in Created, a \in Addr : Claims(t, a) <=> owner[a] = t

\* The inductive invariant.
IInv ==
  /\ TypeOK /\ Control /\ Keeping /\ Tries /\ Apart /\ Somewhere /\ Once
  /\ Executed /\ InOrder /\ Stopping /\ SlotsOwned

\* The inductive step for one thread: the others are where they were.
Others(e) ==
  \A f \in Threads \ {e} :
    /\ pc'[f] = pc[f] /\ cur'[f] = cur[f] /\ tried'[f] = tried[f]
    /\ scan'[f] = scan[f] /\ idx'[f] = idx[f] /\ nextWDs'[f] = nextWDs[f]
-----------------------------------------------------------------------------
(* Programs, sequences and sorting *)

\* Tasks are numbers from 1; the slots of a task are distinct addresses, the ones it
\* accesses in a commutative way.
LEMMA ProgramFacts ==
  ASSUME TypeOK
  PROVE  /\ Len(prog) \in Nat /\ Task = 1 .. Len(prog)
         /\ created \in Nat /\ Created \subseteq Task /\ NULL \notin Task
         /\ \A t \in Task :
              /\ prog[t].acc \in Accesses
              /\ Slots(t) \in Seq(Addr) /\ Len(Slots(t)) \in Nat
              /\ DOMAIN Slots(t) = 1 .. Len(Slots(t))
              /\ \A k \in 1 .. Len(Slots(t)) : Slots(t)[k] \in Addr
              /\ \A j, k \in 1 .. Len(Slots(t)) : Slots(t)[j] = Slots(t)[k] => j = k
              /\ RangeOf(Slots(t)) = {a \in Addr : prog[t].acc[a] = Commutative}
<1>1. /\ prog \in Seq([dev : {"smp"} \cup RangeOf(Engines), acc : Accesses, slots : Seq(Addr)])
      /\ \A i \in DOMAIN prog :
           /\ RangeOf(prog[i].slots) = {a \in Addr : prog[i].acc[a] = Commutative}
           /\ \A j, k \in DOMAIN prog[i].slots : prog[i].slots[j] = prog[i].slots[k] => j = k
  BY ProgramsAssumption DEF TypeOK
<1>2. Len(prog) \in Nat /\ Task = 1 .. Len(prog)
  BY <1>1 DEF Task
<1>3. created \in Nat /\ Created \subseteq Task /\ NULL \notin Task
  BY <1>2 DEF TypeOK, Created, NULL
<1>4. ASSUME NEW t \in Task
      PROVE  prog[t] \in [dev : {"smp"} \cup RangeOf(Engines), acc : Accesses, slots : Seq(Addr)]
  BY <1>1, <1>2, ElementOfSeq
<1>5. ASSUME NEW t \in Task
      PROVE  /\ prog[t].acc \in Accesses
             /\ Slots(t) \in Seq(Addr) /\ Len(Slots(t)) \in Nat
             /\ DOMAIN Slots(t) = 1 .. Len(Slots(t))
             /\ \A k \in 1 .. Len(Slots(t)) : Slots(t)[k] \in Addr
  BY <1>4 DEF Slots
<1>6. ASSUME NEW t \in Task
      PROVE  /\ \A j, k \in 1 .. Len(Slots(t)) : Slots(t)[j] = Slots(t)[k] => j = k
             /\ RangeOf(Slots(t)) = {a \in Addr : prog[t].acc[a] = Commutative}
  BY <1>1, <1>5 DEF Slots, Task
<1> QED
  BY <1>2, <1>3, <1>5, <1>6

\* A sequence without repetitions.
Distinct(s) == \A i, j \in DOMAIN s : s[i] = s[j] => i = j

\* What pushing does to a queue.
LEMMA PushFacts ==
  ASSUME NEW S, NEW q \in Seq(S), NEW x \in S
  PROVE  /\ Append(q, x) \in Seq(S) /\ Len(Append(q, x)) = Len(q) + 1
         /\ RangeOf(Append(q, x)) = RangeOf(q) \cup {x}
         /\ Distinct(q) /\ x \notin RangeOf(q) => Distinct(Append(q, x))
<1> DEFINE p == Append(q, x)
<1>1. /\ p \in Seq(S) /\ Len(p) = Len(q) + 1 /\ Len(q) \in Nat
      /\ DOMAIN p = 1 .. Len(q) + 1 /\ DOMAIN q = 1 .. Len(q)
      /\ \A i \in 1 .. Len(q) : p[i] = q[i]
      /\ p[Len(q) + 1] = x
  BY AppendProperties, LenProperties
<1> HIDE DEF p
<1>2. RangeOf(p) = RangeOf(q) \cup {x}
  <2>1. ASSUME NEW y \in RangeOf(p) PROVE y \in RangeOf(q) \cup {x}
    BY <1>1 DEF RangeOf
  <2>2. ASSUME NEW y \in RangeOf(q) PROVE y \in RangeOf(p)
    BY <1>1 DEF RangeOf
  <2>3. x \in RangeOf(p)
    BY <1>1 DEF RangeOf
  <2> QED
    BY <2>1, <2>2, <2>3
<1>3. ASSUME Distinct(q), x \notin RangeOf(q) PROVE Distinct(p)
  BY <1>1, <1>3 DEF Distinct, RangeOf
<1> QED
  BY <1>1, <1>2, <1>3 DEF p

\* What taking the front does to a queue.
LEMMA FrontFacts ==
  ASSUME NEW S, NEW q \in Seq(S), q # <<>>, Distinct(q)
  PROVE  /\ Tail(q) \in Seq(S) /\ Len(Tail(q)) = Len(q) - 1
         /\ Head(q) \in S /\ Head(q) \in RangeOf(q)
         /\ RangeOf(Tail(q)) = RangeOf(q) \ {Head(q)}
         /\ Distinct(Tail(q))
<1> DEFINE p == Tail(q)
<1>1. /\ p \in Seq(S) /\ Len(q) \in Nat \ {0} /\ Len(p) = Len(q) - 1
      /\ DOMAIN p = 1 .. Len(q) - 1 /\ DOMAIN q = 1 .. Len(q)
      /\ \A i \in 1 .. Len(q) - 1 : p[i] = q[i + 1]
      /\ Head(q) = q[1] /\ Head(q) \in S
  BY HeadTailProperties, LenProperties, EmptySeq
<1> HIDE DEF p
<1>2. Head(q) \in RangeOf(q)
  BY <1>1 DEF RangeOf
<1>3. RangeOf(p) = RangeOf(q) \ {Head(q)}
  <2>1. ASSUME NEW y \in RangeOf(p) PROVE y \in RangeOf(q) \ {Head(q)}
    <3>1. PICK i \in 1 .. Len(q) - 1 : y = q[i + 1]
      BY <1>1 DEF RangeOf
    <3> QED
      BY <3>1, <1>1 DEF RangeOf, Distinct
  <2>2. ASSUME NEW y \in RangeOf(q) \ {Head(q)} PROVE y \in RangeOf(p)
    <3>1. PICK i \in 1 .. Len(q) : y = q[i] /\ i # 1
      BY <1>1 DEF RangeOf
    <3>2. i - 1 \in 1 .. Len(q) - 1 /\ p[i - 1] = q[i]
      BY <3>1, <1>1
    <3> QED
      BY <3>1, <3>2, <1>1 DEF RangeOf
  <2> QED
    BY <2>1, <2>2
<1>4. Distinct(p)
  BY <1>1 DEF Distinct
<1> QED
  BY <1>1, <1>2, <1>3, <1>4 DEF p

\* What taking the element at position k does to a queue.
Without(q, k) == [i \in 1 .. Len(q) - 1 |-> IF i < k THEN q[i] ELSE q[i + 1]]

\* A queue of distinct elements loses that element and no other.
LEMMA RemoveFacts ==
  ASSUME NEW S, NEW q \in Seq(S), NEW k \in 1 .. Len(q), Distinct(q)
  PROVE  /\ Without(q, k) \in Seq(S) /\ Distinct(Without(q, k))
         /\ RangeOf(Without(q, k)) = RangeOf(q) \ {q[k]}
<1> DEFINE p == Without(q, k)
<1>0. p = [i \in 1 .. Len(q) - 1 |-> IF i < k THEN q[i] ELSE q[i + 1]]
  BY DEF Without
<1> HIDE DEF p
<1>1. /\ Len(q) \in Nat /\ Len(q) - 1 \in Nat
      /\ DOMAIN q = 1 .. Len(q) /\ DOMAIN p = 1 .. Len(q) - 1
      /\ \A i \in 1 .. Len(q) : q[i] \in S
  BY <1>0, LenProperties, ElementOfSeq
<1>2. \A i \in 1 .. Len(q) - 1 : p[i] = q[IF i < k THEN i ELSE i + 1]
  BY <1>0, <1>1
<1>3. p \in [1 .. Len(q) - 1 -> S]
  BY <1>0, <1>1
<1>4. p \in Seq(S)
  BY <1>1, <1>3, SeqDef
<1>5. ASSUME NEW y \in RangeOf(p) PROVE y \in RangeOf(q) \ {q[k]}
  <2>1. PICK i \in 1 .. Len(q) - 1 : y = q[IF i < k THEN i ELSE i + 1]
    BY <1>1, <1>2 DEF RangeOf
  <2> QED
    BY <2>1, <1>1 DEF RangeOf, Distinct
<1>6. ASSUME NEW y \in RangeOf(q) \ {q[k]} PROVE y \in RangeOf(p)
  <2>1. PICK i \in 1 .. Len(q) : y = q[i] /\ i # k
    BY <1>1 DEF RangeOf
  <2>2. CASE i < k
    <3>1. i \in 1 .. Len(q) - 1 /\ p[i] = y
      BY <1>1, <1>2, <2>1, <2>2
    <3> QED
      BY <3>1, <1>1 DEF RangeOf
  <2>3. CASE i > k
    <3>1. i - 1 \in 1 .. Len(q) - 1 /\ p[i - 1] = y
      BY <1>1, <1>2, <2>1, <2>3
    <3> QED
      BY <3>1, <1>1 DEF RangeOf
  <2> QED
    BY <2>1, <2>2, <2>3
<1>7. Distinct(p)
  <2>1. ASSUME NEW i \in 1 .. Len(q) - 1, NEW j \in 1 .. Len(q) - 1, p[i] = p[j] PROVE i = j
    <3>1. (IF i < k THEN i ELSE i + 1) = (IF j < k THEN j ELSE j + 1)
      BY <1>1, <1>2, <2>1 DEF Distinct
    <3> QED
      BY <3>1
  <2> QED
    BY <1>1, <2>1 DEF Distinct
<1> QED
  BY <1>4, <1>5, <1>6, <1>7 DEF p

\* What pushing a sorted set does to a queue.
LEMMA PushSortedFacts ==
  ASSUME NEW c \in Nat, NEW q \in Seq(1 .. c), NEW R \in SUBSET (1 .. c)
  PROVE  /\ q \o Sorted(R) \in Seq(1 .. c)
         /\ RangeOf(q \o Sorted(R)) = RangeOf(q) \cup R
         /\ Distinct(q) /\ RangeOf(q) \cap R = {} => Distinct(q \o Sorted(R))
         /\ R = {} => q \o Sorted(R) = q
<1> DEFINE r == Sorted(R)
           n == Cardinality(R)
           p == q \o r
<1>1. n \in Nat
  BY BoundedFinite
<1>2. r \in Enumerations(R)
  BY Enumerable DEF Enumerations, Sorted
<1> HIDE DEF r
<1>3. /\ r \in [1 .. n -> R] /\ \A x \in R : \E i \in 1 .. n : r[i] = x
      /\ \A i, j \in 1 .. n : r[i] = r[j] => i = j
  <2>1. r \in [1 .. n -> R]
    BY <1>2 DEF Enumerations
  <2>2. \A s \in Enumerations(R) :
           /\ \A x \in R : \E i \in 1 .. Cardinality(R) : s[i] = x
           /\ \A i, j \in 1 .. Cardinality(R) : s[i] = s[j] => i = j
    BY EnumerationFacts
  <2> QED
    BY <1>2, <2>1, <2>2
<1> HIDE DEF n
<1>4. r \in Seq(R) /\ r \in Seq(1 .. c)
  <2>1. r \in [1 .. n -> 1 .. c]
    BY <1>3
  <2> QED
    BY <1>1, <1>3, <2>1, SeqDef
<1>5. Len(r) = n
  BY <1>1, <1>3, <1>4
<1>6. /\ p \in Seq(1 .. c) /\ Len(p) = Len(q) + n /\ Len(q) \in Nat
      /\ DOMAIN p = 1 .. Len(q) + n /\ DOMAIN q = 1 .. Len(q)
      /\ \A i \in 1 .. Len(q) + n : p[i] = IF i <= Len(q) THEN q[i] ELSE r[i - Len(q)]
  <2>1. Len(q) \in Nat /\ DOMAIN q = 1 .. Len(q)
    OBVIOUS
  <2>2. /\ p \in Seq(1 .. c) /\ Len(p) = Len(q) + Len(r)
        /\ \A i \in 1 .. Len(q) + Len(r) : p[i] = IF i <= Len(q) THEN q[i] ELSE r[i - Len(q)]
    BY <1>4, ConcatProperties
  <2>3. DOMAIN p = 1 .. Len(p)
    BY <2>2, LenProperties
  <2> QED
    BY <1>5, <2>1, <2>2, <2>3
<1> HIDE DEF p
<1>7. ASSUME NEW y \in RangeOf(p) PROVE y \in RangeOf(q) \cup R
  <2>1. PICK i \in 1 .. Len(q) + n : y = p[i]
    BY <1>6 DEF RangeOf
  <2>2. CASE i <= Len(q)
    <3>1. i \in DOMAIN q /\ y = q[i]
      BY <2>1, <2>2, <1>1, <1>6
    <3> QED
      BY <3>1 DEF RangeOf
  <2>3. CASE i > Len(q)
    <3>1. i - Len(q) \in 1 .. n /\ y = r[i - Len(q)]
      BY <2>1, <2>3, <1>1, <1>6
    <3> QED
      BY <3>1, <1>3
  <2> QED
    BY <2>2, <2>3, <1>1, <1>6
<1>8. ASSUME NEW y \in RangeOf(q) PROVE y \in RangeOf(p)
  <2>1. PICK i \in 1 .. Len(q) : y = q[i]
    BY <1>6 DEF RangeOf
  <2>2. i \in DOMAIN p /\ p[i] = y
    BY <1>1, <1>6, <2>1
  <2> QED
    BY <2>2 DEF RangeOf
<1>9. ASSUME NEW y \in R PROVE y \in RangeOf(p)
  <2>1. PICK i \in 1 .. n : r[i] = y
    BY <1>3
  <2>2. Len(q) + i \in DOMAIN p /\ ~ (Len(q) + i <= Len(q)) /\ (Len(q) + i) - Len(q) = i
    BY <1>1, <1>6
  <2>3. p[Len(q) + i] = y
    BY <1>6, <2>1, <2>2
  <2> QED
    BY <2>2, <2>3 DEF RangeOf
<1>10. ASSUME Distinct(q), RangeOf(q) \cap R = {},
             NEW i \in DOMAIN p, NEW j \in DOMAIN p, p[i] = p[j], i <= j
       PROVE  i = j
  <2>1. CASE j <= Len(q)
    <3>1. i \in DOMAIN q /\ j \in DOMAIN q /\ q[i] = q[j]
      BY <1>1, <1>6, <1>10, <2>1
    <3> QED
      BY <3>1, <1>10 DEF Distinct
  <2>2. CASE i <= Len(q) /\ j > Len(q)
    <3>0. /\ i \in DOMAIN q /\ p[i] = q[i]
          /\ j - Len(q) \in 1 .. n /\ p[j] = r[j - Len(q)]
      BY <1>1, <1>6, <2>2
    <3>1. p[i] \in RangeOf(q) /\ p[j] \in R
      BY <3>0, <1>3 DEF RangeOf
    <3> QED
      BY <3>1, <1>10
  <2>3. CASE i > Len(q)
    <3>1. i - Len(q) \in 1 .. n /\ j - Len(q) \in 1 .. n
      BY <1>1, <1>6, <1>10, <2>3
    <3>2. p[i] = r[i - Len(q)] /\ p[j] = r[j - Len(q)]
      BY <1>1, <1>6, <1>10, <2>3
    <3>3. i - Len(q) = j - Len(q)
      BY <3>1, <3>2, <1>3, <1>10
    <3> QED
      BY <3>3, <1>1, <1>6
  <2> QED
    BY <2>1, <2>2, <2>3, <1>1, <1>6
<1>11. Distinct(q) /\ RangeOf(q) \cap R = {} => Distinct(p)
  BY <1>1, <1>6, <1>10 DEF Distinct
<1>12. ASSUME R = {} PROVE p = q
  <2>1. n = 0
    BY <1>12, FS_EmptySet DEF n
  <2>2. Len(p) = Len(q) /\ \A i \in 1 .. Len(p) : p[i] = q[i]
    BY <2>1, <1>6
  <2> QED
    BY <2>2, <1>6, SeqEqual
<1> QED
  BY <1>6, <1>7, <1>8, <1>9, <1>11, <1>12 DEF p, r
-----------------------------------------------------------------------------
(* What a step leaves alone *)

\* The threads.
LEMMA ThreadFacts ==
  /\ Main \in Smp /\ Main \in Threads /\ Dfe \in Threads /\ Dfe # Main /\ NULL \notin Threads
  /\ Smp \subseteq Threads /\ Dfe \notin Smp /\ \A e \in Threads : e \in Smp \/ e = Dfe
  BY ThreadsAssumption DEF Smp, Threads

\* A step that moves no task.
LEMMA PlacesFrame ==
  ASSUME IInv, UNCHANGED <<created, left, queue, running, exited, cur, nextWDs>>
  PROVE  Apart' /\ Somewhere' /\ Once'
<1>1. Created' = Created /\ Waiting' = Waiting /\ Queued' = Queued /\ Launched' = Launched
  BY DEF Created, Waiting, Queued, Launched
<1>2. Unheld' = Unheld /\ \A e : Kept(e)' = Kept(e)
  BY <1>1 DEF Unheld, Kept
<1>3. Apart'
  BY <1>1, <1>2 DEF IInv, Apart
<1>4. Somewhere'
  BY <1>1, <1>2 DEF IInv, Somewhere
<1>5. Once'
  BY DEF IInv, Once
<1> QED
  BY <1>3, <1>4, <1>5

\* A step that neither executes a task nor changes what one waits for.
LEMMA OrderFrame ==
  ASSUME IInv, UNCHANGED <<prog, created, left, ended>>
  PROVE  InOrder'
  BY DEF IInv, InOrder, Task, Created

\* The claims of the threads that do not move.
LEMMA OthersClaims ==
  ASSUME NEW e \in Threads, Others(e), prog' = prog
  PROVE  \A f \in Threads \ {e} : \A t, a : ClaimsBy(f, t, a)' <=> ClaimsBy(f, t, a)
<1> SUFFICES ASSUME NEW f \in Threads \ {e} PROVE \A t, a : ClaimsBy(f, t, a)' <=> ClaimsBy(f, t, a)
  OBVIOUS
<1>1. \A t : Slots(t)' = Slots(t)
  BY DEF Slots
<1>2. Taking(f)' = Taking(f)
  BY <1>1 DEF Others, Taking, Trying
<1>3. Having(f)' = Having(f)
  <2>1. pc'[f] = pc[f] /\ cur'[f] = cur[f] /\ idx'[f] = idx[f]
    BY DEF Others
  <2>2. Slots(cur[f])' = Slots(cur[f])
    BY <2>1 DEF Slots
  <2>3. RangeOf(Slots(cur[f]))' = RangeOf(Slots(cur[f]))
    BY <2>2 DEF RangeOf
  <2> QED
    BY <2>1, <2>2, <2>3 DEF Having
<1>4. Kept(f)' = Kept(f)
  BY DEF Others, Kept
<1> QED
  BY <1>1, <1>2, <1>3, <1>4 DEF Others, ClaimsBy, RangeOf

\* A step of a thread after which it claims what it claimed.
LEMMA SlotsFrame ==
  ASSUME IInv, NEW e \in Threads, Others(e), UNCHANGED <<prog, owner, created, running>>,
         \A t \in Created, a \in Addr : ClaimsBy(e, t, a)' <=> ClaimsBy(e, t, a)
  PROVE  SlotsOwned'
<1>1. \A f \in Threads, t \in Created, a \in Addr : ClaimsBy(f, t, a)' <=> ClaimsBy(f, t, a)
  BY OthersClaims
<1>2. Created' = Created /\ Launched' = Launched /\ \A t : RangeOf(Slots(t))' = RangeOf(Slots(t))
  BY DEF Created, Launched, Slots, RangeOf
<1>3. \A t \in Created, a \in Addr : Claims(t, a)' <=> Claims(t, a)
  BY <1>1, <1>2 DEF Claims
<1> QED
  BY <1>2, <1>3 DEF IInv, SlotsOwned

\* The same where the thread has what it had and tries nothing.
LEMMA NoClaims ==
  ASSUME NEW e \in Threads, UNCHANGED <<prog, nextWDs>>,
         cur[e] = NULL, cur'[e] = NULL, ~ Trying(e), ~ Trying(e)'
  PROVE  \A t, a : ClaimsBy(e, t, a)' <=> ClaimsBy(e, t, a)
<1>1. Taking(e) = {} /\ Taking(e)' = {} /\ Having(e) = {} /\ Having(e)' = {}
  BY DEF Taking, Having
<1>2. Kept(e)' = Kept(e) /\ \A t : RangeOf(Slots(t))' = RangeOf(Slots(t))
  BY DEF Kept, Slots, RangeOf
<1> QED
  BY <1>1, <1>2 DEF ClaimsBy

\* The task a thread tries is in the queue or waits for predecessors, and nobody else
\* tries it.
LEMMA TriedFacts ==
  ASSUME IInv, NEW e \in Threads, Trying(e)
  PROVE  /\ tried[e] \in Created /\ tried[e] \in Queued \cup Waiting
         /\ tried[e] \notin Launched \cup exited
         /\ \A f \in Threads : cur[f] # tried[e] /\ tried[e] \notin Kept(f)
         /\ \A f \in Threads \ {e} : Trying(f) => tried[f] # tried[e]
<1>1. ASSUME NEW f \in Threads, TriesQueue(f) PROVE tried[f] \in Created /\ tried[f] \in Queued
  <2>1. queue \in Seq(Created) /\ scan[f] \in 1 .. Len(queue) /\ tried[f] = queue[scan[f]]
    BY <1>1 DEF IInv, TypeOK, Tries, TriesOf, TriesQueue
  <2> QED
    BY <2>1, ElementOfSeq, LenProperties DEF Queued, RangeOf
<1>2. ASSUME NEW f \in Threads, TriesSuccessor(f)
      PROVE  tried[f] \in Created /\ tried[f] \in Waiting /\ left[tried[f]] = {cur[f]} /\ cur[f] # NULL
  BY <1>2 DEF IInv, Tries, TriesOf, Control, Waiting
<1>3. \A f \in Threads : Trying(f) => TriesQueue(f) \/ TriesSuccessor(f)
  BY DEF TriesQueue, TriesSuccessor
<1>4. tried[e] \in Created /\ tried[e] \in Queued \cup Waiting
  BY <1>1, <1>2, <1>3
<1>5. /\ tried[e] \notin Launched \cup exited /\ tried[e] \in Unheld
      /\ \A f \in Threads : cur[f] # tried[e] /\ tried[e] \notin Kept(f)
  BY <1>4 DEF IInv, Apart, Unheld
<1>6. ASSUME NEW f \in Threads \ {e}, Trying(f), tried[f] = tried[e] PROVE FALSE
  <2>1. Waiting \cap Queued = {}
    BY DEF IInv, Apart
  <2>2. CASE TriesQueue(e)
    BY <1>1, <1>2, <1>3, <1>6, <2>1, <2>2 DEF TriesQueue
  <2>3. CASE TriesSuccessor(e) /\ TriesQueue(f)
    BY <1>1, <1>2, <1>6, <2>1, <2>3
  <2>4. CASE TriesSuccessor(e) /\ TriesSuccessor(f)
    <3>1. cur[e] = cur[f] /\ cur[e] # NULL
      BY <1>2, <1>6, <2>4
    <3> QED
      BY <3>1, <1>6 DEF IInv, Apart
  <2> QED
    BY <1>3, <1>6, <2>2, <2>3, <2>4
<1> QED
  BY <1>4, <1>5, <1>6

\* A step in which a thread takes slot a for task t.
LEMMA SlotsTake ==
  ASSUME IInv, NEW e \in Threads, Others(e), UNCHANGED <<prog, created, running>>,
         NEW a \in Addr, NEW t \in Created, owner[a] \in {NULL, t},
         owner' = [owner EXCEPT ![a] = t],
         \A u \in Created, b \in Addr :
           ClaimsBy(e, u, b)' <=> ClaimsBy(e, u, b) \/ (u = t /\ b = a)
  PROVE  SlotsOwned'
<1>1. \A f \in Threads \ {e}, u \in Created, b \in Addr : ClaimsBy(f, u, b)' <=> ClaimsBy(f, u, b)
  BY OthersClaims
<1>2. Created' = Created /\ Launched' = Launched /\ \A u : RangeOf(Slots(u))' = RangeOf(Slots(u))
  BY DEF Created, Launched, Slots, RangeOf
<1>3. \A u \in Created, b \in Addr : Claims(u, b)' <=> Claims(u, b) \/ (u = t /\ b = a)
  BY <1>1, <1>2 DEF Claims
<1>4. \A b \in Addr : owner'[b] = IF b = a THEN t ELSE owner[b]
  BY DEF IInv, TypeOK
<1>5. \A u \in Created : u # NULL
  BY ProgramFacts DEF IInv
<1> QED
  BY <1>2, <1>3, <1>4, <1>5 DEF IInv, SlotsOwned

\* A step in which a thread gives back slot a, which only it claims for task t.
LEMMA SlotsGive ==
  ASSUME IInv, NEW e \in Threads, Others(e), UNCHANGED <<prog, created, running>>,
         NEW a \in Addr, NEW t \in Created, t \notin Launched,
         ClaimsBy(e, t, a), \A f \in Threads \ {e} : ~ ClaimsBy(f, t, a),
         owner' = [owner EXCEPT ![a] = NULL],
         \A u \in Created, b \in Addr :
           ClaimsBy(e, u, b)' <=> ClaimsBy(e, u, b) /\ ~ (u = t /\ b = a)
  PROVE  SlotsOwned'
<1>1. \A f \in Threads \ {e}, u \in Created, b \in Addr : ClaimsBy(f, u, b)' <=> ClaimsBy(f, u, b)
  BY OthersClaims
<1>2. Created' = Created /\ Launched' = Launched /\ \A u : RangeOf(Slots(u))' = RangeOf(Slots(u))
  BY DEF Created, Launched, Slots, RangeOf
<1>3. \A u \in Created, b \in Addr : Claims(u, b)' <=> Claims(u, b) /\ ~ (u = t /\ b = a)
  BY <1>1, <1>2 DEF Claims
<1>4. owner[a] = t
  BY DEF IInv, SlotsOwned, Claims
<1>5. \A b \in Addr : owner'[b] = IF b = a THEN NULL ELSE owner[b]
  BY DEF IInv, TypeOK
<1>6. \A u \in Created : u # NULL
  BY ProgramFacts DEF IInv
<1> QED
  BY <1>2, <1>3, <1>4, <1>5, <1>6 DEF IInv, SlotsOwned

\* What the threads that do not move try, in a step that leaves them the queue they scan
\* and the successor they try.
LEMMA OthersTries ==
  ASSUME IInv, NEW e \in Threads, Others(e), prog' = prog, Created \subseteq Created',
         \A f \in Threads \ {e} : lock' = f <=> lock = f,
         \A f \in Threads \ {e} : lock = f => queue' = queue,
         \A f \in Threads \ {e} : TriesSuccessor(f) => left'[tried[f]] = left[tried[f]]
  PROVE  \A f \in Threads \ {e} : TriesOf(f)'
<1> SUFFICES ASSUME NEW f \in Threads \ {e}
             PROVE  TriesOf(f)'
  OBVIOUS
<1>1. /\ pc'[f] = pc[f] /\ cur'[f] = cur[f] /\ tried'[f] = tried[f]
      /\ scan'[f] = scan[f] /\ idx'[f] = idx[f]
  BY DEF Others
<1>2. /\ Trying(f)' <=> Trying(f)
      /\ TriesQueue(f)' <=> TriesQueue(f)
      /\ TriesSuccessor(f)' <=> TriesSuccessor(f)
  BY <1>1 DEF Trying, TriesQueue, TriesSuccessor
<1>3. Slots(tried[f])' = Slots(tried[f]) /\ Slots(cur[f])' = Slots(cur[f])
  BY <1>1 DEF Slots
<1>4. /\ lock = f => scan[f] >= 1
      /\ TriesQueue(f) => scan[f] <= Len(queue) /\ tried[f] = queue[scan[f]]
      /\ TriesSuccessor(f) => tried[f] \in Created /\ left[tried[f]] = {cur[f]}
      /\ Trying(f) => idx[f] \in 1 .. Len(Slots(tried[f])) + 1
      /\ pc[f] = "release" => idx[f] \in 1 .. Len(Slots(cur[f])) + 1
  BY DEF IInv, Tries, TriesOf
<1>5. TriesQueue(f) => lock = f
  BY DEF TriesQueue
<1> QED
  BY <1>1, <1>2, <1>3, <1>4, <1>5 DEF TriesOf
-----------------------------------------------------------------------------
(* The steps *)

\* A thread that looks at the counters of the queue.
LEMMA LookStep == ASSUME IInv, NEW e \in Threads, Look(e) PROVE IInv'
<1> USE DEF Look, Goto, dfeVars
<1>1. TypeOK'
  BY DEF IInv, TypeOK, Task, Created
<1>2. Others(e) /\ pc'[e] = "lock" /\ pc[e] = "idle"
  BY DEF IInv, TypeOK, Others
<1>3. Control'
  BY <1>2 DEF IInv, Control, Others, Trying, TriesSuccessor
<1>4. Keeping'
  BY <1>2 DEF IInv, Keeping, Others, Trying
<1>5. Tries'
  BY <1>2 DEF IInv, Tries, TriesOf, Others, Trying, TriesQueue, TriesSuccessor, Slots, Created
<1>6. Apart' /\ Somewhere' /\ Once'
  BY PlacesFrame
<1>7. Executed'
  BY <1>2 DEF IInv, Executed, Others, Finishing, TriesSuccessor, Trying, Created, Launched
<1>8. InOrder'
  BY OrderFrame
<1>9. Stopping'
  BY <1>2, ThreadFacts DEF IInv, Stopping, Others, Created
<1>10. cur[e] = NULL /\ ~ Trying(e) /\ ~ Trying(e)'
  BY <1>2 DEF IInv, Control, Trying, TriesSuccessor
<1>11. SlotsOwned'
  BY <1>2, <1>10, NoClaims, SlotsFrame
<1> QED
  BY <1>1, <1>3, <1>4, <1>5, <1>6, <1>7, <1>8, <1>9, <1>11 DEF IInv

\* The program has been submitted.
LEMMA WaitCompletionStep == ASSUME IInv, WaitCompletion PROVE IInv'
<1> USE DEF WaitCompletion, Goto, dfeVars
<1>1. TypeOK'
  BY ThreadFacts DEF IInv, TypeOK, Task, Created
<1>2. Others(Main) /\ pc'[Main] = "idle" /\ pc[Main] = "submit"
  BY ThreadFacts DEF IInv, TypeOK, Others
<1>3. Control'
  BY <1>2, ThreadFacts DEF IInv, Control, Others, Trying, TriesSuccessor
<1>4. Keeping'
  BY <1>2, ThreadFacts DEF IInv, Keeping, Others, Trying
<1>5. Tries'
  BY <1>2, ThreadFacts DEF IInv, Tries, TriesOf, Others, Trying, TriesQueue, TriesSuccessor, Slots, Created
<1>6. Apart' /\ Somewhere' /\ Once'
  BY PlacesFrame
<1>7. Executed'
  BY <1>2, ThreadFacts DEF IInv, Executed, Others, Finishing, TriesSuccessor, Trying, Created, Launched
<1>8. InOrder'
  BY OrderFrame
<1>9. Stopping'
  BY <1>2, ThreadFacts DEF IInv, Stopping, Others, Created
<1>10. cur[Main] = NULL /\ ~ Trying(Main) /\ ~ Trying(Main)'
  BY <1>2, ThreadFacts DEF IInv, Control, Trying, TriesSuccessor
<1>11. SlotsOwned'
  BY <1>2, <1>10, NoClaims, SlotsFrame, ThreadFacts
<1> QED
  BY <1>1, <1>3, <1>4, <1>5, <1>6, <1>7, <1>8, <1>9, <1>11 DEF IInv

\* The threads are told to stop: every task has gone.
LEMMA StopAllThreadsStep == ASSUME IInv, StopAllThreads PROVE IInv'
<1> USE DEF StopAllThreads, NoComponents, Goto, dfeVars
<1>1. TypeOK'
  BY ThreadFacts DEF IInv, TypeOK, Task, Created
<1>2. Others(Main) /\ pc'[Main] = "join" /\ pc[Main] = "idle"
  BY ThreadFacts DEF IInv, TypeOK, Others
<1>3. Control'
  BY <1>2, ThreadFacts DEF IInv, Control, Others, Trying, TriesSuccessor
<1>4. Keeping'
  BY <1>2, ThreadFacts DEF IInv, Keeping, Others, Trying
<1>5. Tries'
  BY <1>2, ThreadFacts DEF IInv, Tries, TriesOf, Others, Trying, TriesQueue, TriesSuccessor, Slots, Created
<1>6. Apart' /\ Somewhere' /\ Once'
  BY PlacesFrame
<1>7. Executed'
  BY <1>2, ThreadFacts DEF IInv, Executed, Others, Finishing, TriesSuccessor, Trying, Created, Launched
<1>8. InOrder'
  BY OrderFrame
<1>9. Stopping'
  BY <1>2, ThreadFacts DEF IInv, Stopping, Others, Created
<1>10. cur[Main] = NULL /\ ~ Trying(Main) /\ ~ Trying(Main)'
  BY <1>2, ThreadFacts DEF IInv, Control, Trying, TriesSuccessor
<1>11. SlotsOwned'
  BY <1>2, <1>10, NoClaims, SlotsFrame, ThreadFacts
<1> QED
  BY <1>1, <1>3, <1>4, <1>5, <1>6, <1>7, <1>8, <1>9, <1>11 DEF IInv

\* The threads are joined.
LEMMA JoinStep == ASSUME IInv, Join PROVE IInv'
<1> USE DEF Join, Goto, dfeVars
<1>1. TypeOK'
  BY ThreadFacts DEF IInv, TypeOK, Task, Created
<1>2. Others(Main) /\ pc'[Main] = "out" /\ pc[Main] = "join"
  BY ThreadFacts DEF IInv, TypeOK, Others
<1>3. Control'
  BY <1>2, ThreadFacts DEF IInv, Control, Others, Trying, TriesSuccessor
<1>4. Keeping'
  BY <1>2, ThreadFacts DEF IInv, Keeping, Others, Trying
<1>5. Tries'
  BY <1>2, ThreadFacts DEF IInv, Tries, TriesOf, Others, Trying, TriesQueue, TriesSuccessor, Slots, Created
<1>6. Apart' /\ Somewhere' /\ Once'
  BY PlacesFrame
<1>7. Executed'
  BY <1>2, ThreadFacts DEF IInv, Executed, Others, Finishing, TriesSuccessor, Trying, Created, Launched
<1>8. InOrder'
  BY OrderFrame
<1>9. Stopping'
  BY <1>2, ThreadFacts DEF IInv, Stopping, Others, Created
<1>10. cur[Main] = NULL /\ ~ Trying(Main) /\ ~ Trying(Main)'
  BY <1>2, ThreadFacts DEF IInv, Control, Trying, TriesSuccessor
<1>11. SlotsOwned'
  BY <1>2, <1>10, NoClaims, SlotsFrame, ThreadFacts
<1> QED
  BY <1>1, <1>3, <1>4, <1>5, <1>6, <1>7, <1>8, <1>9, <1>11 DEF IInv

\* The lock of the queue.
LEMMA LockStep == ASSUME IInv, NEW e \in Threads, Lock(e) PROVE IInv'
<1> USE DEF Lock, Goto, dfeVars
<1>1. TypeOK'
  BY ThreadFacts DEF IInv, TypeOK, Task, Created
<1>2. Others(e) /\ pc'[e] = "scan" /\ pc[e] = "lock" /\ scan'[e] = 1
  BY ThreadFacts DEF IInv, TypeOK, Others
<1>3. Control'
  BY <1>2, ThreadFacts DEF IInv, Control, Others, Trying, TriesSuccessor
<1>4. Keeping'
  BY <1>2, ThreadFacts DEF IInv, Keeping, Others, Trying
<1>5. Tries'
  BY <1>2, ThreadFacts DEF IInv, Tries, TriesOf, Others, Trying, TriesQueue, TriesSuccessor, Slots, Created
<1>6. Apart' /\ Somewhere' /\ Once'
  BY PlacesFrame
<1>7. Executed'
  BY <1>2, ThreadFacts DEF IInv, Executed, Others, Finishing, TriesSuccessor, Trying, Created, Launched
<1>8. InOrder'
  BY OrderFrame
<1>9. Stopping'
  BY <1>2, ThreadFacts DEF IInv, Stopping, Others, Created
<1>10. cur[e] = NULL /\ ~ Trying(e) /\ ~ Trying(e)'
  BY <1>2, ThreadFacts DEF IInv, Control, Trying, TriesSuccessor
<1>11. SlotsOwned'
  BY <1>2, <1>10, NoClaims, SlotsFrame, ThreadFacts
<1> QED
  BY <1>1, <1>3, <1>4, <1>5, <1>6, <1>7, <1>8, <1>9, <1>11 DEF IInv

\* The end of an SMP thread.
LEMMA LeaveIdleLoopStep == ASSUME IInv, NEW e \in Smp, LeaveIdleLoop(e) PROVE IInv'
<1> USE DEF LeaveIdleLoop, Goto, dfeVars
<1>1. TypeOK'
  BY ThreadFacts DEF IInv, TypeOK, Task, Created
<1>2. Others(e) /\ pc'[e] = "out" /\ pc[e] = "idle" /\ e # Main /\ e # Dfe
  BY ThreadFacts DEF IInv, TypeOK, Others
<1>3. Control'
  BY <1>2, ThreadFacts DEF IInv, Control, Others, Trying, TriesSuccessor
<1>4. Keeping'
  BY <1>2, ThreadFacts DEF IInv, Keeping, Others, Trying
<1>5. Tries'
  BY <1>2, ThreadFacts DEF IInv, Tries, TriesOf, Others, Trying, TriesQueue, TriesSuccessor, Slots, Created
<1>6. Apart' /\ Somewhere' /\ Once'
  BY PlacesFrame
<1>7. Executed'
  BY <1>2, ThreadFacts DEF IInv, Executed, Others, Finishing, TriesSuccessor, Trying, Created, Launched
<1>8. InOrder'
  BY OrderFrame
<1>9. Stopping'
  BY <1>2, ThreadFacts DEF IInv, Stopping, Others, Created
<1>10. cur[e] = NULL /\ ~ Trying(e) /\ ~ Trying(e)'
  BY <1>2, ThreadFacts DEF IInv, Control, Trying, TriesSuccessor
<1>11. SlotsOwned'
  BY <1>2, <1>10, NoClaims, SlotsFrame, ThreadFacts
<1> QED
  BY <1>1, <1>3, <1>4, <1>5, <1>6, <1>7, <1>8, <1>9, <1>11 DEF IInv

\* The test of the Maxeler worker loop.
LEMMA LoopTestStep == ASSUME IInv, LoopTest PROVE IInv'
<1> USE DEF LoopTest, Goto, dfeVars
<1>0. turn' \in DOMAIN Engines
  <2>1. DOMAIN Engines = 1 .. Len(Engines) /\ Len(Engines) \in Nat \ {0} /\ turn \in Nat
    BY EnginesAssumption, EmptySeq DEF IInv, TypeOK
  <2>2. turn % Len(Engines) \in 0 .. Len(Engines) - 1
    BY <2>1
  <2> QED
    BY <2>1, <2>2 DEF NextThread, IInv, TypeOK
<1>1. TypeOK'
  BY <1>0, ThreadFacts DEF IInv, TypeOK, Task, Created
<1>2. Others(Dfe) /\ pc'[Dfe] \in {"out", "idle"} /\ pc[Dfe] = "top" /\ (pc'[Dfe] = "out" => stop)
  BY ThreadFacts DEF IInv, TypeOK, Others
<1>3. Control'
  BY <1>2, ThreadFacts DEF IInv, Control, Others, Trying, TriesSuccessor
<1>4. Keeping'
  BY <1>2, ThreadFacts DEF IInv, Keeping, Others, Trying
<1>5. Tries'
  BY <1>2, ThreadFacts DEF IInv, Tries, TriesOf, Others, Trying, TriesQueue, TriesSuccessor, Slots, Created
<1>6. Apart' /\ Somewhere' /\ Once'
  BY PlacesFrame
<1>7. Executed'
  BY <1>2, ThreadFacts DEF IInv, Executed, Others, Finishing, TriesSuccessor, Trying, Created, Launched
<1>8. InOrder'
  BY OrderFrame
<1>9. Stopping'
  BY <1>2, ThreadFacts DEF IInv, Stopping, Others, Created
<1>10. cur[Dfe] = NULL /\ ~ Trying(Dfe) /\ ~ Trying(Dfe)'
  BY <1>2, ThreadFacts DEF IInv, Control, Trying, TriesSuccessor
<1>11. SlotsOwned'
  BY <1>2, <1>10, NoClaims, SlotsFrame, ThreadFacts
<1> QED
  BY <1>1, <1>3, <1>4, <1>5, <1>6, <1>7, <1>8, <1>9, <1>11 DEF IInv

\* The Maxeler worker finds nothing to launch.
LEMMA NoMaxWDStep == ASSUME IInv, NoMaxWD PROVE IInv'
<1> USE DEF NoMaxWD, Goto, dfeVars
<1>1. TypeOK'
  BY ThreadFacts DEF IInv, TypeOK, Task, Created
<1>2. Others(Dfe) /\ pc'[Dfe] = "post" /\ pc[Dfe] = "idle"
  BY ThreadFacts DEF IInv, TypeOK, Others
<1>3. Control'
  BY <1>2, ThreadFacts DEF IInv, Control, Others, Trying, TriesSuccessor
<1>4. Keeping'
  BY <1>2, ThreadFacts DEF IInv, Keeping, Others, Trying
<1>5. Tries'
  BY <1>2, ThreadFacts DEF IInv, Tries, TriesOf, Others, Trying, TriesQueue, TriesSuccessor, Slots, Created
<1>6. Apart' /\ Somewhere' /\ Once'
  BY PlacesFrame
<1>7. Executed'
  BY <1>2, ThreadFacts DEF IInv, Executed, Others, Finishing, TriesSuccessor, Trying, Created, Launched
<1>8. InOrder'
  BY OrderFrame
<1>9. Stopping'
  BY <1>2, ThreadFacts DEF IInv, Stopping, Others, Created
<1>10. cur[Dfe] = NULL /\ ~ Trying(Dfe) /\ ~ Trying(Dfe)'
  BY <1>2, ThreadFacts DEF IInv, Control, Trying, TriesSuccessor
<1>11. SlotsOwned'
  BY <1>2, <1>10, NoClaims, SlotsFrame, ThreadFacts
<1> QED
  BY <1>1, <1>3, <1>4, <1>5, <1>6, <1>7, <1>8, <1>9, <1>11 DEF IInv

\* The end of the queue: the lock is given back.
LEMMA ScanEndStep == ASSUME IInv, NEW e \in Threads, Scan(e), scan[e] > Len(queue) PROVE IInv'
<1> USE DEF Goto, dfeVars
<1>0. /\ pc[e] = "scan" /\ lock' = NULL /\ pc' = [pc EXCEPT ![e] = IF e = Dfe THEN "post" ELSE "idle"]
      /\ UNCHANGED <<prog, created, left, queue, owner, cur, tried, scan, idx, nextWDs, running,
                     flight, ended, exited, stop, dfeVars>>
  <2>1. Len(queue) \in Nat /\ scan[e] \in Nat
    BY DEF IInv, TypeOK
  <2> QED
    BY <2>1 DEF Scan
<1>1. TypeOK'
  BY <1>0, ThreadFacts DEF IInv, TypeOK, Task, Created
<1>2. Others(e) /\ pc'[e] = IF e = Dfe THEN "post" ELSE "idle"
  BY <1>0, ThreadFacts DEF IInv, TypeOK, Others
<1>3. Control'
  BY <1>0, <1>2, ThreadFacts DEF IInv, Control, Others, Trying, TriesSuccessor
<1>4. Keeping'
  BY <1>0, <1>2, ThreadFacts DEF IInv, Keeping, Others, Trying
<1>5. Tries'
  BY <1>0, <1>2, <1>3, ThreadFacts DEF IInv, Control, Tries, TriesOf, Others, Trying, TriesQueue, TriesSuccessor, Slots, Created
<1>6. Apart' /\ Somewhere' /\ Once'
  BY <1>0, PlacesFrame
<1>7. Executed'
  BY <1>0, <1>2, ThreadFacts DEF IInv, Control, Executed, Others, Finishing, TriesSuccessor, Trying, Created, Launched
<1>8. InOrder'
  BY <1>0, OrderFrame
<1>9. Stopping'
  BY <1>0, <1>2, ThreadFacts DEF IInv, Stopping, Others, Created
<1>10. cur[e] = NULL /\ ~ Trying(e) /\ ~ Trying(e)'
  BY <1>0, <1>2, ThreadFacts DEF IInv, Control, Trying, TriesSuccessor
<1>11. SlotsOwned'
  BY <1>0, <1>2, <1>10, NoClaims, SlotsFrame, ThreadFacts
<1> QED
  BY <1>1, <1>3, <1>4, <1>5, <1>6, <1>7, <1>8, <1>9, <1>11 DEF IInv

\* A task of another device is passed over.
LEMMA ScanPassStep ==
  ASSUME IInv, NEW e \in Threads, Scan(e), scan[e] <= Len(queue), ~ Fits(e, queue[scan[e]])
  PROVE  IInv'
<1> USE DEF Goto, dfeVars
<1>0. /\ pc[e] = "scan" /\ scan' = [scan EXCEPT ![e] = @ + 1] /\ lock' = lock
      /\ UNCHANGED <<prog, created, left, queue, owner, pc, cur, tried, idx, nextWDs, running,
                     flight, ended, exited, stop, dfeVars>>
  <2>1. Len(queue) \in Nat /\ scan[e] \in Nat
    BY DEF IInv, TypeOK
  <2> QED
    BY <2>1 DEF Scan
<1>1. TypeOK'
  <2>1. scan' \in [Threads -> Nat]
    BY <1>0 DEF IInv, TypeOK
  <2> QED
    BY <1>0, <2>1 DEF IInv, TypeOK, Task, Created
<1>2. Others(e) /\ scan'[e] >= 1 /\ \A f \in Threads : pc'[f] = pc[f]
  BY <1>0, ThreadFacts DEF IInv, TypeOK, Others, Control, Tries, TriesOf
<1>3. Control'
  BY <1>0 DEF IInv, Control, Trying, TriesSuccessor
<1>4. Keeping'
  BY <1>0 DEF IInv, Keeping, Trying
<1>5. Tries'
  BY <1>0, <1>2 DEF IInv, Tries, TriesOf, Others, Trying, TriesQueue, TriesSuccessor, Slots, Created
<1>6. Apart' /\ Somewhere' /\ Once'
  BY <1>0, PlacesFrame
<1>7. Executed'
  BY <1>0 DEF IInv, Executed, Finishing, TriesSuccessor, Trying, Created, Launched
<1>8. InOrder'
  BY <1>0, OrderFrame
<1>9. Stopping'
  BY <1>0 DEF IInv, Stopping, Created
<1>10. cur[e] = NULL /\ ~ Trying(e) /\ ~ Trying(e)'
  BY <1>0, <1>2, ThreadFacts DEF IInv, Control, Trying, TriesSuccessor
<1>11. SlotsOwned'
  BY <1>0, <1>2, <1>10, NoClaims, SlotsFrame, ThreadFacts
<1> QED
  BY <1>1, <1>3, <1>4, <1>5, <1>6, <1>7, <1>8, <1>9, <1>11 DEF IInv

\* A task of this device is tried.
LEMMA ScanTryStep ==
  ASSUME IInv, NEW e \in Threads, Scan(e), scan[e] <= Len(queue), Fits(e, queue[scan[e]])
  PROVE  IInv'
<1> USE DEF Goto, dfeVars
<1>0. /\ pc[e] = "scan" /\ lock' = lock /\ pc' = [pc EXCEPT ![e] = "try"]
      /\ tried' = [tried EXCEPT ![e] = queue[scan[e]]] /\ idx' = [idx EXCEPT ![e] = 1]
      /\ UNCHANGED <<prog, created, left, queue, owner, cur, scan, nextWDs, running,
                     flight, ended, exited, stop, dfeVars>>
  <2>1. Len(queue) \in Nat /\ scan[e] \in Nat
    BY DEF IInv, TypeOK
  <2> QED
    BY <2>1 DEF Scan
<1>1. lock = e /\ queue[scan[e]] \in Created
  <2>1. lock = e /\ scan[e] \in 1 .. Len(queue) /\ queue \in Seq(Created)
    BY <1>0 DEF IInv, Control, Tries, TriesOf, TypeOK
  <2> QED
    BY <2>1, ElementOfSeq
<1>2. TypeOK'
  BY <1>0, <1>1, ThreadFacts DEF IInv, TypeOK, Task, Created
<1>3. Others(e) /\ pc'[e] = "try" /\ tried'[e] = queue[scan[e]] /\ idx'[e] = 1
  BY <1>0 DEF IInv, TypeOK, Others
<1>4. Control'
  BY <1>0, <1>1, <1>3, ThreadFacts DEF IInv, Control, Others, Trying, TriesSuccessor
<1>5. Keeping'
  BY <1>0, <1>3, ThreadFacts DEF IInv, Keeping, Others, Trying
<1>6. Len(Slots(queue[scan[e]])) \in Nat
  BY <1>1, ProgramFacts DEF IInv
<1>7. Tries'
  <2>1. ASSUME NEW f \in Threads \ {e}
        PROVE  /\ lock' # f
               /\ TriesSuccessor(f)' => tried'[f] \in Created' /\ left'[tried'[f]] = {cur'[f]}
               /\ Trying(f)' => idx'[f] \in 1 .. Len(Slots(tried[f])') + 1
               /\ pc'[f] = "release" => idx'[f] \in 1 .. Len(Slots(cur[f])') + 1
    BY <1>0, <1>1, <1>3 DEF IInv, Tries, TriesOf, Others, Trying, TriesSuccessor, Slots, Created
  <2>2. /\ scan'[e] >= 1 /\ scan'[e] <= Len(queue') /\ tried'[e] = queue'[scan'[e]]
        /\ lock' = e /\ pc'[e] # "release"
    BY <1>0, <1>1, <1>3 DEF IInv, Tries, TriesOf
  <2>3. idx'[e] \in 1 .. Len(Slots(tried[e])') + 1
    BY <1>0, <1>3, <1>6 DEF Slots
  <2> QED
    BY <2>1, <2>2, <2>3 DEF Tries, TriesOf, TriesQueue, TriesSuccessor
<1>8. Apart' /\ Somewhere' /\ Once'
  BY <1>0, PlacesFrame
<1>9. Executed'
  BY <1>0, <1>1, <1>3 DEF IInv, Executed, Others, Finishing, TriesSuccessor, Trying, Created, Launched
<1>10. InOrder'
  BY <1>0, OrderFrame
<1>11. Stopping'
  BY <1>0, <1>3, ThreadFacts DEF IInv, Stopping, Others, Created
<1>12. cur[e] = NULL /\ cur'[e] = NULL
  BY <1>0, <1>1 DEF IInv, Control, Trying, TriesSuccessor
<1>13. Taking(e) = {} /\ Taking(e)' = {} /\ Having(e) = {} /\ Having(e)' = {}
  BY <1>0, <1>3, <1>12 DEF Taking, Having, Trying
<1>14. Kept(e)' = Kept(e) /\ \A t : RangeOf(Slots(t))' = RangeOf(Slots(t))
  BY <1>0 DEF Kept, Slots, RangeOf
<1>15. SlotsOwned'
  BY <1>0, <1>3, <1>13, <1>14, SlotsFrame DEF ClaimsBy
<1> QED
  BY <1>2, <1>4, <1>5, <1>7, <1>8, <1>9, <1>10, <1>11, <1>15 DEF IInv

\* A slot is taken.
LEMMA TakeSlotStep ==
  ASSUME IInv, NEW e \in Threads, TrySlot(e), CanTake(tried[e], Slots(tried[e])[idx[e]])
  PROVE  IInv'
<1> DEFINE t == tried[e]
           a == Slots(t)[idx[e]]
<1>0. /\ pc[e] = "try" /\ idx[e] <= Len(Slots(t)) /\ owner[a] \in {NULL, t}
      /\ owner' = [owner EXCEPT ![a] = t] /\ idx' = [idx EXCEPT ![e] = @ + 1]
      /\ UNCHANGED <<prog, created, left, queue, lock, pc, cur, tried, scan, nextWDs, running,
                     flight, ended, exited, stop, turn, curWD>>
  BY DEF TrySlot, CanTake, dfeVars
<1>1. Trying(e)
  BY <1>0 DEF Trying
<1>2. t \in Created
  BY <1>1, TriedFacts
<1>3. /\ Len(Slots(t)) \in Nat /\ idx[e] \in 1 .. Len(Slots(t)) /\ idx[e] \in Nat /\ a \in Addr
  <2>1. Len(Slots(t)) \in Nat /\ \A k \in 1 .. Len(Slots(t)) : Slots(t)[k] \in Addr
    BY <1>2, ProgramFacts DEF IInv
  <2>2. idx[e] \in 1 .. Len(Slots(t)) + 1
    BY <1>1 DEF IInv, Tries, TriesOf
  <2>3. idx[e] \in 1 .. Len(Slots(t)) /\ idx[e] \in Nat
    BY <1>0, <2>1, <2>2
  <2> QED
    BY <2>1, <2>3
<1>4. Others(e) /\ idx'[e] = idx[e] + 1
  BY <1>0 DEF IInv, TypeOK, Others
<1>5. TypeOK'
  <2>1. idx' \in [Threads -> Nat]
    BY <1>0, <1>3 DEF IInv, TypeOK
  <2>2. owner' \in [Addr -> Created \cup {NULL}]
    BY <1>0, <1>2 DEF IInv, TypeOK
  <2> HIDE DEF t, a
  <2> QED
    BY <1>0, <2>1, <2>2 DEF IInv, TypeOK, Task, Created
<1>6. Control' /\ Keeping' /\ Executed' /\ Stopping'
  <2> HIDE DEF t, a
  <2>1. Control' /\ Keeping'
    BY <1>0 DEF IInv, Control, Keeping, Trying, TriesSuccessor
  <2>2. Executed' /\ Stopping'
    BY <1>0 DEF IInv, Executed, Stopping, Finishing, Trying, TriesSuccessor, Created, Launched
  <2> QED
    BY <2>1, <2>2
<1>7. Apart' /\ Somewhere' /\ Once'
  BY <1>0, PlacesFrame
<1>8. InOrder'
  BY <1>0, OrderFrame
<1>9. Tries'
  <2>1. Created' = Created
    BY <1>0 DEF Created
  <2>2. \A f \in Threads \ {e} : TriesOf(f)'
    <3> HIDE DEF t, a
    <3> QED
      BY <1>0, <1>4, <2>1, OthersTries
  <2>3. idx'[e] \in 1 .. Len(Slots(tried[e])') + 1
    BY <1>0, <1>3, <1>4 DEF Slots
  <2>4. pc'[e] # "release"
    BY <1>0
  <2>5. /\ lock' = e => scan'[e] >= 1
        /\ TriesQueue(e)' => scan'[e] <= Len(queue') /\ tried'[e] = queue'[scan'[e]]
        /\ TriesSuccessor(e)' => tried'[e] \in Created' /\ left'[tried'[e]] = {cur'[e]}
    <3> HIDE DEF t, a
    <3> QED
      BY <1>0, <2>1 DEF IInv, Tries, TriesOf, TriesQueue, TriesSuccessor, Trying
  <2> HIDE DEF t, a
  <2> QED
    BY <2>2, <2>3, <2>4, <2>5 DEF Tries, TriesOf
<1>10. SlotsOwned'
  <2>1. /\ Taking(e) = {Slots(t)[k] : k \in 1 .. idx[e] - 1}
        /\ Taking(e)' = {Slots(t)[k] : k \in 1 .. idx[e]}
    <3>1. Trying(e)' /\ tried'[e] = t /\ Slots(t)' = Slots(t) /\ idx'[e] - 1 = idx[e]
      BY <1>0, <1>1, <1>3, <1>4 DEF Trying, Slots
    <3> HIDE DEF t, a
    <3> QED
      BY <1>1, <3>1 DEF Taking, t, Slots
  <2>2. Taking(e)' = Taking(e) \cup {a}
    <3>1. \A k \in 1 .. idx[e] : k \in 1 .. idx[e] - 1 \/ k = idx[e]
      BY <1>3
    <3>2. \A k \in 1 .. idx[e] - 1 : k \in 1 .. idx[e]
      BY <1>3
    <3>3. idx[e] \in 1 .. idx[e]
      BY <1>3
    <3> QED
      BY <2>1, <3>1, <3>2, <3>3
  <2>3. Having(e)' = Having(e) /\ Kept(e)' = Kept(e)
    <3> HIDE DEF t, a
    <3> QED
      BY <1>0 DEF Having, Kept, Slots, RangeOf
  <2>4. \A u : RangeOf(Slots(u))' = RangeOf(Slots(u))
    BY <1>0 DEF Slots, RangeOf
  <2>5. tried'[e] = t /\ tried[e] = t /\ cur'[e] = cur[e]
    BY <1>0
  <2> HIDE DEF t, a
  <2>6. \A u \in Created, b \in Addr : ClaimsBy(e, u, b)' <=> ClaimsBy(e, u, b) \/ (u = t /\ b = a)
    BY <2>2, <2>3, <2>4, <2>5 DEF ClaimsBy
  <2> QED
    BY <1>0, <1>2, <1>3, <1>4, <2>6, SlotsTake
<1> QED
  BY <1>5, <1>6, <1>7, <1>8, <1>9, <1>10 DEF IInv

\* A slot belongs to another task.
LEMMA RefuseSlotStep ==
  ASSUME IInv, NEW e \in Threads, TrySlot(e), ~ CanTake(tried[e], Slots(tried[e])[idx[e]])
  PROVE  IInv'
<1>0. /\ pc[e] = "try" /\ pc' = [pc EXCEPT ![e] = "undo"]
      /\ UNCHANGED <<prog, created, left, queue, lock, owner, cur, tried, scan, idx, nextWDs,
                     running, flight, ended, exited, stop, turn, curWD>>
  BY DEF TrySlot, Goto, dfeVars
<1>1. TypeOK'
  BY <1>0 DEF IInv, TypeOK, Task, Created
<1>2. Others(e) /\ pc'[e] = "undo"
  BY <1>0 DEF IInv, TypeOK, Others
<1>3. \A f \in Threads : /\ Trying(f)' <=> Trying(f)
                         /\ pc'[f] = pc[f] \/ (pc[f] = "try" /\ pc'[f] = "undo")
  BY <1>0, <1>2 DEF Others, Trying
<1>4. Control' /\ Keeping'
  BY <1>0, <1>3, ThreadFacts DEF IInv, Control, Keeping, Trying, TriesSuccessor
<1>5. Tries'
  BY <1>0, <1>3 DEF IInv, Tries, TriesOf, TriesQueue, TriesSuccessor, Slots, Created
<1>6. Apart' /\ Somewhere' /\ Once'
  BY <1>0, PlacesFrame
<1>7. Executed' /\ Stopping'
  BY <1>0, <1>3, ThreadFacts DEF IInv, Executed, Stopping, Finishing, TriesSuccessor, Created, Launched
<1>8. InOrder'
  BY <1>0, OrderFrame
<1>9. SlotsOwned'
  <2>1. Taking(e)' = Taking(e) /\ Having(e)' = Having(e) /\ Kept(e)' = Kept(e)
    BY <1>0, <1>2, <1>3 DEF Taking, Having, Kept, Slots, RangeOf
  <2>2. \A u : RangeOf(Slots(u))' = RangeOf(Slots(u))
    BY <1>0 DEF Slots, RangeOf
  <2>3. \A u \in Created, b \in Addr : ClaimsBy(e, u, b)' <=> ClaimsBy(e, u, b)
    BY <1>0, <2>1, <2>2 DEF ClaimsBy
  <2> QED
    BY <1>0, <1>2, <2>3, SlotsFrame
<1> QED
  BY <1>1, <1>4, <1>5, <1>6, <1>7, <1>8, <1>9 DEF IInv

\* A slot taken for a task that cannot have them all is given back.
LEMMA UndoSlotStep ==
  ASSUME IInv, NEW e \in Threads, UndoSlot(e), idx[e] > UndoFrom
  PROVE  IInv'
<1> DEFINE t == tried[e]
           n == idx[e] - 1
           a == Slots(t)[n]
<1>0. /\ pc[e] = "undo" /\ idx[e] > 1
      /\ owner' = [owner EXCEPT ![a] = NULL] /\ idx' = [idx EXCEPT ![e] = @ - 1]
      /\ UNCHANGED <<prog, created, left, queue, lock, pc, cur, tried, scan, nextWDs, running,
                     flight, ended, exited, stop, turn, curWD>>
  BY DEF UndoSlot, UndoFrom, dfeVars
<1>1. Trying(e)
  BY <1>0 DEF Trying
<1>2. t \in Created
  BY <1>1, TriedFacts
<1>3. /\ Len(Slots(t)) \in Nat /\ idx[e] \in Nat /\ n \in Nat /\ n \in 1 .. Len(Slots(t)) /\ a \in Addr
      /\ \A j, k \in 1 .. Len(Slots(t)) : Slots(t)[j] = Slots(t)[k] => j = k
  <2>1. /\ Len(Slots(t)) \in Nat /\ \A k \in 1 .. Len(Slots(t)) : Slots(t)[k] \in Addr
        /\ \A j, k \in 1 .. Len(Slots(t)) : Slots(t)[j] = Slots(t)[k] => j = k
    BY <1>2, ProgramFacts DEF IInv
  <2>2. idx[e] \in 1 .. Len(Slots(t)) + 1
    BY <1>1 DEF IInv, Tries, TriesOf
  <2>3. n \in 1 .. Len(Slots(t)) /\ idx[e] \in Nat /\ n \in Nat
    BY <1>0, <2>1, <2>2
  <2> QED
    BY <2>1, <2>3
<1>4. Others(e) /\ idx'[e] = n
  BY <1>0 DEF IInv, TypeOK, Others
<1>5. TypeOK'
  <2>1. idx' \in [Threads -> Nat]
    BY <1>0, <1>3 DEF IInv, TypeOK
  <2>2. owner' \in [Addr -> Created \cup {NULL}]
    BY <1>0 DEF IInv, TypeOK
  <2> HIDE DEF t, a
  <2> QED
    BY <1>0, <2>1, <2>2 DEF IInv, TypeOK, Task, Created
<1>6. Control' /\ Keeping' /\ Executed' /\ Stopping'
  <2> HIDE DEF t, a
  <2>1. Control' /\ Keeping'
    BY <1>0 DEF IInv, Control, Keeping, Trying, TriesSuccessor
  <2>2. Executed' /\ Stopping'
    BY <1>0 DEF IInv, Executed, Stopping, Finishing, Trying, TriesSuccessor, Created, Launched
  <2> QED
    BY <2>1, <2>2
<1>7. Apart' /\ Somewhere' /\ Once'
  BY <1>0, PlacesFrame
<1>8. InOrder'
  BY <1>0, OrderFrame
<1>9. Tries'
  <2>1. Created' = Created
    BY <1>0 DEF Created
  <2>2. \A f \in Threads \ {e} : TriesOf(f)'
    <3> HIDE DEF t, a
    <3> QED
      BY <1>0, <1>4, <2>1, OthersTries
  <2>3. idx'[e] \in 1 .. Len(Slots(tried[e])') + 1
    BY <1>0, <1>3, <1>4 DEF Slots
  <2>4. pc'[e] # "release"
    BY <1>0
  <2>5. /\ lock' = e => scan'[e] >= 1
        /\ TriesQueue(e)' => scan'[e] <= Len(queue') /\ tried'[e] = queue'[scan'[e]]
        /\ TriesSuccessor(e)' => tried'[e] \in Created' /\ left'[tried'[e]] = {cur'[e]}
    <3> HIDE DEF t, a
    <3> QED
      BY <1>0, <2>1 DEF IInv, Tries, TriesOf, TriesQueue, TriesSuccessor, Trying
  <2> HIDE DEF t, a
  <2> QED
    BY <2>2, <2>3, <2>4, <2>5 DEF Tries, TriesOf
<1>10. SlotsOwned'
  <2>1. /\ Taking(e) = {Slots(t)[k] : k \in 1 .. n}
        /\ Taking(e)' = {Slots(t)[k] : k \in 1 .. n - 1}
    <3>1. Trying(e)' /\ tried'[e] = t /\ Slots(t)' = Slots(t)
      BY <1>0, <1>1 DEF Trying, Slots
    <3> HIDE DEF t, a, n
    <3> QED
      BY <1>1, <1>4, <3>1 DEF Taking, t, n, Slots
  <2>2. a \in Taking(e)
    BY <2>1, <1>3
  <2>3. Taking(e)' = Taking(e) \ {a}
    <3>1. \A k \in 1 .. n : k \in 1 .. n - 1 \/ k = n
      BY <1>3
    <3>2. \A k \in 1 .. n - 1 : k \in 1 .. n /\ k # n /\ k \in 1 .. Len(Slots(t))
      BY <1>3
    <3>3. \A k \in 1 .. n - 1 : Slots(t)[k] # a
      BY <1>3, <3>2
    <3> HIDE DEF t, n
    <3> QED
      BY <2>1, <3>1, <3>2, <3>3
  <2>4. Having(e)' = Having(e) /\ Kept(e)' = Kept(e)
    <3> HIDE DEF t, a
    <3> QED
      BY <1>0 DEF Having, Kept, Slots, RangeOf
  <2>5. \A u : RangeOf(Slots(u))' = RangeOf(Slots(u))
    BY <1>0 DEF Slots, RangeOf
  <2>6. tried'[e] = t /\ tried[e] = t /\ cur'[e] = cur[e]
    BY <1>0
  <2>7. /\ t \notin Launched /\ t \notin Kept(e) /\ cur[e] # t
        /\ \A f \in Threads \ {e} : ~ ClaimsBy(f, t, a)
    <3>1. /\ t \notin Launched
          /\ \A f \in Threads : cur[f] # t /\ t \notin Kept(f)
          /\ \A f \in Threads \ {e} : Trying(f) => tried[f] # t
      BY <1>1, TriedFacts
    <3> HIDE DEF t, a
    <3> QED
      BY <3>1 DEF ClaimsBy, Taking
  <2> HIDE DEF t, a, n
  <2>8. \A u \in Created, b \in Addr : ClaimsBy(e, u, b)' <=> ClaimsBy(e, u, b) /\ ~ (u = t /\ b = a)
    BY <2>3, <2>4, <2>5, <2>6, <2>7 DEF ClaimsBy
  <2>9. ClaimsBy(e, t, a)
    BY <2>2, <2>6 DEF ClaimsBy
  <2> QED
    BY <1>0, <1>2, <1>3, <1>4, <2>7, <2>8, <2>9, SlotsGive
<1> QED
  BY <1>5, <1>6, <1>7, <1>8, <1>9, <1>10 DEF IInv

\* All slots have been given back: the next task of the queue, or the next successor.
LEMMA UndoneStep ==
  ASSUME IInv, NEW e \in Threads, UndoSlot(e), ~ idx[e] > UndoFrom
  PROVE  IInv'
<1> USE DEF Goto
<1>0. /\ pc[e] = "undo" /\ ~ idx[e] > 1
      /\ UNCHANGED <<prog, created, left, queue, lock, owner, cur, tried, idx, nextWDs, running,
                     flight, ended, exited, stop, turn, curWD>>
      /\ \/ lock = e /\ scan' = [scan EXCEPT ![e] = @ + 1] /\ pc' = [pc EXCEPT ![e] = "scan"]
         \/ lock # e /\ scan' = scan /\ pc' = [pc EXCEPT ![e] = "succ"]
  BY DEF UndoSlot, UndoFrom, dfeVars
<1>1. Trying(e) /\ Len(Slots(tried[e])) \in Nat
  <2>1. Trying(e)
    BY <1>0 DEF Trying
  <2> QED
    BY <2>1, TriedFacts, ProgramFacts DEF IInv
<1>2. Others(e) /\ (lock = e => pc'[e] = "scan" /\ scan'[e] = scan[e] + 1)
                /\ (lock # e => pc'[e] = "succ")
  BY <1>0 DEF IInv, TypeOK, Others
<1>3. TypeOK'
  <2>1. scan' \in [Threads -> Nat]
    <3>1. scan \in [Threads -> Nat] /\ scan[e] + 1 \in Nat
      BY DEF IInv, TypeOK
    <3> QED
      BY <1>0, <3>1
  <2>2. pc' \in [Threads -> {"submit", "top", "idle", "lock", "scan", "try", "undo", "run",
                             "succ", "release", "finish", "launch", "post", "join", "out"}]
    BY <1>0 DEF IInv, TypeOK
  <2> QED
    BY <1>0, <2>1, <2>2 DEF IInv, TypeOK, Task, Created
<1>4. lock # e => e # Dfe
  BY <1>0 DEF IInv, Control
<1>5. Control'
  BY <1>0, <1>2, <1>4, ThreadFacts DEF IInv, Control, Others, Trying, TriesSuccessor
<1>6. Keeping'
  BY <1>0, <1>1, <1>2, ThreadFacts DEF IInv, Keeping, Others, Trying
<1>7. Tries'
  <2>1. Created' = Created
    BY <1>0 DEF Created
  <2>2. \A f \in Threads \ {e} : TriesOf(f)'
    BY <1>0, <1>2, <2>1, OthersTries
  <2>3. ~ Trying(e)' /\ pc'[e] # "release"
    BY <1>2 DEF Trying
  <2>4. lock' = e => scan'[e] >= 1
    BY <1>0, <1>2 DEF IInv, TypeOK
  <2> QED
    BY <2>2, <2>3, <2>4 DEF Tries, TriesOf, TriesQueue, TriesSuccessor
<1>8. Apart' /\ Somewhere' /\ Once'
  BY <1>0, PlacesFrame
<1>9. Executed'
  BY <1>0, <1>1, <1>2 DEF IInv, Control, Executed, Others, Finishing, TriesSuccessor, Trying, Created, Launched
<1>10. InOrder'
  BY <1>0, OrderFrame
<1>11. Stopping'
  BY <1>0, <1>2, ThreadFacts DEF IInv, Stopping, Others, Created
<1>12. SlotsOwned'
  <2>1. Taking(e) = {} /\ Taking(e)' = {}
    <3>1. idx[e] \in 1 .. Len(Slots(tried[e])) + 1
      BY <1>1 DEF IInv, Tries, TriesOf
    <3>2. idx[e] = 1
      BY <1>0, <1>1, <3>1
    <3>3. ~ Trying(e)'
      BY <1>2 DEF Trying
    <3> QED
      BY <3>2, <3>3 DEF Taking
  <2>2. Having(e)' = Having(e) /\ Kept(e)' = Kept(e)
    BY <1>0, <1>2 DEF Having, Kept, Slots, RangeOf
  <2>3. \A u : RangeOf(Slots(u))' = RangeOf(Slots(u))
    BY <1>0 DEF Slots, RangeOf
  <2>4. \A u \in Created, b \in Addr : ClaimsBy(e, u, b)' <=> ClaimsBy(e, u, b)
    BY <1>0, <2>1, <2>2, <2>3 DEF ClaimsBy
  <2> QED
    BY <1>0, <1>2, <2>4, SlotsFrame
<1> QED
  BY <1>3, <1>5, <1>6, <1>7, <1>8, <1>9, <1>10, <1>11, <1>12 DEF IInv

\* A task of the queue with all its slots leaves it, with the thread.
LEMMA PopStep == ASSUME IInv, NEW e \in Threads, Pop(e) PROVE IInv'
<1> DEFINE t == tried[e]
           next == IF e = Dfe THEN "launch" ELSE "run"
<1>0. /\ pc[e] = "try" /\ idx[e] > Len(Slots(t)) /\ lock = e /\ lock' = NULL
      /\ queue' = [i \in 1 .. Len(queue) - 1 |-> IF i < scan[e] THEN queue[i] ELSE queue[i + 1]]
      /\ cur' = [cur EXCEPT ![e] = t] /\ pc' = [pc EXCEPT ![e] = next]
      /\ UNCHANGED <<prog, created, left, owner, tried, scan, idx, nextWDs, running, flight,
                     ended, exited, stop, turn, curWD>>
  BY DEF Pop, Acquired, Goto, dfeVars
<1>1. Trying(e) /\ TriesQueue(e)
  BY <1>0 DEF Trying, TriesQueue
<1>2. /\ t \in Created /\ t # NULL /\ t \notin Launched \cup exited
      /\ \A f \in Threads : cur[f] # t /\ t \notin Kept(f)
  BY <1>1, TriedFacts, ProgramFacts DEF IInv
<1>3. queue' \in Seq(Created) /\ Queued' = Queued \ {t} /\ Distinct(queue') /\ t \in Queued
  <2>1. /\ queue \in Seq(Created) /\ scan[e] \in Nat /\ Len(queue) \in Nat
        /\ scan[e] \in 1 .. Len(queue) /\ t = queue[scan[e]]
    BY <1>1 DEF IInv, TypeOK, Tries, TriesOf, TriesQueue
  <2>2. Distinct(queue)
    BY DEF IInv, Once, Distinct
  <2>3. queue' \in Seq(Created) /\ RangeOf(queue') = RangeOf(queue) \ {queue[scan[e]]} /\ Distinct(queue')
    <3>1. queue' = Without(queue, scan[e])
      BY <1>0 DEF Without
    <3> QED
      BY <2>1, <2>2, <3>1, RemoveFacts
  <2>4. t \in RangeOf(queue)
    BY <2>1 DEF RangeOf
  <2> QED
    BY <2>1, <2>3, <2>4 DEF Queued
<1> HIDE DEF t
<1>4. /\ Others(e) /\ pc'[e] = next /\ cur'[e] = t /\ cur[e] = NULL
      /\ \A f \in Threads \ {e} : lock # f /\ lock' # f
  <2>1. cur[e] = NULL
    BY <1>0 DEF IInv, Control, TriesSuccessor
  <2> QED
    BY <1>0, <2>1, ThreadFacts DEF IInv, TypeOK, Others
<1>5. TypeOK'
  <2>1. pc' \in [Threads -> {"submit", "top", "idle", "lock", "scan", "try", "undo", "run",
                             "succ", "release", "finish", "launch", "post", "join", "out"}]
    BY <1>0 DEF IInv, TypeOK
  <2>2. cur' \in [Threads -> Created \cup {NULL}]
    BY <1>0, <1>2 DEF IInv, TypeOK
  <2> QED
    BY <1>0, <1>3, <2>1, <2>2 DEF IInv, TypeOK, Task, Created
<1>6. Control'
  BY <1>0, <1>2, <1>4, ThreadFacts DEF IInv, Control, Others, Trying, TriesSuccessor
<1>7. Keeping'
  BY <1>0, <1>1, <1>4, ThreadFacts DEF IInv, Keeping, Others, Trying
<1>8. Tries'
  <2>1. Created' = Created
    BY <1>0 DEF Created
  <2>2. \A f \in Threads \ {e} : TriesOf(f)'
    BY <1>0, <1>4, <2>1, OthersTries
  <2>3. TriesOf(e)'
    BY <1>0, <1>4, ThreadFacts DEF TriesOf, TriesQueue, TriesSuccessor, Trying
  <2> QED
    BY <2>2, <2>3 DEF Tries
<1>9. Apart' /\ Somewhere' /\ Once'
  <2>1. Created' = Created /\ Waiting' = Waiting /\ Launched' = Launched /\ exited' = exited
    BY <1>0 DEF Created, Waiting, Launched
  <2>2. /\ \A f \in Threads : Kept(f)' = Kept(f)
        /\ \A f \in Threads \ {e} : cur'[f] = cur[f]
    BY <1>0, <1>4 DEF Kept, Others
  <2>3. Unheld' = Unheld \ {t} /\ t \in Unheld
    <3>1. t \notin Waiting
      BY <1>3 DEF IInv, Apart
    <3> QED
      BY <1>2, <1>3, <2>1, <3>1 DEF Unheld
  <2>4. Apart'
    BY <1>2, <1>3, <1>4, <2>1, <2>2, <2>3 DEF IInv, Apart
  <2>5. Somewhere'
    <3>1. NULL \notin Created
      BY ProgramFacts DEF IInv
    <3> QED
      BY <1>4, <2>1, <2>2, <2>3, <3>1 DEF IInv, Somewhere
  <2>6. Once'
    BY <1>0, <1>3 DEF IInv, Once, Distinct
  <2> QED
    BY <2>4, <2>5, <2>6
<1>10. Executed'
  <2>1. ~ Finishing(e)' /\ \A f \in Threads \ {e} : Finishing(f)' <=> Finishing(f)
    BY <1>0, <1>4 DEF Finishing, TriesSuccessor, Trying, Others
  <2>2. \A u \in Created : u # NULL
    BY ProgramFacts DEF IInv
  <2>3. ~ Finishing(e)
    BY <1>0 DEF Finishing, TriesSuccessor
  <2> QED
    BY <1>0, <1>4, <2>1, <2>2, <2>3 DEF IInv, Executed, Others, Created, Launched
<1>11. InOrder'
  BY <1>0, OrderFrame
<1>12. Stopping'
  BY <1>0, <1>4, ThreadFacts DEF IInv, Stopping, Others, Created
<1>13. SlotsOwned'
  <2>1. /\ Len(Slots(t)) \in Nat /\ DOMAIN Slots(t) = 1 .. Len(Slots(t))
        /\ idx[e] - 1 = Len(Slots(t))
    <3>1. Len(Slots(t)) \in Nat /\ DOMAIN Slots(t) = 1 .. Len(Slots(t))
      BY <1>2, ProgramFacts DEF IInv
    <3>2. idx[e] \in 1 .. Len(Slots(t)) + 1
      BY <1>1 DEF IInv, Tries, TriesOf, t
    <3> QED
      BY <1>0, <3>1, <3>2
  <2>2. Taking(e) = RangeOf(Slots(t)) /\ Having(e) = {}
    BY <1>1, <1>4, <2>1 DEF Taking, Having, RangeOf, t
  <2>3. Taking(e)' = {} /\ Having(e)' = RangeOf(Slots(t))
    <3>1. pc'[e] \notin {"try", "undo", "finish", "release"} /\ prog' = prog
      BY <1>0, <1>4
    <3> QED
      BY <1>2, <1>4, <3>1 DEF Taking, Having, Trying, RangeOf, Slots
  <2>4. Kept(e)' = Kept(e) /\ \A u : RangeOf(Slots(u))' = RangeOf(Slots(u))
    BY <1>0 DEF Kept, Slots, RangeOf
  <2>5. \A u \in Created, b \in Addr : ClaimsBy(e, u, b)' <=> ClaimsBy(e, u, b)
    BY <1>4, <2>2, <2>3, <2>4 DEF ClaimsBy, t
  <2> QED
    BY <1>0, <1>4, <2>5, SlotsFrame
<1> QED
  BY <1>5, <1>6, <1>7, <1>8, <1>9, <1>10, <1>11, <1>12, <1>13 DEF IInv

\* The successor a thread kept is executed.
LEMMA TakeNextStep == ASSUME IInv, NEW e \in Smp, TakeNext(e) PROVE IInv'
<1> DEFINE t == Head(nextWDs[e])
<1>0. /\ pc[e] = "idle" /\ nextWDs[e] # <<>> /\ cur' = [cur EXCEPT ![e] = t]
      /\ nextWDs' = [nextWDs EXCEPT ![e] = Tail(nextWDs[e])] /\ pc' = [pc EXCEPT ![e] = "run"]
      /\ UNCHANGED <<prog, created, left, queue, lock, owner, tried, scan, idx, running, flight,
                     ended, exited, stop, turn, curWD>>
  BY DEF TakeNext, Goto, dfeVars
<1>1. e \in Threads /\ e # Dfe
  BY ThreadFacts
<1>2. /\ t \in Created /\ Kept(e) = {t} /\ Tail(nextWDs[e]) = <<>>
  <2>1. nextWDs[e] \in Seq(Created) /\ Len(nextWDs[e]) = 1
    BY <1>0, <1>1 DEF IInv, TypeOK, Keeping
  <2>2. DOMAIN nextWDs[e] = {1} /\ t = nextWDs[e][1] /\ t \in Created
    BY <2>1, LenProperties, ElementOfSeq
  <2>3. Len(Tail(nextWDs[e])) = 0 /\ Tail(nextWDs[e]) \in Seq(Created)
    BY <1>0, <2>1
  <2> QED
    BY <2>2, <2>3, EmptySeq DEF Kept, RangeOf
<1>3. t # NULL
  BY <1>2, ProgramFacts DEF IInv
<1> HIDE DEF t
<1>4. /\ Others(e) /\ pc'[e] = "run" /\ cur'[e] = t /\ cur[e] = NULL /\ nextWDs'[e] = <<>>
  <2>1. cur[e] = NULL
    BY <1>0, <1>1 DEF IInv, Control, TriesSuccessor, Trying
  <2> QED
    BY <1>0, <1>1, <1>2, <2>1 DEF IInv, TypeOK, Others
<1>5. TypeOK'
  <2>1. cur' \in [Threads -> Created \cup {NULL}]
    BY <1>0, <1>2 DEF IInv, TypeOK
  <2>2. nextWDs' \in [Threads -> Seq(Created)]
    BY <1>0, <1>2, EmptySeq DEF IInv, TypeOK
  <2>3. pc' \in [Threads -> {"submit", "top", "idle", "lock", "scan", "try", "undo", "run",
                             "succ", "release", "finish", "launch", "post", "join", "out"}]
    BY <1>0 DEF IInv, TypeOK
  <2> QED
    BY <1>0, <2>1, <2>2, <2>3 DEF IInv, TypeOK, Task, Created
<1>6. Control'
  BY <1>0, <1>1, <1>3, <1>4, ThreadFacts DEF IInv, Control, Others, Trying, TriesSuccessor
<1>7. Keeping'
  BY <1>0, <1>4, ThreadFacts DEF IInv, Keeping, Others, Trying
<1>8. Tries'
  <2>1. Created' = Created
    BY <1>0 DEF Created
  <2>2. \A f \in Threads \ {e} : TriesOf(f)'
    BY <1>0, <1>1, <1>4, <2>1, OthersTries
  <2>3. lock # e
    BY <1>0, <1>1 DEF IInv, Control, Trying
  <2>4. TriesOf(e)'
    BY <1>0, <1>4, <2>3 DEF TriesOf, TriesQueue, TriesSuccessor, Trying
  <2> QED
    BY <2>2, <2>4 DEF Tries
<1>9. /\ Created' = Created /\ Waiting' = Waiting /\ Queued' = Queued /\ Launched' = Launched
      /\ exited' = exited /\ Unheld' = Unheld
      /\ Kept(e)' = {} /\ Kept(e) = {t}
      /\ \A f \in Threads \ {e} : Kept(f)' = Kept(f) /\ cur'[f] = cur[f]
  <2>1. /\ Created' = Created /\ Waiting' = Waiting /\ Queued' = Queued /\ Launched' = Launched
        /\ exited' = exited
    BY <1>0 DEF Created, Waiting, Queued, Launched
  <2>2. Kept(e)' = {}
    BY <1>4 DEF Kept, RangeOf
  <2> QED
    BY <1>2, <1>4, <2>1, <2>2 DEF Unheld, Kept, Others
<1>10. Apart'
  <2>1. t \notin Unheld /\ \A f \in Threads : cur[f] # t
    BY <1>1, <1>9 DEF IInv, Apart
  <2>2. \A f \in Threads \ {e} : t \notin Kept(f)
    BY <1>1, <1>9 DEF IInv, Apart
  <2> QED
    BY <1>3, <1>4, <1>9, <2>1, <2>2 DEF IInv, Apart
<1>11. Somewhere' /\ Once'
  <2>1. Somewhere'
    BY <1>1, <1>4, <1>9, ProgramFacts DEF IInv, Somewhere
  <2>2. Once'
    BY <1>0 DEF IInv, Once
  <2> QED
    BY <2>1, <2>2
<1>12. Executed'
  <2>1. ~ Finishing(e)' /\ ~ Finishing(e) /\ \A f \in Threads \ {e} : Finishing(f)' <=> Finishing(f)
    BY <1>0, <1>4 DEF Finishing, TriesSuccessor, Trying, Others
  <2> QED
    BY <1>0, <1>1, <1>4, <2>1 DEF IInv, Executed, Others, Created, Launched
<1>13. InOrder'
  BY <1>0, OrderFrame
<1>14. Stopping'
  BY <1>0, <1>4, ThreadFacts DEF IInv, Stopping, Others, Created
<1>15. SlotsOwned'
  <2>1. Taking(e) = {} /\ Having(e) = {} /\ Taking(e)' = {} /\ Having(e)' = RangeOf(Slots(t))
    BY <1>0, <1>3, <1>4 DEF Taking, Having, Trying, RangeOf, Slots
  <2>2. \A u : RangeOf(Slots(u))' = RangeOf(Slots(u))
    BY <1>0 DEF Slots, RangeOf
  <2>3. \A u \in Created, b \in Addr : ClaimsBy(e, u, b)' <=> ClaimsBy(e, u, b)
    BY <1>4, <1>9, <2>1, <2>2 DEF ClaimsBy
  <2> QED
    BY <1>0, <1>1, <1>4, <2>3, SlotsFrame
<1> QED
  BY <1>5, <1>6, <1>7, <1>8, <1>10, <1>11, <1>12, <1>13, <1>14, <1>15 DEF IInv

\* The body of a task ends.
LEMMA EndRunStep == ASSUME IInv, NEW e \in Smp, EndRun(e) PROVE IInv'
<1>0. /\ pc[e] = "run" /\ ended' = ended \cup {cur[e]} /\ tried' = [tried EXCEPT ![e] = 0]
      /\ pc' = [pc EXCEPT ![e] = "succ"]
      /\ UNCHANGED <<prog, created, left, queue, lock, owner, cur, scan, idx, nextWDs, running,
                     flight, exited, stop, turn, curWD>>
  BY DEF EndRun, Goto, dfeVars
<1>1. e \in Threads /\ e # Dfe
  BY ThreadFacts
<1>2. cur[e] # NULL /\ cur[e] \in Created
  <2>1. cur[e] # NULL
    BY <1>0, <1>1 DEF IInv, Control
  <2> QED
    BY <1>1, <2>1 DEF IInv, TypeOK
<1>3. Others(e) /\ pc'[e] = "succ" /\ cur'[e] = cur[e]
  BY <1>0, <1>1 DEF IInv, TypeOK, Others
<1>4. TypeOK'
  <2>1. tried' \in [Threads -> Created \cup {NULL}]
    BY <1>0 DEF IInv, TypeOK, NULL
  <2>2. pc' \in [Threads -> {"submit", "top", "idle", "lock", "scan", "try", "undo", "run",
                             "succ", "release", "finish", "launch", "post", "join", "out"}]
    BY <1>0 DEF IInv, TypeOK
  <2>3. ended' \subseteq Created /\ exited' \subseteq ended'
    BY <1>0, <1>2 DEF IInv, TypeOK
  <2> QED
    BY <1>0, <2>1, <2>2, <2>3 DEF IInv, TypeOK, Task, Created
<1>5. Control'
  BY <1>0, <1>1, <1>3, ThreadFacts DEF IInv, Control, Others, Trying, TriesSuccessor
<1>6. Keeping'
  BY <1>0, <1>1, <1>3, ThreadFacts DEF IInv, Keeping, Others, Trying
<1>7. Tries'
  <2>1. Created' = Created
    BY <1>0 DEF Created
  <2>2. \A f \in Threads \ {e} : TriesOf(f)'
    BY <1>0, <1>1, <1>3, <2>1, OthersTries
  <2>3. lock # e
    BY <1>0, <1>1 DEF IInv, Control, Trying
  <2>4. TriesOf(e)'
    BY <1>0, <1>3, <2>3 DEF TriesOf, TriesQueue, TriesSuccessor, Trying
  <2> QED
    BY <2>2, <2>4 DEF Tries
<1>8. Apart' /\ Somewhere' /\ Once'
  BY <1>0, PlacesFrame
<1>9. Executed'
  <2>1. Finishing(e)' /\ ~ Finishing(e) /\ \A f \in Threads \ {e} : Finishing(f)' <=> Finishing(f)
    BY <1>0, <1>3 DEF Finishing, TriesSuccessor, Trying, Others
  <2>2. /\ Created' = Created /\ Launched' = Launched /\ exited' = exited /\ flight' = flight
        /\ ended' = ended \cup {cur[e]} /\ \A f \in Threads : cur'[f] = cur[f]
    BY <1>0 DEF Created, Launched
  <2> QED
    BY <1>1, <2>1, <2>2 DEF IInv, Executed
<1>10. InOrder'
  BY <1>0 DEF IInv, InOrder, Task, Created
<1>11. Stopping'
  BY <1>0, <1>1, <1>3, ThreadFacts DEF IInv, Stopping, Others, Created
<1>12. SlotsOwned'
  <2>1. Taking(e) = {} /\ Taking(e)' = {} /\ Having(e)' = Having(e)
    BY <1>0, <1>3 DEF Taking, Having, Trying, RangeOf, Slots
  <2>2. Kept(e)' = Kept(e) /\ \A u : RangeOf(Slots(u))' = RangeOf(Slots(u))
    BY <1>0 DEF Kept, Slots, RangeOf
  <2>3. \A u \in Created, b \in Addr : ClaimsBy(e, u, b)' <=> ClaimsBy(e, u, b)
    BY <1>3, <2>1, <2>2 DEF ClaimsBy
  <2> QED
    BY <1>0, <1>1, <1>3, <2>3, SlotsFrame
<1> QED
  BY <1>4, <1>5, <1>6, <1>7, <1>8, <1>9, <1>10, <1>11, <1>12 DEF IInv

\* The next successor to try, or none.
LEMMA NextSuccessorStep == ASSUME IInv, NEW e \in Smp, NextSuccessor(e) PROVE IInv'
<1> DEFINE C == Candidates(e)
           x == CHOOSE y \in C : \A z \in C : y <= z
<1>0. /\ pc[e] = "succ" /\ idx' = [idx EXCEPT ![e] = 1]
      /\ \/ C = {} /\ pc' = [pc EXCEPT ![e] = "release"] /\ tried' = tried
         \/ C # {} /\ pc' = [pc EXCEPT ![e] = "try"] /\ tried' = [tried EXCEPT ![e] = x]
      /\ UNCHANGED <<prog, created, left, queue, lock, owner, cur, scan, nextWDs, running,
                     flight, ended, exited, stop, turn, curWD>>
  BY DEF NextSuccessor, Goto, dfeVars
<1>1. e \in Threads /\ e # Dfe
  BY ThreadFacts
<1>2. cur[e] # NULL /\ cur[e] \in Created /\ lock # e
  <2>1. cur[e] # NULL /\ lock # e
    BY <1>0, <1>1 DEF IInv, Control, Trying
  <2> QED
    BY <1>1, <2>1 DEF IInv, TypeOK
<1>3. C # {} => x \in Created /\ left[x] = {cur[e]}
  <2>1. C \in SUBSET Nat /\ \A y \in C : y \in Created /\ left[y] = {cur[e]}
    BY DEF Candidates, OnlyWaitsFor, Created
  <2> HIDE DEF C
  <2>2. C # {} => x \in C
    BY <2>1, LeastElement
  <2> QED
    BY <2>1, <2>2
<1> HIDE DEF C, x
<1>4. /\ Others(e) /\ idx'[e] = 1 /\ cur'[e] = cur[e]
      /\ \/ pc'[e] = "release" /\ tried'[e] = tried[e]
         \/ pc'[e] = "try" /\ tried'[e] \in Created /\ left[tried'[e]] = {cur[e]}
  BY <1>0, <1>1, <1>3 DEF IInv, TypeOK, Others
<1>5. TypeOK'
  <2>1. tried' \in [Threads -> Created \cup {NULL}]
    BY <1>0, <1>3 DEF IInv, TypeOK
  <2>2. pc' \in [Threads -> {"submit", "top", "idle", "lock", "scan", "try", "undo", "run",
                             "succ", "release", "finish", "launch", "post", "join", "out"}]
    BY <1>0 DEF IInv, TypeOK
  <2>3. idx' \in [Threads -> Nat]
    BY <1>0 DEF IInv, TypeOK
  <2> QED
    BY <1>0, <2>1, <2>2, <2>3 DEF IInv, TypeOK, Task, Created
<1>6. Control'
  BY <1>0, <1>1, <1>2, <1>4, ThreadFacts DEF IInv, Control, Others, Trying, TriesSuccessor
<1>7. Keeping'
  BY <1>0, <1>1, <1>4, ThreadFacts DEF IInv, Keeping, Others, Trying
<1>8. Tries'
  <2>1. Created' = Created
    BY <1>0 DEF Created
  <2>2. \A f \in Threads \ {e} : TriesOf(f)'
    BY <1>0, <1>1, <1>4, <2>1, OthersTries
  <2>3. \A u \in Created : Len(Slots(u)) \in Nat /\ Slots(u)' = Slots(u)
    BY <1>0, ProgramFacts DEF IInv, Slots
  <2>4. /\ pc'[e] = "release" => Len(Slots(cur[e])') \in Nat
        /\ Trying(e)' => Len(Slots(tried[e])') \in Nat
    BY <1>0, <1>2, <1>4, <2>3 DEF Slots, Trying
  <2>5. TriesOf(e)'
    BY <1>0, <1>2, <1>4, <2>1, <2>4 DEF TriesOf, TriesQueue, TriesSuccessor, Trying
  <2> QED
    BY <2>2, <2>5 DEF Tries
<1>9. Apart' /\ Somewhere' /\ Once'
  BY <1>0, PlacesFrame
<1>10. Executed'
  <2>1. Finishing(e)' /\ Finishing(e) /\ \A f \in Threads \ {e} : Finishing(f)' <=> Finishing(f)
    BY <1>0, <1>2, <1>4 DEF Finishing, TriesSuccessor, Trying, Others
  <2>2. /\ Created' = Created /\ Launched' = Launched /\ exited' = exited /\ flight' = flight
        /\ ended' = ended /\ \A f \in Threads : cur'[f] = cur[f]
    BY <1>0 DEF Created, Launched
  <2> QED
    BY <1>1, <2>1, <2>2 DEF IInv, Executed
<1>11. InOrder'
  BY <1>0, OrderFrame
<1>12. Stopping'
  BY <1>0, <1>1, <1>4, ThreadFacts DEF IInv, Stopping, Others, Created
<1>13. SlotsOwned'
  <2>1. /\ Taking(e) = {} /\ Taking(e)' = {}
    BY <1>0, <1>4 DEF Taking, Trying
  <2>2. Having(e)' = Having(e)
    <3>1. Having(e) = RangeOf(Slots(cur[e]))
      BY <1>0, <1>2 DEF Having
    <3>2. DOMAIN Slots(cur[e]) = 1 .. Len(Slots(cur[e])) /\ Slots(cur[e])' = Slots(cur[e])
      BY <1>0, <1>2, ProgramFacts DEF IInv, Slots
    <3>3. CASE pc'[e] = "try"
      BY <1>2, <1>4, <3>1, <3>2, <3>3 DEF Having, RangeOf
    <3>4. CASE pc'[e] = "release"
      BY <1>2, <1>4, <3>1, <3>2, <3>4 DEF Having, RangeOf
    <3> QED
      BY <1>4, <3>3, <3>4
  <2>3. Kept(e)' = Kept(e) /\ \A u : RangeOf(Slots(u))' = RangeOf(Slots(u))
    BY <1>0 DEF Kept, Slots, RangeOf
  <2>4. \A u \in Created, b \in Addr : ClaimsBy(e, u, b)' <=> ClaimsBy(e, u, b)
    BY <1>4, <2>1, <2>2, <2>3 DEF ClaimsBy
  <2> QED
    BY <1>0, <1>1, <1>4, <2>4, SlotsFrame
<1> QED
  BY <1>5, <1>6, <1>7, <1>8, <1>9, <1>10, <1>11, <1>12, <1>13 DEF IInv

\* A successor with all its slots leaves the graph and waits for this thread.
LEMMA KeepSuccessorStep == ASSUME IInv, NEW e \in Smp, KeepSuccessor(e) PROVE IInv'
<1> DEFINE x == tried[e]
<1>0. /\ pc[e] = "try" /\ idx[e] > Len(Slots(x)) /\ lock # e
      /\ left' = [left EXCEPT ![x] = {}]
      /\ nextWDs' = [nextWDs EXCEPT ![e] = Append(nextWDs[e], x)]
      /\ idx' = [idx EXCEPT ![e] = 1] /\ pc' = [pc EXCEPT ![e] = "release"]
      /\ UNCHANGED <<prog, created, queue, lock, owner, cur, tried, scan, running, flight,
                     ended, exited, stop, turn, curWD>>
  BY DEF KeepSuccessor, Acquired, TakenOut, Goto, dfeVars
<1>1. e \in Threads /\ e # Dfe
  BY ThreadFacts
<1>2. Trying(e) /\ TriesSuccessor(e)
  BY <1>0 DEF Trying, TriesSuccessor
<1>3. /\ x \in Created /\ x \in Task /\ x \notin Launched \cup exited
      /\ \A f \in Threads : cur[f] # x /\ x \notin Kept(f)
      /\ \A f \in Threads \ {e} : Trying(f) => tried[f] # x
  BY <1>1, <1>2, TriedFacts, ProgramFacts DEF IInv
<1>4. left[x] = {cur[e]} /\ x \in Waiting /\ x \notin Queued
  <2>1. left[x] = {cur[e]} /\ x \in Waiting
    BY <1>1, <1>2, <1>3 DEF IInv, Tries, TriesOf, Waiting
  <2> QED
    BY <2>1 DEF IInv, Apart
<1>5. cur[e] # NULL /\ cur[e] \in Created /\ cur[e] \in ended /\ nextWDs[e] = <<>>
  <2>1. cur[e] # NULL /\ nextWDs[e] = <<>>
    BY <1>1, <1>2 DEF IInv, Control, Keeping
  <2>2. cur[e] \in Created
    BY <1>1, <2>1 DEF IInv, TypeOK
  <2> QED
    BY <1>1, <1>2, <2>1, <2>2 DEF IInv, Executed, Finishing
<1> HIDE DEF x
<1>6. /\ Append(nextWDs[e], x) \in Seq(Created) /\ Len(Append(nextWDs[e], x)) = 1
      /\ RangeOf(Append(nextWDs[e], x)) = {x}
  <2>1. nextWDs[e] \in Seq(Created) /\ Len(nextWDs[e]) = 0 /\ RangeOf(nextWDs[e]) = {}
    BY <1>5, EmptySeq DEF RangeOf
  <2> QED
    BY <1>3, <2>1, PushFacts
<1>7. /\ Others(e) /\ pc'[e] = "release" /\ idx'[e] = 1 /\ cur'[e] = cur[e]
      /\ nextWDs'[e] = Append(nextWDs[e], x) /\ tried'[e] = x
  BY <1>0, <1>1 DEF IInv, TypeOK, Others, x
<1>8. /\ Created' = Created /\ Task' = Task /\ left'[x] = {}
      /\ \A u \in Task : u # x => left'[u] = left[u]
  <2>1. left \in [Task -> SUBSET Created]
    BY DEF IInv, TypeOK
  <2> QED
    BY <1>0, <1>3, <2>1 DEF Created, Task
<1>9. TypeOK'
  <2>1. left' \in [Task -> SUBSET Created]
    BY <1>0, <1>3 DEF IInv, TypeOK
  <2>2. nextWDs' \in [Threads -> Seq(Created)]
    BY <1>0, <1>6 DEF IInv, TypeOK
  <2>3. idx' \in [Threads -> Nat]
    BY <1>0 DEF IInv, TypeOK
  <2>4. pc' \in [Threads -> {"submit", "top", "idle", "lock", "scan", "try", "undo", "run",
                             "succ", "release", "finish", "launch", "post", "join", "out"}]
    BY <1>0 DEF IInv, TypeOK
  <2> QED
    BY <1>0, <1>8, <2>1, <2>2, <2>3, <2>4 DEF IInv, TypeOK
<1>10. Control'
  BY <1>0, <1>1, <1>5, <1>7, ThreadFacts DEF IInv, Control, Others, Trying, TriesSuccessor
<1>11. Keeping'
  BY <1>0, <1>1, <1>6, <1>7, ThreadFacts DEF IInv, Keeping, Others, Trying
<1>12. Tries'
  <2>1. \A f \in Threads \ {e} : TriesSuccessor(f) => left'[tried[f]] = left[tried[f]]
    <3> SUFFICES ASSUME NEW f \in Threads \ {e}, TriesSuccessor(f) PROVE left'[tried[f]] = left[tried[f]]
      OBVIOUS
    <3>1. Trying(f) /\ tried[f] \in Created
      BY TriedFacts DEF TriesSuccessor
    <3>2. tried[f] \in Task /\ tried[f] # x
      BY <1>3, <3>1, ProgramFacts DEF IInv
    <3> QED
      BY <1>8, <3>2
  <2>2. \A f \in Threads \ {e} : TriesOf(f)'
    BY <1>0, <1>1, <1>7, <1>8, <2>1, OthersTries
  <2>3. Len(Slots(cur[e])') \in Nat
    BY <1>0, <1>5, ProgramFacts DEF IInv, Slots
  <2>4. TriesOf(e)'
    BY <1>0, <1>7, <2>3 DEF TriesOf, TriesQueue, TriesSuccessor, Trying
  <2> QED
    BY <2>2, <2>4 DEF Tries
<1>13. /\ Waiting' = Waiting \ {x} /\ Queued' = Queued /\ Launched' = Launched /\ exited' = exited
       /\ Kept(e)' = {x} /\ Kept(e) = {} /\ \A f \in Threads \ {e} : Kept(f)' = Kept(f)
       /\ \A f \in Threads : cur'[f] = cur[f]
  <2>1. Waiting' = Waiting \ {x}
    BY <1>8, ProgramFacts DEF IInv, Waiting
  <2>2. Kept(e)' = {x} /\ Kept(e) = {}
    BY <1>5, <1>6, <1>7 DEF Kept, RangeOf
  <2> QED
    BY <1>0, <1>7, <2>1, <2>2 DEF Queued, Launched, Kept, Others
<1>14. Unheld' = Unheld \ {x} /\ x \in Unheld
  BY <1>3, <1>4, <1>13 DEF Unheld
<1>15. Apart'
  BY <1>3, <1>13, <1>14 DEF IInv, Apart
<1>16. Somewhere' /\ Once'
  <2>1. Somewhere'
    BY <1>1, <1>8, <1>13, <1>14 DEF IInv, Somewhere
  <2>2. Once'
    BY <1>0 DEF IInv, Once
  <2> QED
    BY <2>1, <2>2
<1>17. Executed'
  <2>1. Finishing(e)' /\ Finishing(e) /\ \A f \in Threads \ {e} : Finishing(f)' <=> Finishing(f)
    BY <1>0, <1>2, <1>7 DEF Finishing, TriesSuccessor, Trying, Others
  <2>2. flight' = flight /\ ended' = ended
    BY <1>0
  <2> QED
    BY <1>1, <1>8, <1>13, <2>1, <2>2 DEF IInv, Executed
<1>18. InOrder'
  <2>1. \A u \in Task : left'[u] # {} => u \in Created'
    BY <1>8 DEF IInv, InOrder
  <2>2. ASSUME NEW u \in Created, NEW v \in 1 .. u - 1, Conflict(prog[v].acc, prog[u].acc)
        PROVE  v \in left'[u] \cup ended
    <3>1. v \in left[u] \cup ended
      BY <2>2 DEF IInv, InOrder
    <3>2. u \in Task
      BY ProgramFacts DEF IInv
    <3>3. CASE u = x
      BY <1>4, <1>5, <3>1, <3>3
    <3> QED
      BY <1>8, <3>1, <3>2, <3>3
  <2> QED
    BY <1>0, <1>8, <2>1, <2>2 DEF InOrder
<1>19. Stopping'
  BY <1>0, <1>1, <1>7, <1>8, ThreadFacts DEF IInv, Stopping, Others
<1>20. SlotsOwned'
  <2>1. /\ Len(Slots(x)) \in Nat /\ DOMAIN Slots(x) = 1 .. Len(Slots(x))
        /\ idx[e] - 1 = Len(Slots(x))
    <3>1. Len(Slots(x)) \in Nat /\ DOMAIN Slots(x) = 1 .. Len(Slots(x))
      BY <1>3, ProgramFacts DEF IInv
    <3>2. idx[e] \in 1 .. Len(Slots(x)) + 1
      BY <1>1, <1>2 DEF IInv, Tries, TriesOf, x
    <3> QED
      BY <1>0, <3>1, <3>2
  <2>2. Taking(e) = RangeOf(Slots(x)) /\ Taking(e)' = {}
    BY <1>2, <1>7, <2>1 DEF Taking, Trying, RangeOf, x
  <2>3. Having(e)' = Having(e)
    <3>1. Having(e) = RangeOf(Slots(cur[e]))
      BY <1>0, <1>5 DEF Having
    <3>2. DOMAIN Slots(cur[e]) = 1 .. Len(Slots(cur[e])) /\ Slots(cur[e])' = Slots(cur[e])
      BY <1>0, <1>5, ProgramFacts DEF IInv, Slots
    <3> QED
      BY <1>5, <1>7, <3>1, <3>2 DEF Having, RangeOf
  <2>4. \A u : RangeOf(Slots(u))' = RangeOf(Slots(u))
    BY <1>0 DEF Slots, RangeOf
  <2>5. \A u \in Created, b \in Addr : ClaimsBy(e, u, b)' <=> ClaimsBy(e, u, b)
    BY <1>7, <1>13, <2>2, <2>3, <2>4 DEF ClaimsBy, x
  <2> QED
    BY <1>0, <1>1, <1>7, <2>5, SlotsFrame
<1> QED
  BY <1>9, <1>10, <1>11, <1>12, <1>15, <1>16, <1>17, <1>18, <1>19, <1>20 DEF IInv

\* The task a thread has is nowhere else, and nobody tries it.
LEMMA HeldFacts ==
  ASSUME IInv, NEW e \in Threads, cur[e] # NULL
  PROVE  /\ cur[e] \in Created /\ cur[e] \notin Unheld
         /\ \A f \in Threads : cur[e] \notin Kept(f) /\ (Trying(f) => tried[f] # cur[e])
         /\ \A f \in Threads \ {e} : cur[f] # cur[e]
<1>1. cur[e] \in Created /\ cur[e] \notin Unheld
  BY DEF IInv, TypeOK, Apart
<1>2. \A f \in Threads : cur[e] \notin Kept(f)
  BY DEF IInv, Apart
<1>3. \A f \in Threads : Trying(f) => tried[f] # cur[e]
  BY TriedFacts
<1>4. \A f \in Threads \ {e} : cur[f] # cur[e]
  BY DEF IInv, Apart
<1> QED
  BY <1>1, <1>2, <1>3, <1>4

\* A slot of the finished task is released.
LEMMA ReleaseSlotStep ==
  ASSUME IInv, NEW e \in Threads, ReleaseSlot(e), idx[e] <= Len(Slots(cur[e]))
  PROVE  IInv'
<1> DEFINE t == cur[e]
           n == idx[e]
           a == Slots(t)[n]
<1>0. /\ pc[e] = "release" /\ n <= Len(Slots(t))
      /\ owner' = [owner EXCEPT ![a] = NULL] /\ idx' = [idx EXCEPT ![e] = @ + 1]
      /\ UNCHANGED <<prog, created, left, queue, lock, pc, cur, tried, scan, nextWDs, running,
                     flight, ended, exited, stop, turn, curWD>>
  BY DEF ReleaseSlot, dfeVars
<1>1. ~ Trying(e) /\ lock # e /\ t # NULL
  BY <1>0 DEF IInv, Control, Trying
<1>2. /\ t \in Created /\ t \notin Launched
      /\ \A f \in Threads : t \notin Kept(f) /\ (Trying(f) => tried[f] # t)
      /\ \A f \in Threads \ {e} : cur[f] # t
  BY <1>1, HeldFacts DEF Unheld
<1>3. /\ Len(Slots(t)) \in Nat /\ n \in Nat /\ n \in 1 .. Len(Slots(t)) /\ a \in Addr
      /\ \A j, k \in 1 .. Len(Slots(t)) : Slots(t)[j] = Slots(t)[k] => j = k
  <2>1. /\ Len(Slots(t)) \in Nat /\ \A k \in 1 .. Len(Slots(t)) : Slots(t)[k] \in Addr
        /\ \A j, k \in 1 .. Len(Slots(t)) : Slots(t)[j] = Slots(t)[k] => j = k
    BY <1>2, ProgramFacts DEF IInv
  <2>2. n \in 1 .. Len(Slots(t)) + 1
    BY <1>0 DEF IInv, Tries, TriesOf
  <2>3. n \in 1 .. Len(Slots(t)) /\ n \in Nat
    BY <1>0, <2>1, <2>2
  <2> QED
    BY <2>1, <2>3
<1>4. Others(e) /\ idx'[e] = n + 1
  BY <1>0 DEF IInv, TypeOK, Others
<1> HIDE DEF t, a, n
<1>5. TypeOK'
  <2>1. idx' \in [Threads -> Nat]
    BY <1>0, <1>3 DEF IInv, TypeOK, n
  <2>2. owner' \in [Addr -> Created \cup {NULL}]
    BY <1>0 DEF IInv, TypeOK
  <2> QED
    BY <1>0, <2>1, <2>2 DEF IInv, TypeOK, Task, Created
<1>6. Control' /\ Keeping' /\ Executed' /\ Stopping'
  <2>1. Control' /\ Keeping'
    BY <1>0 DEF IInv, Control, Keeping, Trying, TriesSuccessor
  <2>2. Executed' /\ Stopping'
    BY <1>0 DEF IInv, Executed, Stopping, Finishing, Trying, TriesSuccessor, Created, Launched
  <2> QED
    BY <2>1, <2>2
<1>7. Apart' /\ Somewhere' /\ Once'
  BY <1>0, PlacesFrame
<1>8. InOrder'
  BY <1>0, OrderFrame
<1>9. Tries'
  <2>1. Created' = Created
    BY <1>0 DEF Created
  <2>2. \A f \in Threads \ {e} : TriesOf(f)'
    BY <1>0, <1>4, <2>1, OthersTries
  <2>3. idx'[e] \in 1 .. Len(Slots(cur[e])') + 1
    BY <1>0, <1>3, <1>4 DEF Slots, t, n
  <2>4. TriesOf(e)'
    BY <1>0, <1>1, <2>3 DEF TriesOf, TriesQueue, TriesSuccessor, Trying
  <2> QED
    BY <2>2, <2>4 DEF Tries
<1>10. SlotsOwned'
  <2>1. /\ Having(e) = {Slots(t)[k] : k \in n .. Len(Slots(t))}
        /\ Having(e)' = {Slots(t)[k] : k \in n + 1 .. Len(Slots(t))}
    BY <1>0, <1>1, <1>4 DEF Having, Slots, t, n
  <2>2. a \in Having(e)
    BY <2>1, <1>3 DEF a
  <2>3. Having(e)' = Having(e) \ {a}
    <3>1. \A k \in n .. Len(Slots(t)) : k \in n + 1 .. Len(Slots(t)) \/ k = n
      BY <1>3
    <3>2. \A k \in n + 1 .. Len(Slots(t)) : k \in n .. Len(Slots(t)) /\ k # n /\ k \in 1 .. Len(Slots(t))
      BY <1>3
    <3>3. \A k \in n + 1 .. Len(Slots(t)) : Slots(t)[k] # a
      BY <1>3, <3>2 DEF a
    <3> QED
      BY <2>1, <3>1, <3>2, <3>3 DEF a
  <2>4. Taking(e)' = {} /\ Taking(e) = {} /\ Kept(e)' = Kept(e)
    BY <1>0, <1>1 DEF Taking, Trying, Kept
  <2>5. \A u : RangeOf(Slots(u))' = RangeOf(Slots(u))
    BY <1>0 DEF Slots, RangeOf
  <2>6. cur'[e] = t /\ cur[e] = t
    BY <1>0 DEF t
  <2>7. \A f \in Threads \ {e} : ~ ClaimsBy(f, t, a)
    BY <1>2 DEF ClaimsBy, Taking
  <2>8. \A u \in Created, b \in Addr : ClaimsBy(e, u, b)' <=> ClaimsBy(e, u, b) /\ ~ (u = t /\ b = a)
    BY <1>2, <2>3, <2>4, <2>5, <2>6 DEF ClaimsBy
  <2>9. ClaimsBy(e, t, a)
    BY <2>2, <2>6 DEF ClaimsBy
  <2> QED
    BY <1>0, <1>2, <1>3, <1>4, <2>7, <2>8, <2>9, SlotsGive
<1> QED
  BY <1>5, <1>6, <1>7, <1>8, <1>9, <1>10 DEF IInv

\* All slots of the finished task have been released.
LEMMA ReleasedStep ==
  ASSUME IInv, NEW e \in Threads, ReleaseSlot(e), ~ idx[e] <= Len(Slots(cur[e]))
  PROVE  IInv'
<1>0. /\ pc[e] = "release" /\ ~ idx[e] <= Len(Slots(cur[e])) /\ pc' = [pc EXCEPT ![e] = "finish"]
      /\ UNCHANGED <<prog, created, left, queue, lock, owner, cur, tried, scan, idx, nextWDs,
                     running, flight, ended, exited, stop, turn, curWD>>
  BY DEF ReleaseSlot, Goto, dfeVars
<1>1. TypeOK'
  BY <1>0 DEF IInv, TypeOK, Task, Created
<1>2. Others(e) /\ pc'[e] = "finish" /\ cur[e] # NULL /\ lock # e
  <2>1. cur[e] # NULL /\ lock # e
    BY <1>0 DEF IInv, Control, Trying
  <2> QED
    BY <1>0, <2>1 DEF IInv, TypeOK, Others
<1>3. Control'
  BY <1>0, <1>2, ThreadFacts DEF IInv, Control, Others, Trying, TriesSuccessor
<1>4. Keeping'
  BY <1>0, <1>2, ThreadFacts DEF IInv, Keeping, Others, Trying
<1>5. Tries'
  BY <1>0, <1>2, ThreadFacts
     DEF IInv, Tries, TriesOf, Others, Trying, TriesQueue, TriesSuccessor, Slots, Created
<1>6. Apart' /\ Somewhere' /\ Once'
  BY <1>0, PlacesFrame
<1>7. Executed'
  BY <1>0, <1>2 DEF IInv, Executed, Others, Finishing, TriesSuccessor, Trying, Created, Launched
<1>8. InOrder'
  BY <1>0, OrderFrame
<1>9. Stopping'
  BY <1>0, <1>2, ThreadFacts DEF IInv, Stopping, Others, Created
<1>10. SlotsOwned'
  <2>1. idx[e] \in Nat /\ Len(Slots(cur[e])) \in Nat
    BY <1>2, HeldFacts, ProgramFacts DEF IInv, TypeOK
  <2>2. Having(e) = {} /\ Having(e)' = {}
    BY <1>0, <1>2, <2>1 DEF Having
  <2>3. Taking(e) = {} /\ Taking(e)' = {} /\ Kept(e)' = Kept(e)
    BY <1>0, <1>2 DEF Taking, Trying, Kept
  <2>4. \A u : RangeOf(Slots(u))' = RangeOf(Slots(u))
    BY <1>0 DEF Slots, RangeOf
  <2>5. \A u \in Created, b \in Addr : ClaimsBy(e, u, b)' <=> ClaimsBy(e, u, b)
    BY <1>0, <2>2, <2>3, <2>4 DEF ClaimsBy
  <2> QED
    BY <1>0, <1>2, <2>5, SlotsFrame
<1> QED
  BY <1>1, <1>3, <1>4, <1>5, <1>6, <1>7, <1>8, <1>9, <1>10 DEF IInv

\* Only submitted tasks are anywhere.
LEMMA PlacesCreated ==
  ASSUME IInv
  PROVE  /\ Waiting \subseteq Created /\ Queued \subseteq Created /\ Launched \subseteq Created
         /\ exited \subseteq Created /\ Unheld \subseteq Created
         /\ \A f \in Threads : Kept(f) \subseteq Created
<1>1. exited \subseteq Created /\ Waiting \subseteq Created
  BY DEF IInv, TypeOK, Waiting
<1>2. \A s \in Seq(Created) : RangeOf(s) \subseteq Created
  BY ElementOfSeq DEF RangeOf
<1>3. Queued \subseteq Created /\ Launched \subseteq Created /\ \A f \in Threads : Kept(f) \subseteq Created
  BY <1>2 DEF IInv, TypeOK, Queued, Launched, Kept
<1> QED
  BY <1>1, <1>3 DEF Unheld

\* A task leaves: its successors that wait for nothing else are pushed.
LEMMA FinishStep == ASSUME IInv, NEW e \in Threads, Finish(e) PROVE IInv'
<1> DEFINE t == cur[e]
           R == {x \in Task : left[x] = {t}}
<1>0. /\ pc[e] = "finish" /\ (R = {} \/ lock = NULL)
      /\ left' = [x \in Task |-> left[x] \ {t}] /\ queue' = queue \o Sorted(R)
      /\ exited' = exited \cup {t}
      /\ curWD' = IF e = Dfe THEN [curWD EXCEPT ![turn] = NULL] ELSE curWD
      /\ cur' = [cur EXCEPT ![e] = NULL] /\ pc' = [pc EXCEPT ![e] = Idle(e)]
      /\ UNCHANGED <<prog, created, lock, owner, tried, scan, idx, nextWDs, running, flight,
                     ended, stop, turn>>
  BY DEF Finish, Goto
<1>1. t # NULL /\ lock # e /\ Finishing(e)
  BY <1>0 DEF IInv, Control, Trying, Finishing
<1>2. /\ t \in Created /\ t \notin Unheld
      /\ \A f \in Threads : t \notin Kept(f) /\ (Trying(f) => tried[f] # t)
      /\ \A f \in Threads \ {e} : cur[f] # t
  BY <1>1, HeldFacts
<1>3. t \in ended
  BY <1>1, <1>2 DEF IInv, Executed
<1>4. R \subseteq Waiting /\ R \subseteq Created /\ R \cap Queued = {}
  <2>1. \A x \in R : x \in Created /\ left[x] # {}
    BY DEF IInv, InOrder
  <2> QED
    BY <2>1 DEF IInv, Apart, Waiting
<1> HIDE DEF R
<1>5. /\ queue' \in Seq(Created) /\ Queued' = Queued \cup R /\ Distinct(queue')
      /\ R = {} => queue' = queue
  <2>1. created \in Nat /\ queue \in Seq(1 .. created) /\ R \in SUBSET (1 .. created)
    BY <1>4, ProgramFacts DEF IInv, TypeOK, Created
  <2>2. Distinct(queue) /\ RangeOf(queue) \cap R = {}
    BY <1>4 DEF IInv, Once, Distinct, Queued
  <2>3. /\ queue \o Sorted(R) \in Seq(1 .. created)
        /\ RangeOf(queue \o Sorted(R)) = RangeOf(queue) \cup R
        /\ Distinct(queue \o Sorted(R)) /\ (R = {} => queue \o Sorted(R) = queue)
    BY <2>1, <2>2, PushSortedFacts
  <2> QED
    BY <1>0, <2>3 DEF Created, Queued
<1>6. /\ Created' = Created /\ Task' = Task
      /\ \A x \in Task : left'[x] = left[x] \ {t}
  BY <1>0 DEF Created, Task
<1> HIDE DEF t
<1>7. /\ Others(e) /\ pc'[e] = Idle(e) /\ cur'[e] = NULL /\ cur[e] = t
      /\ nextWDs'[e] = nextWDs[e]
  BY <1>0 DEF IInv, TypeOK, Others, t
<1>8. TypeOK'
  <2>1. left' \in [Task -> SUBSET Created]
    BY <1>0 DEF IInv, TypeOK
  <2>2. exited' \subseteq ended
    BY <1>0, <1>3 DEF IInv, TypeOK
  <2>3. curWD' \in [DOMAIN Engines -> Created \cup {NULL}]
    BY <1>0 DEF IInv, TypeOK
  <2>4. cur' \in [Threads -> Created \cup {NULL}]
    BY <1>0 DEF IInv, TypeOK
  <2>5. pc' \in [Threads -> {"submit", "top", "idle", "lock", "scan", "try", "undo", "run",
                             "succ", "release", "finish", "launch", "post", "join", "out"}]
    BY <1>0 DEF IInv, TypeOK, Idle
  <2> QED
    BY <1>0, <1>5, <1>6, <2>1, <2>2, <2>3, <2>4, <2>5 DEF IInv, TypeOK
<1>9. Control'
  BY <1>0, <1>1, <1>7, ThreadFacts DEF IInv, Control, Others, Trying, TriesSuccessor, Idle
<1>10. Keeping'
  BY <1>0, <1>7, ThreadFacts DEF IInv, Keeping, Others, Trying, Idle
<1>11. Tries'
  <2>1. \A f \in Threads \ {e} : TriesSuccessor(f) => left'[tried[f]] = left[tried[f]]
    <3> SUFFICES ASSUME NEW f \in Threads \ {e}, TriesSuccessor(f) PROVE left'[tried[f]] = left[tried[f]]
      OBVIOUS
    <3>1. tried[f] \in Task /\ left[tried[f]] = {cur[f]}
      BY ProgramFacts DEF IInv, Tries, TriesOf
    <3> QED
      BY <1>2, <1>6, <3>1
  <2>2. \A f \in Threads \ {e} : lock = f => queue' = queue
    BY <1>0, <1>5, ThreadFacts
  <2>3. \A f \in Threads \ {e} : TriesOf(f)'
    BY <1>0, <1>6, <1>7, <2>1, <2>2, OthersTries
  <2>4. TriesOf(e)'
    BY <1>0, <1>1, <1>7 DEF TriesOf, TriesQueue, TriesSuccessor, Trying, Idle
  <2> QED
    BY <2>3, <2>4 DEF Tries
<1>12. /\ Waiting' = Waiting \ R /\ Launched' = Launched /\ exited' = exited \cup {t}
       /\ \A f \in Threads : Kept(f)' = Kept(f)
       /\ \A f \in Threads \ {e} : cur'[f] = cur[f]
  <2>1. Waiting' = Waiting \ R
    <3>1. ASSUME NEW x \in Created PROVE left'[x] # {} <=> left[x] # {} /\ x \notin R
      <4>1. x \in Task /\ left'[x] = left[x] \ {t}
        BY <1>6, ProgramFacts DEF IInv
      <4>2. x \in R <=> left[x] = {t}
        BY <4>1 DEF R
      <4> QED
        BY <4>1, <4>2
    <3> QED
      BY <1>6, <3>1 DEF Waiting
  <2> QED
    BY <1>0, <1>7, <2>1 DEF Launched, Kept, Others
<1>13. Unheld' = Unheld \cup {t}
  BY <1>4, <1>5, <1>12 DEF Unheld
<1>14. NULL \notin Unheld /\ \A f \in Threads : NULL \notin Kept(f)
  BY PlacesCreated, ProgramFacts DEF IInv
<1>15. Apart'
  <2>1. t \notin Waiting /\ t \notin Queued /\ t \notin Launched /\ t \notin exited /\ t \notin R
    BY <1>2, <1>4 DEF Unheld
  <2>2. /\ Waiting' \cap Queued' = {} /\ Waiting' \cap Launched' = {} /\ Waiting' \cap exited' = {}
        /\ Queued' \cap Launched' = {} /\ Queued' \cap exited' = {} /\ Launched' \cap exited' = {}
    BY <1>4, <1>5, <1>12, <2>1 DEF IInv, Apart
  <2>3. \A f \in Threads : cur'[f] \notin Unheld' /\ Kept(f)' \cap Unheld' = {}
    BY <1>1, <1>2, <1>7, <1>12, <1>13, <1>14 DEF IInv, Apart
  <2>4. \A f, g \in Threads : /\ cur'[f] \notin Kept(g)'
                              /\ cur'[f] = cur'[g] => f = g \/ cur'[f] = NULL
                              /\ f # g => Kept(f)' \cap Kept(g)' = {}
    BY <1>7, <1>12, <1>14 DEF IInv, Apart
  <2> QED
    BY <2>2, <2>3, <2>4 DEF Apart
<1>16. Somewhere' /\ Once'
  <2>1. Somewhere'
    BY <1>6, <1>7, <1>12, <1>13 DEF IInv, Somewhere
  <2>2. Once'
    BY <1>0, <1>5 DEF IInv, Once, Distinct
  <2> QED
    BY <2>1, <2>2
<1>17. Executed'
  <2>1. \A f \in Threads \ {e} : Finishing(f)' <=> Finishing(f)
    BY <1>0, <1>7 DEF Finishing, TriesSuccessor, Trying, Others
  <2>2. flight' = flight /\ ended' = ended /\ NULL \notin Created
    BY <1>0, ProgramFacts DEF IInv
  <2>3. ASSUME NEW u \in Created
        PROVE u \in ended' <=> \/ u \in exited' \/ u \in Launched' \ flight'
                               \/ \E f \in Threads : cur'[f] = u /\ Finishing(f)'
    <3>1. u \in ended <=> \/ u \in exited \/ u \in Launched \ flight
                          \/ \E f \in Threads : cur[f] = u /\ Finishing(f)
      BY DEF IInv, Executed
    <3>2. CASE u = t
      BY <1>3, <1>12, <2>2, <3>2
    <3>3. CASE u # t
      BY <1>7, <1>12, <2>1, <2>2, <3>1, <3>3
    <3> QED
      BY <3>2, <3>3
  <2> QED
    BY <1>6, <2>3 DEF Executed
<1>18. InOrder'
  <2>1. \A u \in Task : left'[u] # {} => u \in Created'
    BY <1>6 DEF IInv, InOrder
  <2>2. ASSUME NEW u \in Created, NEW v \in 1 .. u - 1, Conflict(prog[v].acc, prog[u].acc)
        PROVE  v \in left'[u] \cup ended
    <3>1. v \in left[u] \cup ended
      BY <2>2 DEF IInv, InOrder
    <3>2. u \in Task
      BY ProgramFacts DEF IInv
    <3> QED
      BY <1>3, <1>6, <3>1, <3>2
  <2> QED
    BY <1>0, <1>6, <2>1, <2>2 DEF InOrder
<1>19. Stopping'
  <2>1. pc'[Main] # "submit" => created' = Len(prog')
    BY <1>0, <1>7, ThreadFacts DEF IInv, Stopping, Others
  <2>2. stop' => pc'[Main] # "submit" /\ exited' = Created'
    BY <1>0, <1>2, <1>6, <1>7, ThreadFacts DEF IInv, Stopping, Others, Idle
  <2>3. pc'[Dfe] = "out" => stop'
    BY <1>0, <1>7, ThreadFacts DEF IInv, Stopping, Others, Idle
  <2> QED
    BY <2>1, <2>2, <2>3 DEF Stopping
<1>20. SlotsOwned'
  <2>1. Having(e) = {} /\ Having(e)' = {} /\ Taking(e) = {} /\ Taking(e)' = {}
    BY <1>0, <1>7 DEF Having, Taking, Trying, Idle
  <2>2. \A u : RangeOf(Slots(u))' = RangeOf(Slots(u))
    BY <1>0 DEF Slots, RangeOf
  <2>3. \A u \in Created, b \in Addr : ClaimsBy(e, u, b)' <=> ClaimsBy(e, u, b)
    BY <1>12, <2>1, <2>2 DEF ClaimsBy
  <2> QED
    BY <1>0, <1>7, <2>3, SlotsFrame
<1> QED
  BY <1>8, <1>9, <1>10, <1>11, <1>15, <1>16, <1>17, <1>18, <1>19, <1>20 DEF IInv

\* A task is submitted: it is pushed, or waits for the tasks it conflicts with.
LEMMA SubmitStep == ASSUME IInv, Submit PROVE IInv'
<1> DEFINE t == created + 1
           P == {u \in Created \ exited : Conflict(prog[u].acc, prog[t].acc)}
<1>0. /\ pc[Main] = "submit" /\ created < Len(prog) /\ created' = t
      /\ left' = [left EXCEPT ![t] = P]
      /\ \/ P = {} /\ lock = NULL /\ queue' = Append(queue, t)
         \/ P # {} /\ queue' = queue
      /\ UNCHANGED <<prog, lock, owner, pc, cur, tried, scan, idx, nextWDs, running, flight,
                     ended, exited, stop, turn, curWD>>
  BY DEF Submit, dfeVars
<1>1. /\ Main \in Threads /\ lock # Main /\ cur[Main] = NULL /\ ~ Trying(Main)
      /\ ~ stop
  BY <1>0, ThreadFacts DEF IInv, Control, Trying, TriesSuccessor, Stopping
<1>2. /\ t \in Task /\ t \notin Created /\ t # NULL /\ t \in Nat
      /\ Created' = Created \cup {t} /\ Task' = Task
      /\ \A v \in 1 .. t - 1 : v \in Created
  <2>1. created \in Nat /\ Len(prog) \in Nat /\ Task = 1 .. Len(prog)
    BY ProgramFacts DEF IInv
  <2>2. Created' = 1 .. t /\ Created = 1 .. created
    BY <1>0 DEF Created
  <2> QED
    BY <1>0, <2>1, <2>2 DEF Task, NULL
<1>3. left[t] = {} /\ P \subseteq Created
  BY <1>2 DEF IInv, InOrder
<1>4. left'[t] = P /\ \A u \in Task : u # t => left'[u] = left[u]
  BY <1>0, <1>2 DEF IInv, TypeOK
<1>5. ASSUME NEW u \in Created, Conflict(prog[u].acc, prog[t].acc) PROVE u \in P \cup exited
  BY <1>5
<1> HIDE DEF P, t
<1>6. /\ t \notin Waiting /\ t \notin Queued /\ t \notin Launched /\ t \notin exited /\ t \notin Unheld
      /\ \A f \in Threads : t \notin Kept(f) /\ cur[f] # t /\ tried[f] # t
      /\ \A a \in Addr : owner[a] # t
  <2>1. \A f \in Threads : cur[f] # t /\ tried[f] # t
    BY <1>2 DEF IInv, TypeOK
  <2>2. \A a \in Addr : owner[a] # t
    BY <1>2 DEF IInv, TypeOK
  <2> QED
    BY <1>2, <2>1, <2>2, PlacesCreated
<1>7. /\ queue' \in Seq(Created') /\ Distinct(queue')
      /\ \/ P = {} /\ lock = NULL /\ Queued' = Queued \cup {t}
         \/ P # {} /\ queue' = queue /\ Queued' = Queued
  <2>1. queue \in Seq(Created') /\ Distinct(queue)
    <3>1. queue \in Seq(Created)
      BY DEF IInv, TypeOK
    <3>2. Distinct(queue)
      BY DEF IInv, Once, Distinct
    <3> QED
      BY <1>2, <3>1, <3>2
  <2>2. /\ Append(queue, t) \in Seq(Created') /\ Distinct(Append(queue, t))
        /\ RangeOf(Append(queue, t)) = RangeOf(queue) \cup {t}
    <3>1. t \in Created' /\ t \notin RangeOf(queue)
      BY <1>2, <1>6 DEF Queued
    <3> QED
      BY <2>1, <3>1, PushFacts
  <2> QED
    BY <1>0, <2>1, <2>2 DEF Queued
<1>8. TypeOK'
  <2>1. \A s \in Seq(Created) : s \in Seq(Created')
    BY <1>2
  <2>2. created' \in 0 .. Len(prog)
    BY <1>0, ProgramFacts DEF IInv, t
  <2>3. left' \in [Task -> SUBSET Created']
    BY <1>0, <1>2, <1>3 DEF IInv, TypeOK
  <2>4. running' \in Seq(Created') /\ nextWDs' \in [Threads -> Seq(Created')]
    BY <1>0, <2>1 DEF IInv, TypeOK
  <2>5. /\ owner' \in [Addr -> Created' \cup {NULL}] /\ cur' \in [Threads -> Created' \cup {NULL}]
        /\ tried' \in [Threads -> Created' \cup {NULL}]
        /\ curWD' \in [DOMAIN Engines -> Created' \cup {NULL}]
    BY <1>0, <1>2 DEF IInv, TypeOK
  <2>6. /\ flight' \subseteq RangeOf(running') /\ ended' \subseteq Created' /\ exited' \subseteq ended'
    BY <1>0, <1>2 DEF IInv, TypeOK
  <2> QED
    BY <1>0, <1>2, <1>7, <2>2, <2>3, <2>4, <2>5, <2>6 DEF IInv, TypeOK
<1>9. Control' /\ Keeping'
  BY <1>0 DEF IInv, Control, Keeping, Trying, TriesSuccessor
<1>10. Tries'
  <2>1. Others(Main)
    BY <1>0 DEF Others
  <2>2. \A f \in Threads \ {Main} : TriesSuccessor(f) => left'[tried[f]] = left[tried[f]]
    <3> SUFFICES ASSUME NEW f \in Threads \ {Main}, TriesSuccessor(f) PROVE left'[tried[f]] = left[tried[f]]
      OBVIOUS
    <3>1. tried[f] \in Task /\ tried[f] # t
      BY <1>6, ProgramFacts DEF IInv, Tries, TriesOf
    <3> QED
      BY <1>4, <3>1
  <2>3. \A f \in Threads \ {Main} : lock = f => queue' = queue
    BY <1>7, ThreadFacts
  <2>4. \A f \in Threads \ {Main} : TriesOf(f)'
    BY <1>0, <1>1, <1>2, <2>1, <2>2, <2>3, OthersTries
  <2>5. TriesOf(Main)'
    BY <1>0, <1>1 DEF TriesOf, TriesQueue, TriesSuccessor, Trying
  <2> QED
    BY <2>4, <2>5 DEF Tries
<1>11. /\ Launched' = Launched /\ exited' = exited
       /\ Waiting' = IF P = {} THEN Waiting ELSE Waiting \cup {t}
       /\ \A f \in Threads : Kept(f)' = Kept(f) /\ cur'[f] = cur[f]
  <2>1. Waiting' = IF P = {} THEN Waiting ELSE Waiting \cup {t}
    <3>1. \A u \in Created : left'[u] = left[u]
      BY <1>2, <1>4, ProgramFacts DEF IInv
    <3>2. Waiting' = {u \in Created : left'[u] # {}} \cup (IF left'[t] # {} THEN {t} ELSE {})
      BY <1>2 DEF Waiting
    <3> QED
      BY <1>4, <3>1, <3>2 DEF Waiting
  <2> QED
    BY <1>0, <2>1 DEF Launched, Kept
<1>12. Unheld' = Unheld \cup {t}
  BY <1>7, <1>11 DEF Unheld
<1>13. Apart'
  <2>1. /\ Waiting' \cap Queued' = {} /\ Waiting' \cap Launched' = {} /\ Waiting' \cap exited' = {}
        /\ Queued' \cap Launched' = {} /\ Queued' \cap exited' = {} /\ Launched' \cap exited' = {}
    BY <1>6, <1>7, <1>11 DEF IInv, Apart
  <2>2. \A f \in Threads : cur'[f] \notin Unheld' /\ Kept(f)' \cap Unheld' = {}
    BY <1>6, <1>11, <1>12 DEF IInv, Apart
  <2>3. \A f, g \in Threads : /\ cur'[f] \notin Kept(g)'
                              /\ cur'[f] = cur'[g] => f = g \/ cur'[f] = NULL
                              /\ f # g => Kept(f)' \cap Kept(g)' = {}
    BY <1>11 DEF IInv, Apart
  <2> QED
    BY <2>1, <2>2, <2>3 DEF Apart
<1>14. Somewhere' /\ Once'
  <2>1. Somewhere'
    BY <1>2, <1>11, <1>12 DEF IInv, Somewhere
  <2>2. Once'
    BY <1>0, <1>7 DEF IInv, Once, Distinct
  <2> QED
    BY <2>1, <2>2
<1>15. Executed'
  <2>1. \A f \in Threads : Finishing(f)' <=> Finishing(f)
    BY <1>0 DEF Finishing, TriesSuccessor, Trying
  <2>2. flight' = flight /\ ended' = ended /\ t \notin ended
    BY <1>0, <1>2 DEF IInv, TypeOK
  <2> QED
    BY <1>2, <1>6, <1>11, <2>1, <2>2 DEF IInv, Executed
<1>16. InOrder'
  <2>1. \A u \in Task : left'[u] # {} => u \in Created'
    BY <1>2, <1>4 DEF IInv, InOrder
  <2>2. ASSUME NEW u \in Created', NEW v \in 1 .. u - 1, Conflict(prog[v].acc, prog[u].acc)
        PROVE  v \in left'[u] \cup ended
    <3>1. CASE u = t
      <4>1. v \in Created
        BY <1>2, <3>1
      <4>2. v \in P \cup exited
        BY <1>5, <2>2, <3>1, <4>1
      <4> QED
        BY <1>4, <3>1, <4>2 DEF IInv, TypeOK
    <3>2. CASE u # t
      <4>1. u \in Created /\ u \in Task
        BY <1>2, <3>2, ProgramFacts DEF IInv
      <4>2. v \in left[u] \cup ended
        BY <2>2, <4>1 DEF IInv, InOrder
      <4> QED
        BY <1>4, <3>2, <4>1, <4>2
    <3> QED
      BY <3>1, <3>2
  <2> QED
    BY <1>0, <1>2, <2>1, <2>2 DEF InOrder
<1>17. Stopping'
  BY <1>0, <1>1 DEF IInv, Stopping
<1>18. SlotsOwned'
  <2>1. \A f \in Threads : \A u, b : ClaimsBy(f, u, b)' <=> ClaimsBy(f, u, b)
    <3>1. \A f \in Threads \ {Main} : \A u, b : ClaimsBy(f, u, b)' <=> ClaimsBy(f, u, b)
      BY <1>0, <1>1, OthersClaims DEF Others
    <3>2. \A u, b : ClaimsBy(Main, u, b)' <=> ClaimsBy(Main, u, b)
      <4>1. cur'[Main] = NULL /\ ~ Trying(Main)'
        BY <1>0, <1>1 DEF Trying
      <4> QED
        BY <1>0, <1>1, <4>1, NoClaims
    <3> QED
      BY <3>1, <3>2
  <2>2. \A u : RangeOf(Slots(u))' = RangeOf(Slots(u))
    BY <1>0 DEF Slots, RangeOf
  <2>3. \A u, b : Claims(u, b)' <=> Claims(u, b)
    BY <1>11, <2>1, <2>2 DEF Claims
  <2>4. \A b \in Addr : ~ Claims(t, b)
    <3>1. \A f \in Threads, b \in Addr : ~ ClaimsBy(f, t, b)
      BY <1>6 DEF ClaimsBy
    <3> QED
      BY <1>6, <3>1 DEF Claims
  <2> QED
    BY <1>0, <1>2, <1>6, <2>3, <2>4 DEF IInv, SlotsOwned
<1> QED
  BY <1>8, <1>9, <1>10, <1>13, <1>14, <1>15, <1>16, <1>17, <1>18 DEF IInv

\* A step in which a thread hands a task with its slots to the list of running tasks, or
\* takes it from there.
LEMMA SlotsMove ==
  ASSUME IInv, NEW e \in Threads, Others(e), UNCHANGED <<prog, owner, created>>,
         \A u \in Created, b \in Addr :
           (ClaimsBy(e, u, b)' \/ (u \in Launched' /\ b \in RangeOf(Slots(u)))) <=>
           (ClaimsBy(e, u, b) \/ (u \in Launched /\ b \in RangeOf(Slots(u))))
  PROVE  SlotsOwned'
<1>1. \A f \in Threads \ {e}, u \in Created, b \in Addr : ClaimsBy(f, u, b)' <=> ClaimsBy(f, u, b)
  BY OthersClaims
<1>2. Created' = Created /\ \A u : RangeOf(Slots(u))' = RangeOf(Slots(u))
  BY DEF Created, Slots, RangeOf
<1>3. \A u \in Created, b \in Addr : Claims(u, b)' <=> Claims(u, b)
  BY <1>1, <1>2 DEF Claims
<1> QED
  BY <1>2, <1>3 DEF IInv, SlotsOwned

\* A run is started on the device.
LEMMA LaunchStep == ASSUME IInv, Launch PROVE IInv'
<1> DEFINE t == cur[Dfe]
<1>0. /\ pc[Dfe] = "launch" /\ flight' = flight \cup {t} /\ running' = Append(running, t)
      /\ curWD' = [curWD EXCEPT ![turn] = t] /\ cur' = [cur EXCEPT ![Dfe] = NULL]
      /\ pc' = [pc EXCEPT ![Dfe] = "top"]
      /\ UNCHANGED <<prog, created, left, queue, lock, owner, tried, scan, idx, nextWDs, ended,
                     exited, stop, turn>>
  BY DEF Launch, Goto
<1>1. /\ Dfe \in Threads /\ t # NULL /\ lock # Dfe /\ ~ Finishing(Dfe)
  BY <1>0, ThreadFacts DEF IInv, Control, Trying, TriesSuccessor, Finishing
<1>2. /\ t \in Created /\ t \notin Unheld
      /\ \A f \in Threads : t \notin Kept(f) /\ (Trying(f) => tried[f] # t)
      /\ \A f \in Threads \ {Dfe} : cur[f] # t
  BY <1>1, HeldFacts
<1> HIDE DEF t
<1>3. /\ running' \in Seq(Created) /\ Launched' = Launched \cup {t} /\ Distinct(running')
  <2>1. running \in Seq(Created) /\ Distinct(running) /\ t \notin RangeOf(running)
    BY <1>2 DEF IInv, TypeOK, Once, Distinct, Unheld, Launched
  <2> QED
    BY <1>0, <1>2, <2>1, PushFacts DEF Launched
<1>4. /\ Others(Dfe) /\ pc'[Dfe] = "top" /\ cur'[Dfe] = NULL /\ cur[Dfe] = t
  BY <1>0, <1>1 DEF IInv, TypeOK, Others, t
<1>5. TypeOK'
  <2>1. curWD' \in [DOMAIN Engines -> Created \cup {NULL}]
    BY <1>0, <1>2 DEF IInv, TypeOK
  <2>2. cur' \in [Threads -> Created \cup {NULL}]
    BY <1>0 DEF IInv, TypeOK
  <2>3. pc' \in [Threads -> {"submit", "top", "idle", "lock", "scan", "try", "undo", "run",
                             "succ", "release", "finish", "launch", "post", "join", "out"}]
    BY <1>0 DEF IInv, TypeOK
  <2>4. flight' \subseteq RangeOf(running')
    BY <1>0, <1>3 DEF IInv, TypeOK, Launched
  <2> QED
    BY <1>0, <1>3, <2>1, <2>2, <2>3, <2>4 DEF IInv, TypeOK, Task, Created
<1>6. Control'
  BY <1>0, <1>1, <1>4, ThreadFacts DEF IInv, Control, Others, Trying, TriesSuccessor
<1>7. Keeping'
  BY <1>0, <1>1, <1>4, ThreadFacts DEF IInv, Keeping, Others, Trying
<1>8. Tries'
  <2>1. Created' = Created
    BY <1>0 DEF Created
  <2>2. \A f \in Threads \ {Dfe} : TriesOf(f)'
    BY <1>0, <1>1, <1>4, <2>1, OthersTries
  <2>3. TriesOf(Dfe)'
    BY <1>0, <1>1, <1>4 DEF TriesOf, TriesQueue, TriesSuccessor, Trying
  <2> QED
    BY <2>2, <2>3 DEF Tries
<1>9. /\ Created' = Created /\ Waiting' = Waiting /\ Queued' = Queued /\ exited' = exited
      /\ \A f \in Threads : Kept(f)' = Kept(f)
      /\ \A f \in Threads \ {Dfe} : cur'[f] = cur[f]
  BY <1>0, <1>4 DEF Created, Waiting, Queued, Kept, Others
<1>10. Unheld' = Unheld \cup {t}
  BY <1>3, <1>9 DEF Unheld
<1>11. Apart'
  <2>0. NULL \notin Unheld' /\ \A f \in Threads : NULL \notin Kept(f)
    BY <1>1, <1>10, PlacesCreated, ProgramFacts DEF IInv
  <2>1. /\ Waiting' \cap Queued' = {} /\ Waiting' \cap Launched' = {} /\ Waiting' \cap exited' = {}
        /\ Queued' \cap Launched' = {} /\ Queued' \cap exited' = {} /\ Launched' \cap exited' = {}
    BY <1>2, <1>3, <1>9 DEF IInv, Apart, Unheld
  <2>2. \A f \in Threads : cur'[f] \notin Unheld' /\ Kept(f)' \cap Unheld' = {}
    BY <1>2, <1>4, <1>9, <1>10, <2>0 DEF IInv, Apart
  <2>3. \A f, g \in Threads : /\ cur'[f] \notin Kept(g)'
                              /\ cur'[f] = cur'[g] => f = g \/ cur'[f] = NULL
                              /\ f # g => Kept(f)' \cap Kept(g)' = {}
    BY <1>4, <1>9, <2>0 DEF IInv, Apart
  <2> QED
    BY <2>1, <2>2, <2>3 DEF Apart
<1>12. Somewhere' /\ Once'
  <2>1. Somewhere'
    BY <1>4, <1>9, <1>10 DEF IInv, Somewhere
  <2>2. Once'
    BY <1>0, <1>3 DEF IInv, Once, Distinct
  <2> QED
    BY <2>1, <2>2
<1>13. Executed'
  <2>1. ~ Finishing(Dfe)' /\ \A f \in Threads \ {Dfe} : Finishing(f)' <=> Finishing(f)
    BY <1>0, <1>4 DEF Finishing, TriesSuccessor, Trying, Others
  <2>2. flight' = flight \cup {t} /\ ended' = ended
    BY <1>0
  <2>3. ASSUME NEW u \in Created
        PROVE u \in ended' <=> \/ u \in exited' \/ u \in Launched' \ flight'
                               \/ \E f \in Threads : cur'[f] = u /\ Finishing(f)'
    <3>1. u \in ended <=> \/ u \in exited \/ u \in Launched \ flight
                          \/ \E f \in Threads : cur[f] = u /\ Finishing(f)
      BY DEF IInv, Executed
    <3>2. CASE u = t
      <4>1. u \notin exited /\ u \notin Launched
        BY <1>2, <3>2 DEF Unheld
      <4> QED
        BY <1>1, <1>2, <1>4, <1>9, <2>1, <2>2, <3>1, <3>2, <4>1
    <3>3. CASE u # t
      BY <1>1, <1>3, <1>4, <1>9, <2>1, <2>2, <3>1, <3>3
    <3> QED
      BY <3>2, <3>3
  <2> QED
    BY <1>9, <2>3 DEF Executed
<1>14. InOrder'
  BY <1>0, OrderFrame
<1>15. Stopping'
  BY <1>0, <1>4, ThreadFacts DEF IInv, Stopping, Others, Created
<1>16. SlotsOwned'
  <2>1. Having(Dfe) = RangeOf(Slots(t)) /\ Having(Dfe)' = {} /\ Taking(Dfe) = {} /\ Taking(Dfe)' = {}
    BY <1>0, <1>1, <1>4 DEF Having, Taking, Trying
  <2>2. \A u : RangeOf(Slots(u))' = RangeOf(Slots(u))
    BY <1>0 DEF Slots, RangeOf
  <2>3. ASSUME NEW u \in Created, NEW b \in Addr
        PROVE (ClaimsBy(Dfe, u, b)' \/ (u \in Launched' /\ b \in RangeOf(Slots(u)))) <=>
              (ClaimsBy(Dfe, u, b) \/ (u \in Launched /\ b \in RangeOf(Slots(u))))
    BY <1>1, <1>3, <1>4, <1>9, <2>1, <2>2 DEF ClaimsBy
  <2> QED
    BY <1>0, <1>1, <1>4, <2>3, SlotsMove
<1> QED
  BY <1>5, <1>6, <1>7, <1>8, <1>11, <1>12, <1>13, <1>14, <1>15, <1>16 DEF IInv

\* No run to wait for.
LEMMA NothingRunsStep == ASSUME IInv, PostOutline, running = <<>> PROVE IInv'
<1>0. /\ pc[Dfe] = "post" /\ pc' = [pc EXCEPT ![Dfe] = "top"]
      /\ UNCHANGED <<prog, created, left, queue, lock, owner, cur, tried, scan, idx, nextWDs,
                     running, flight, ended, exited, stop, turn, curWD>>
  BY DEF PostOutline, Goto, dfeVars
<1>1. TypeOK'
  BY <1>0 DEF IInv, TypeOK, Task, Created
<1>2. Others(Dfe) /\ pc'[Dfe] = "top"
  BY <1>0, ThreadFacts DEF IInv, TypeOK, Others
<1>3. Control'
  BY <1>0, <1>2, ThreadFacts DEF IInv, Control, Others, Trying, TriesSuccessor
<1>4. Keeping'
  BY <1>0, <1>2, ThreadFacts DEF IInv, Keeping, Others, Trying
<1>5. Tries'
  BY <1>0, <1>2, ThreadFacts
     DEF IInv, Tries, TriesOf, Others, Trying, TriesQueue, TriesSuccessor, Slots, Created
<1>6. Apart' /\ Somewhere' /\ Once'
  BY <1>0, PlacesFrame
<1>7. Executed'
  BY <1>0, <1>2, ThreadFacts DEF IInv, Executed, Others, Finishing, TriesSuccessor, Trying, Created, Launched
<1>8. InOrder'
  BY <1>0, OrderFrame
<1>9. Stopping'
  BY <1>0, <1>2, ThreadFacts DEF IInv, Stopping, Others, Created
<1>10. cur[Dfe] = NULL /\ cur'[Dfe] = NULL /\ ~ Trying(Dfe) /\ ~ Trying(Dfe)'
  BY <1>0, <1>2, ThreadFacts DEF IInv, Control, Trying, TriesSuccessor
<1>11. SlotsOwned'
  BY <1>0, <1>2, <1>10, NoClaims, SlotsFrame, ThreadFacts
<1> QED
  BY <1>1, <1>3, <1>4, <1>5, <1>6, <1>7, <1>8, <1>9, <1>11 DEF IInv

\* The oldest run has completed and its task is finished.
LEMMA PostOutlineStep == ASSUME IInv, PostOutline, running # <<>> PROVE IInv'
<1> DEFINE t == Head(running)
<1>0. /\ pc[Dfe] = "post" /\ t \notin flight /\ running' = Tail(running)
      /\ cur' = [cur EXCEPT ![Dfe] = t] /\ idx' = [idx EXCEPT ![Dfe] = 1]
      /\ pc' = [pc EXCEPT ![Dfe] = "release"]
      /\ UNCHANGED <<prog, created, left, queue, lock, owner, tried, scan, nextWDs, flight,
                     ended, exited, stop, turn, curWD>>
  BY DEF PostOutline, Completed, Goto, dfeVars
<1>1. Dfe \in Threads /\ lock # Dfe /\ ~ Finishing(Dfe) /\ cur[Dfe] = NULL
  BY <1>0, ThreadFacts DEF IInv, Control, Trying, TriesSuccessor, Finishing
<1>2. /\ t \in Created /\ t \in Launched /\ running' \in Seq(Created)
      /\ Launched' = Launched \ {t} /\ Distinct(running')
  <2>1. running \in Seq(Created) /\ Distinct(running)
    BY DEF IInv, TypeOK, Once, Distinct
  <2> QED
    BY <1>0, <2>1, FrontFacts DEF Launched
<1> HIDE DEF t
<1>3. t # NULL /\ t \in Unheld /\ t \in ended
  BY <1>0, <1>2, ProgramFacts DEF IInv, Unheld, Executed
<1>4. /\ Others(Dfe) /\ pc'[Dfe] = "release" /\ cur'[Dfe] = t /\ idx'[Dfe] = 1
  BY <1>0, <1>1 DEF IInv, TypeOK, Others
<1>5. TypeOK'
  <2>1. idx' \in [Threads -> Nat]
    BY <1>0 DEF IInv, TypeOK
  <2>2. cur' \in [Threads -> Created \cup {NULL}]
    BY <1>0, <1>2 DEF IInv, TypeOK
  <2>3. pc' \in [Threads -> {"submit", "top", "idle", "lock", "scan", "try", "undo", "run",
                             "succ", "release", "finish", "launch", "post", "join", "out"}]
    BY <1>0 DEF IInv, TypeOK
  <2>4. flight' \subseteq RangeOf(running')
    BY <1>0, <1>2 DEF IInv, TypeOK, Launched
  <2> QED
    BY <1>0, <1>2, <2>1, <2>2, <2>3, <2>4 DEF IInv, TypeOK, Task, Created
<1>6. Control'
  BY <1>0, <1>1, <1>3, <1>4, ThreadFacts DEF IInv, Control, Others, Trying, TriesSuccessor
<1>7. Keeping'
  BY <1>0, <1>1, <1>4, ThreadFacts DEF IInv, Keeping, Others, Trying
<1>8. Tries'
  <2>1. Created' = Created
    BY <1>0 DEF Created
  <2>2. \A f \in Threads \ {Dfe} : TriesOf(f)'
    BY <1>0, <1>1, <1>4, <2>1, OthersTries
  <2>3. Len(Slots(cur[Dfe])') \in Nat
    BY <1>0, <1>2, <1>4, ProgramFacts DEF IInv, Slots
  <2>4. TriesOf(Dfe)'
    BY <1>0, <1>1, <1>4, <2>3 DEF TriesOf, TriesQueue, TriesSuccessor, Trying
  <2> QED
    BY <2>2, <2>4 DEF Tries
<1>9. /\ Created' = Created /\ Waiting' = Waiting /\ Queued' = Queued /\ exited' = exited
      /\ \A f \in Threads : Kept(f)' = Kept(f)
      /\ \A f \in Threads \ {Dfe} : cur'[f] = cur[f]
  BY <1>0, <1>4 DEF Created, Waiting, Queued, Kept, Others
<1>10. Unheld' = Unheld \ {t}
  <2>1. t \notin Waiting /\ t \notin Queued /\ t \notin exited
    BY <1>2 DEF IInv, Apart
  <2> QED
    BY <1>2, <1>9, <2>1 DEF Unheld
<1>11. Apart'
  <2>0. \A f \in Threads : cur[f] # t /\ t \notin Kept(f)
    BY <1>3 DEF IInv, Apart
  <2>1. /\ Waiting' \cap Queued' = {} /\ Waiting' \cap Launched' = {} /\ Waiting' \cap exited' = {}
        /\ Queued' \cap Launched' = {} /\ Queued' \cap exited' = {} /\ Launched' \cap exited' = {}
    BY <1>2, <1>9 DEF IInv, Apart
  <2>2. \A f \in Threads : cur'[f] \notin Unheld' /\ Kept(f)' \cap Unheld' = {}
    BY <1>4, <1>9, <1>10 DEF IInv, Apart
  <2>3. \A f, g \in Threads : /\ cur'[f] \notin Kept(g)'
                              /\ cur'[f] = cur'[g] => f = g \/ cur'[f] = NULL
                              /\ f # g => Kept(f)' \cap Kept(g)' = {}
    BY <1>4, <1>9, <2>0 DEF IInv, Apart
  <2> QED
    BY <2>1, <2>2, <2>3 DEF Apart
<1>12. Somewhere' /\ Once'
  <2>1. NULL \notin Created
    BY ProgramFacts DEF IInv
  <2>2. Somewhere'
    BY <1>1, <1>4, <1>9, <1>10, <2>1 DEF IInv, Somewhere
  <2>3. Once'
    BY <1>0, <1>2 DEF IInv, Once, Distinct
  <2> QED
    BY <2>2, <2>3
<1>13. Executed'
  <2>1. Finishing(Dfe)' /\ \A f \in Threads \ {Dfe} : Finishing(f)' <=> Finishing(f)
    BY <1>0, <1>4 DEF Finishing, TriesSuccessor, Trying, Others
  <2>2. flight' = flight /\ ended' = ended
    BY <1>0
  <2>3. ASSUME NEW u \in Created
        PROVE u \in ended' <=> \/ u \in exited' \/ u \in Launched' \ flight'
                               \/ \E f \in Threads : cur'[f] = u /\ Finishing(f)'
    <3>1. u \in ended <=> \/ u \in exited \/ u \in Launched \ flight
                          \/ \E f \in Threads : cur[f] = u /\ Finishing(f)
      BY DEF IInv, Executed
    <3>2. CASE u = t
      BY <1>1, <1>3, <1>4, <2>1, <2>2, <3>2
    <3>3. CASE u # t
      BY <1>1, <1>2, <1>4, <1>9, <2>1, <2>2, <3>1, <3>3
    <3> QED
      BY <3>2, <3>3
  <2> QED
    BY <1>9, <2>3 DEF Executed
<1>14. InOrder'
  BY <1>0, OrderFrame
<1>15. Stopping'
  BY <1>0, <1>4, ThreadFacts DEF IInv, Stopping, Others, Created
<1>16. SlotsOwned'
  <2>1. Having(Dfe) = {} /\ Taking(Dfe) = {} /\ Taking(Dfe)' = {}
    BY <1>0, <1>1, <1>4 DEF Having, Taking, Trying
  <2>2. Having(Dfe)' = RangeOf(Slots(t))
    <3>1. DOMAIN Slots(t) = 1 .. Len(Slots(t)) /\ Slots(cur[Dfe])' = Slots(t)
      BY <1>0, <1>2, <1>4, ProgramFacts DEF IInv, Slots
    <3> QED
      BY <1>0, <1>3, <1>4, <3>1 DEF Having, RangeOf
  <2>3. \A u : RangeOf(Slots(u))' = RangeOf(Slots(u))
    BY <1>0 DEF Slots, RangeOf
  <2>4. ASSUME NEW u \in Created, NEW b \in Addr
        PROVE (ClaimsBy(Dfe, u, b)' \/ (u \in Launched' /\ b \in RangeOf(Slots(u)))) <=>
              (ClaimsBy(Dfe, u, b) \/ (u \in Launched /\ b \in RangeOf(Slots(u))))
    BY <1>1, <1>2, <1>4, <1>9, <2>1, <2>2, <2>3 DEF ClaimsBy
  <2> QED
    BY <1>0, <1>1, <1>4, <2>4, SlotsMove
<1> QED
  BY <1>5, <1>6, <1>7, <1>8, <1>11, <1>12, <1>13, <1>14, <1>15, <1>16 DEF IInv

\* The device completes a run.
LEMMA DeviceDoneStep == ASSUME IInv, NEW t, DeviceDone(t) PROVE IInv'
<1>0. /\ t \in flight /\ flight' = flight \ {t} /\ ended' = ended \cup {t}
      /\ UNCHANGED <<prog, created, left, queue, lock, owner, pc, cur, tried, scan, idx,
                     nextWDs, running, exited, stop, turn, curWD>>
  BY DEF DeviceDone, dfeVars
<1>1. t \in Launched /\ t \in Created
  BY <1>0, PlacesCreated DEF IInv, TypeOK, Launched
<1>2. TypeOK'
  BY <1>0, <1>1 DEF IInv, TypeOK, Task, Created
<1>3. Control' /\ Keeping'
  BY <1>0 DEF IInv, Control, Keeping, Trying, TriesSuccessor
<1>4. Tries'
  BY <1>0 DEF IInv, Tries, TriesOf, Trying, TriesQueue, TriesSuccessor, Slots, Created
<1>5. Apart' /\ Somewhere' /\ Once'
  BY <1>0, PlacesFrame
<1>6. Executed'
  BY <1>0, <1>1 DEF IInv, Executed, Finishing, TriesSuccessor, Trying, Created, Launched
<1>7. InOrder'
  BY <1>0 DEF IInv, InOrder, Task, Created
<1>8. Stopping'
  BY <1>0 DEF IInv, Stopping, Created
<1>9. SlotsOwned'
  BY <1>0 DEF IInv, SlotsOwned, Claims, ClaimsBy, Taking, Having, Trying, Kept, Launched, Slots,
              RangeOf, Created
<1> QED
  BY <1>2, <1>3, <1>4, <1>5, <1>6, <1>7, <1>8, <1>9 DEF IInv
-----------------------------------------------------------------------------
(* The invariant and what follows from it *)

\* The initial states satisfy the invariant.
LEMMA InitIInv == ASSUME Init PROVE IInv
<1> USE DEF Init
<1>1. /\ created = 0 /\ Created = {} /\ prog \in Programs /\ Len(prog) \in Nat
  BY ProgramsAssumption DEF Created
<1>2. /\ \A e \in Threads : /\ cur[e] = NULL /\ tried[e] = NULL /\ nextWDs[e] = <<>>
                            /\ pc[e] = IF e = Main THEN "submit" ELSE IF e = Dfe THEN "top" ELSE "idle"
  OBVIOUS
<1>3. TypeOK
  <2>1. 1 \in DOMAIN Engines
    BY EnginesAssumption, EmptySeq
  <2>2. created \in 0 .. Len(prog) /\ left \in [Task -> SUBSET Created]
    BY <1>1
  <2>3. queue \in Seq(Created) /\ running \in Seq(Created) /\ nextWDs \in [Threads -> Seq(Created)]
    BY EmptySeq
  <2>4. /\ owner \in [Addr -> Created \cup {NULL}] /\ cur \in [Threads -> Created \cup {NULL}]
        /\ tried \in [Threads -> Created \cup {NULL}]
        /\ scan \in [Threads -> Nat] /\ idx \in [Threads -> Nat]
        /\ curWD \in [DOMAIN Engines -> Created \cup {NULL}]
    OBVIOUS
  <2> QED
    BY <1>1, <2>1, <2>2, <2>3, <2>4 DEF TypeOK
<1>4. Control
  BY <1>2, ThreadFacts DEF Control, Trying, TriesSuccessor
<1>5. Keeping /\ Tries
  BY <1>2, ThreadFacts DEF Keeping, Tries, TriesOf, TriesQueue, TriesSuccessor, Trying
<1>6. Waiting = {} /\ Queued = {} /\ Launched = {} /\ exited = {} /\ \A e \in Threads : Kept(e) = {}
  BY <1>1, <1>2 DEF Waiting, Queued, Launched, Kept, RangeOf
<1>7. Apart /\ Somewhere /\ Once
  BY <1>1, <1>2, <1>6 DEF Apart, Somewhere, Once, Unheld
<1>8. Executed /\ SlotsOwned
  BY <1>1 DEF Executed, SlotsOwned
<1>9. InOrder
  BY <1>1 DEF InOrder
<1>10. Stopping
  BY <1>2, ThreadFacts DEF Stopping
<1> QED
  BY <1>3, <1>4, <1>5, <1>7, <1>8, <1>9, <1>10 DEF IInv

\* Every step preserves the invariant.
LEMMA NextIInv == ASSUME IInv, [Next]_vars PROVE IInv'
<1>1. ASSUME NEW e \in Threads, Scan(e) PROVE IInv'
  <2>1. scan[e] > Len(queue) \/ scan[e] <= Len(queue)
    BY <1>1 DEF Scan
  <2> QED
    BY <1>1, <2>1, ScanEndStep, ScanPassStep, ScanTryStep
<1>2. ASSUME NEW e \in Threads, TrySlot(e) PROVE IInv'
  BY <1>2, TakeSlotStep, RefuseSlotStep
<1>3. ASSUME NEW e \in Threads, UndoSlot(e) PROVE IInv'
  BY <1>3, UndoSlotStep, UndoneStep
<1>4. ASSUME NEW e \in Threads, ReleaseSlot(e) PROVE IInv'
  BY <1>4, ReleaseSlotStep, ReleasedStep
<1>5. CASE MainStep
  BY <1>5, SubmitStep, WaitCompletionStep, StopAllThreadsStep, JoinStep DEF MainStep
<1>6. ASSUME NEW e \in Smp, SmpStep(e) PROVE IInv'
  <2>1. e \in Threads
    BY ThreadFacts
  <2> QED
    BY <1>1, <1>2, <1>3, <1>4, <1>6, <2>1, TakeNextStep, LookStep, LockStep, PopStep, EndRunStep,
       NextSuccessorStep, KeepSuccessorStep, FinishStep, LeaveIdleLoopStep
       DEF SmpStep
<1>7. CASE MaxStep
  <2>1. Dfe \in Threads
    BY ThreadFacts
  <2> QED
    BY <1>1, <1>2, <1>3, <1>4, <1>7, <2>1, LoopTestStep, LookStep, NoMaxWDStep, LockStep, PopStep,
       LaunchStep, NothingRunsStep, PostOutlineStep, FinishStep
       DEF MaxStep
<1>8. CASE \E t \in Task : DeviceDone(t)
  BY <1>8, DeviceDoneStep
<1>9. CASE UNCHANGED vars
  <2>1. UNCHANGED <<prog, created, left, queue, lock, owner, pc, cur, tried, scan, idx, nextWDs,
                    turn, curWD, running, flight, ended, exited, stop>>
    BY <1>9 DEF vars
  <2>2. TypeOK'
    BY <2>1 DEF IInv, TypeOK, Task, Created
  <2>3. Control' /\ Keeping' /\ Tries'
    BY <2>1 DEF IInv, Control, Keeping, Tries, TriesOf, Trying, TriesQueue, TriesSuccessor, Slots, Created
  <2>4. Apart' /\ Somewhere' /\ Once' /\ InOrder'
    BY <2>1, PlacesFrame, OrderFrame
  <2>5. Executed' /\ Stopping'
    BY <2>1 DEF IInv, Executed, Stopping, Finishing, TriesSuccessor, Trying, Created, Launched
  <2>6. SlotsOwned'
    BY <2>1 DEF IInv, SlotsOwned, Claims, ClaimsBy, Taking, Having, Trying, Kept, Launched, Slots,
                RangeOf, Created
  <2> QED
    BY <2>2, <2>3, <2>4, <2>5, <2>6 DEF IInv
<1> QED
  BY <1>5, <1>6, <1>7, <1>8, <1>9 DEF Next, Terminated

\* The inductive invariant holds in every reachable state.
THEOREM Invariance == Spec => []IInv
  BY InitIInv, NextIInv, PTL DEF Spec

\* The variables have their types: the tasks in the graph, in the queue, with the threads
\* and on the device are tasks that have been submitted.
THEOREM TypeCorrect == Spec => []TypeOK
<1>1. IInv => TypeOK
  BY DEF IInv
<1> QED
  BY Invariance, <1>1, PTL

\* A task executes, on a thread or on the device, only while it owns every commutative slot
\* it names, which excludes the others of its groups.
THEOREM SlotsExclusive == Spec => []OwnsItsSlots
<1>1. ASSUME IInv PROVE OwnsItsSlots
  <2> SUFFICES ASSUME NEW t \in Executing, NEW a \in RangeOf(Slots(t)) PROVE owner[a] = t
    BY DEF OwnsItsSlots
  <2>1. CASE t \in flight
    <3>1. t \in Launched /\ t \in Created
      BY <1>1, <2>1, PlacesCreated DEF IInv, TypeOK, Launched
    <3>2. a \in Addr
      BY <1>1, <3>1, ProgramFacts DEF IInv
    <3> QED
      BY <1>1, <3>1, <3>2 DEF IInv, SlotsOwned, Claims
  <2>2. CASE t \notin flight
    <3>1. PICK e \in Threads : t = cur[e] /\ pc[e] = "run"
      BY <2>2 DEF Executing
    <3>2. t # NULL
      BY <1>1, <3>1 DEF IInv, Control
    <3>3. t \in Created
      BY <1>1, <3>1, <3>2, HeldFacts
    <3>4. a \in Having(e) /\ a \in Addr
      BY <1>1, <3>1, <3>2, <3>3, ProgramFacts DEF IInv, Having
    <3>5. Claims(t, a)
      BY <3>1, <3>4 DEF Claims, ClaimsBy
    <3> QED
      BY <1>1, <3>3, <3>4, <3>5 DEF IInv, SlotsOwned
  <2> QED
    BY <2>1, <2>2
<1> QED
  BY Invariance, <1>1, PTL

\* A slot that is owned belongs to a task somebody tries, holds or executes: neither a
\* failed attempt nor a finished task leaves a slot behind.
THEOREM NoneLeft == Spec => []NoSlotLeft
<1>1. ASSUME IInv PROVE NoSlotLeft
  <2> SUFFICES ASSUME NEW a \in Addr, owner[a] # NULL
               PROVE  \/ \E e \in Threads :
                           \/ pc[e] \in {"try", "undo"} /\ tried[e] = owner[a]
                           \/ cur[e] = owner[a] /\ pc[e] # "finish"
                           \/ owner[a] \in RangeOf(nextWDs[e])
                      \/ owner[a] \in RangeOf(running)
    BY DEF NoSlotLeft
  <2>1. owner[a] \in Created
    BY <1>1 DEF IInv, TypeOK
  <2>2. Claims(owner[a], a)
    BY <1>1, <2>1 DEF IInv, SlotsOwned
  <2>3. CASE owner[a] \in Launched
    BY <2>3 DEF Launched
  <2>4. CASE \E e \in Threads : ClaimsBy(e, owner[a], a)
    BY <2>4 DEF ClaimsBy, Taking, Having, Trying, Kept
  <2> QED
    BY <2>2, <2>3, <2>4 DEF Claims
<1> QED
  BY Invariance, <1>1, PTL

\* When MaxWorkerLoop ends nothing is left on the device or in the list of runs, and every
\* task of the program has gone.
THEOREM Drained == Spec => []DrainedAtStop
<1>1. ASSUME IInv PROVE DrainedAtStop
  <2> SUFFICES ASSUME pc[Dfe] = "out" PROVE running = <<>> /\ flight = {} /\ exited = Task
    BY DEF DrainedAtStop
  <2>1. exited = Created /\ created = Len(prog)
    BY <1>1 DEF IInv, Stopping
  <2>2. Launched = {}
    BY <1>1, <2>1, PlacesCreated DEF IInv, Apart
  <2>3. running = <<>>
    <3>1. running \in Seq(Created)
      BY <1>1 DEF IInv, TypeOK
    <3>2. DOMAIN running = {}
      BY <2>2 DEF Launched, RangeOf
    <3>3. Len(running) = 0
      BY <3>1, <3>2, LenProperties
    <3> QED
      BY <3>1, <3>3, EmptySeq
  <2>4. flight = {}
    BY <1>1, <2>2 DEF IInv, TypeOK, Launched
  <2>5. Created = Task
    BY <1>1, <2>1, ProgramFacts DEF IInv, Created
  <2> QED
    BY <2>1, <2>3, <2>4, <2>5
<1> QED
  BY Invariance, <1>1, PTL

\* A set whose elements are all the same has one, or none.
LEMMA OneOrNone ==
  ASSUME NEW S, \A x, y \in S : x = y
  PROVE  Cardinality(S) = IF S = {} THEN 0 ELSE 1
<1>1. CASE S = {}
  BY <1>1, FS_EmptySet
<1>2. CASE S # {}
  <2>1. PICK x : x \in S
    BY <1>2
  <2>2. S = {x}
    BY <2>1
  <2> QED
    BY <1>2, <2>2, FS_Singleton
<1> QED
  BY <1>1, <1>2

\* Every submitted task is in one place, and once: the graph, the queue, the immediate
\* successors, the threads and the device agree on who dispatches it.
THEOREM OnePlace == Spec => []InOnePlace
<1>1. ASSUME IInv, NEW t \in Created
      PROVE  1 = Times(t, queue) + Times(t, running)
                 + (IF left[t] # {} THEN 1 ELSE 0) + (IF t \in exited THEN 1 ELSE 0)
                 + Cardinality({e \in Threads : cur[e] = t})
                 + Cardinality({e \in Threads : t \in RangeOf(nextWDs[e])})
  <2>0. t # NULL
    BY <1>1, ProgramFacts DEF IInv
  <2>1. Times(t, queue) = IF t \in Queued THEN 1 ELSE 0
    <3> DEFINE S == {i \in DOMAIN queue : queue[i] = t}
    <3>1. \A i, j \in S : i = j
      BY <1>1 DEF IInv, Once
    <3>2. S = {} <=> t \notin Queued
      BY DEF Queued, RangeOf
    <3>3. Times(t, queue) = Cardinality(S)
      BY DEF Times
    <3> HIDE DEF S
    <3> QED
      BY <3>1, <3>2, <3>3, OneOrNone
  <2>2. Times(t, running) = IF t \in Launched THEN 1 ELSE 0
    <3> DEFINE S == {i \in DOMAIN running : running[i] = t}
    <3>1. \A i, j \in S : i = j
      BY <1>1 DEF IInv, Once
    <3>2. S = {} <=> t \notin Launched
      BY DEF Launched, RangeOf
    <3>3. Times(t, running) = Cardinality(S)
      BY DEF Times
    <3> HIDE DEF S
    <3> QED
      BY <3>1, <3>2, <3>3, OneOrNone
  <2>3. Cardinality({e \in Threads : cur[e] = t}) = IF \E e \in Threads : cur[e] = t THEN 1 ELSE 0
    <3> DEFINE S == {e \in Threads : cur[e] = t}
    <3>1. \A e, f \in S : e = f
      BY <1>1, <2>0 DEF IInv, Apart
    <3>2. S = {} <=> ~ \E e \in Threads : cur[e] = t
      OBVIOUS
    <3> HIDE DEF S
    <3>3. Cardinality(S) = IF \E e \in Threads : cur[e] = t THEN 1 ELSE 0
      BY <3>1, <3>2, OneOrNone
    <3> QED
      BY <3>3 DEF S
  <2>4. Cardinality({e \in Threads : t \in RangeOf(nextWDs[e])}) = IF \E e \in Threads : t \in Kept(e) THEN 1 ELSE 0
    <3> DEFINE S == {e \in Threads : t \in RangeOf(nextWDs[e])}
    <3>1. \A e, f \in S : e = f
      <4>1. \A e, f \in Threads : e # f => Kept(e) \cap Kept(f) = {}
        BY <1>1 DEF IInv, Apart
      <4> QED
        BY <4>1 DEF Kept
    <3>2. S = {} <=> ~ \E e \in Threads : t \in Kept(e)
      BY DEF Kept
    <3> HIDE DEF S
    <3>3. Cardinality(S) = IF \E e \in Threads : t \in Kept(e) THEN 1 ELSE 0
      BY <3>1, <3>2, OneOrNone
    <3> QED
      BY <3>3 DEF S
  <2>5. left[t] # {} <=> t \in Waiting
    BY <1>1 DEF Waiting
  <2> DEFINE held == \E e \in Threads : cur[e] = t
             kept == \E e \in Threads : t \in Kept(e)
  <2>6. t \in Unheld \/ held \/ kept
    BY <1>1 DEF IInv, Somewhere
  <2>7. /\ t \in Unheld => ~ held /\ ~ kept
        /\ ~ (held /\ kept)
    BY <1>1 DEF IInv, Apart
  <2>8. /\ ~ (t \in Waiting /\ t \in Queued) /\ ~ (t \in Waiting /\ t \in Launched)
        /\ ~ (t \in Waiting /\ t \in exited) /\ ~ (t \in Queued /\ t \in Launched)
        /\ ~ (t \in Queued /\ t \in exited) /\ ~ (t \in Launched /\ t \in exited)
    BY <1>1 DEF IInv, Apart
  <2> HIDE DEF held, kept
  <2>9. Cardinality({e \in Threads : cur[e] = t}) = IF held THEN 1 ELSE 0
    BY <2>3 DEF held
  <2>10. Cardinality({e \in Threads : t \in RangeOf(nextWDs[e])}) = IF kept THEN 1 ELSE 0
    BY <2>4 DEF kept
  <2>11. CASE t \in Unheld
    BY <2>1, <2>2, <2>5, <2>7, <2>8, <2>9, <2>10, <2>11 DEF Unheld
  <2>12. CASE t \notin Unheld
    BY <2>1, <2>2, <2>5, <2>6, <2>7, <2>9, <2>10, <2>12 DEF Unheld
  <2> QED
    BY <2>11, <2>12
<1>2. IInv => InOnePlace
  BY <1>1 DEF InOnePlace
<1> QED
  BY Invariance, <1>2, PTL
-----------------------------------------------------------------------------
(* The program cannot tell the order from creation order *)

\* The tasks that execute have been submitted and not ended, and own their slots.
LEMMA ExecutingFacts ==
  ASSUME IInv, NEW t \in Executing
  PROVE  /\ t \in Created /\ t \notin ended
         /\ \A a \in RangeOf(Slots(t)) : a \in Addr /\ owner[a] = t
<1>1. CASE t \in flight
  <2>1. t \in Launched /\ t \in Created
    BY <1>1, PlacesCreated DEF IInv, TypeOK, Launched
  <2>2. t \notin exited /\ \A e \in Threads : cur[e] # t
    BY <2>1 DEF IInv, Apart, Unheld
  <2>3. t \notin ended
    BY <1>1, <2>1, <2>2 DEF IInv, Executed
  <2>4. \A a \in RangeOf(Slots(t)) : a \in Addr
    BY <2>1, ProgramFacts DEF IInv
  <2>5. \A a \in RangeOf(Slots(t)) : owner[a] = t
    BY <2>1, <2>4 DEF IInv, SlotsOwned, Claims
  <2> QED
    BY <2>1, <2>3, <2>4, <2>5
<1>2. CASE t \notin flight
  <2>1. PICK e \in Threads : t = cur[e] /\ pc[e] = "run"
    BY <1>2 DEF Executing
  <2>2. t # NULL /\ ~ Finishing(e)
    BY <2>1 DEF IInv, Control, Finishing, TriesSuccessor, Trying
  <2>3. /\ t \in Created /\ t \notin exited /\ t \notin Launched
        /\ \A f \in Threads \ {e} : cur[f] # t
    BY <2>1, <2>2, HeldFacts DEF Unheld
  <2>4. t \notin ended
    BY <2>2, <2>3 DEF IInv, Executed
  <2>5. \A a \in RangeOf(Slots(t)) : a \in Addr
    BY <2>3, ProgramFacts DEF IInv
  <2>6. \A a \in RangeOf(Slots(t)) : Claims(t, a)
    BY <2>1, <2>2 DEF Claims, ClaimsBy, Having
  <2> QED
    BY <2>3, <2>4, <2>5, <2>6 DEF IInv, SlotsOwned
<1> QED
  BY <1>1, <1>2

\* Identifiers are numbers; the tasks of the program are among them.
LEMMA IdFacts == ASSUME TypeOK PROVE Created \subseteq Ids /\ Ids \subseteq Nat
<1>1. \A p \in Programs : DOMAIN p \subseteq Nat
  <2> SUFFICES ASSUME NEW p \in Programs PROVE DOMAIN p \subseteq Nat
    OBVIOUS
  <2>1. p \in Seq([dev : {"smp"} \cup RangeOf(Engines), acc : Accesses, slots : Seq(Addr)])
    BY ProgramsAssumption
  <2> QED
    BY <2>1
<1>2. Created \subseteq DOMAIN prog /\ prog \in Programs
  BY ProgramFacts DEF Task, TypeOK
<1> QED
  BY <1>1, <1>2 DEF Ids

\* What the abstract state says of a task.
LEMMA TaskStateFacts ==
  ASSUME IInv, NEW t \in Ids
  PROVE  /\ taskState[t] # "none" <=> t \in Created
         /\ taskState[t] = "ended" <=> t \in ended
         /\ taskState[t] = "running" <=> t \in Executing
         /\ taskState[t] = "created" <=> t \in Created /\ t \notin ended /\ t \notin Executing
         /\ t \in Created => taskAcc[t] = prog[t].acc
<1>1. ended \subseteq Created /\ Executing \subseteq Created /\ ended \cap Executing = {}
  BY ExecutingFacts DEF IInv, TypeOK
<1> QED
  BY <1>1 DEF taskState, taskAcc

\* A step that executes nothing is a stutter.
LEMMA OrderStutters ==
  ASSUME UNCHANGED <<prog, created, ended>>, Executing' = Executing
  PROVE  UNCHANGED Order!vars
  BY DEF Order!vars, taskAcc, taskState, Created

\* A task that waits for nobody and owns its slots may start.
LEMMA OrderStarts ==
  ASSUME IInv, NEW t \in Created, UNCHANGED <<prog, created, ended>>,
         t \notin ended, t \notin Executing, Executing' = Executing \cup {t},
         left[t] = {}, \A a \in RangeOf(Slots(t)) : owner[a] = t
  PROVE  Order!Start(t)
<1>1. t \in Ids /\ Ids \subseteq Nat /\ Created \subseteq Ids
  BY IdFacts DEF IInv
<1>2. taskState[t] = "created"
  BY <1>1, TaskStateFacts
<1>3. ASSUME NEW u \in Ids, u < t, taskState[u] # "none", Conflict(taskAcc[u], taskAcc[t])
      PROVE  taskState[u] = "ended"
  <2>1. u \in Created /\ taskAcc[u] = prog[u].acc /\ taskAcc[t] = prog[t].acc
    BY <1>1, <1>3, TaskStateFacts
  <2>2. u \in 1 .. t - 1
    BY <1>1, <1>3, <2>1 DEF Created
  <2>3. u \in left[t] \cup ended
    BY <1>3, <2>1, <2>2 DEF IInv, InOrder
  <2> QED
    BY <2>3, TaskStateFacts
<1>4. Order!Eligible(t)
  BY <1>3 DEF Order!Eligible, Conflict, Order!Conflict, ModesConflict, Order!ModesConflict, GroupModes,
     Order!GroupModes, None, Order!None, In, Order!In, Concurrent, Order!Concurrent, Commutative, Order!Commutative
<1>5. ASSUME NEW u \in Ids, taskState[u] = "running", Excludes(taskAcc[u], taskAcc[t])
      PROVE  FALSE
  <2>1. u \in Executing /\ u \in Created /\ taskAcc[u] = prog[u].acc /\ taskAcc[t] = prog[t].acc
    BY <1>1, <1>5, TaskStateFacts, ExecutingFacts
  <2>2. PICK a \in Addr : prog[u].acc[a] = Commutative /\ prog[t].acc[a] = Commutative
    BY <1>5, <2>1 DEF Excludes
  <2>3. a \in RangeOf(Slots(u)) /\ a \in RangeOf(Slots(t))
    BY <2>1, <2>2, ProgramFacts DEF IInv
  <2> QED
    BY <2>1, <2>3, ExecutingFacts
<1>6. taskState' = [taskState EXCEPT ![t] = "running"] /\ taskAcc' = taskAcc
  BY <1>1 DEF taskState, taskAcc, Created
<1> QED
  BY <1>2, <1>4, <1>5, <1>6 DEF Order!Start, Excludes, Order!Excludes, Commutative, Order!Commutative

\* A task that executes may end.
LEMMA OrderEnds ==
  ASSUME IInv, NEW t \in Executing, UNCHANGED <<prog, created>>,
         ended' = ended \cup {t}, Executing \subseteq Executing' \cup {t}, Executing' \subseteq Executing
  PROVE  Order!End(t)
<1>1. t \in Created /\ t \in Ids
  BY ExecutingFacts, IdFacts DEF IInv
<1>2. taskState[t] = "running"
  BY <1>1, TaskStateFacts
<1>3. taskState' = [taskState EXCEPT ![t] = "ended"] /\ taskAcc' = taskAcc
  BY <1>1 DEF taskState, taskAcc, Created
<1> QED
  BY <1>2, <1>3 DEF Order!End

\* A task is created after the ones before it.
LEMMA OrderCreates == ASSUME IInv, Submit PROVE Order!Next
<1> DEFINE t == created + 1
<1>0. /\ created < Len(prog) /\ created' = t
      /\ UNCHANGED <<prog, pc, cur, flight, ended>>
  BY DEF Submit
<1>1. /\ t \in Task /\ t \notin Created /\ Created' = Created \cup {t} /\ \A u \in Created : u < t
  <2>1. created \in Nat /\ Len(prog) \in Nat /\ Task = 1 .. Len(prog)
    BY ProgramFacts DEF IInv
  <2> QED
    BY <1>0, <2>1 DEF Created
<1>2. t \in Ids /\ Ids \subseteq Nat /\ prog[t].acc \in UNION {{p[i].acc : i \in DOMAIN p} : p \in Programs}
  <2>1. prog \in Programs /\ t \in DOMAIN prog
    BY <1>1 DEF IInv, TypeOK, Task
  <2>2. Ids \subseteq Nat
    BY IdFacts DEF IInv
  <2> HIDE DEF t
  <2> QED
    BY <2>1, <2>2 DEF Ids
<1>3. Executing' = Executing /\ t \notin Executing /\ t \notin ended
  <2>1. Executing' = Executing
    BY <1>0 DEF Executing
  <2> QED
    BY <1>1, <2>1, ExecutingFacts DEF IInv, TypeOK
<1> HIDE DEF t
<1>4. taskState[t] = "none" /\ \A u \in Ids : u > t => taskState[u] = "none"
  <2>1. \A u \in Ids : u \in Created => u < t /\ u \in Nat /\ t \in Nat
    BY <1>1, <1>2
  <2>2. \A u \in Ids : u > t => u \notin Created
    BY <1>2, <2>1
  <2> QED
    BY <1>1, <1>2, <2>2 DEF taskState
<1>5. taskAcc' = [taskAcc EXCEPT ![t] = prog[t].acc]
  BY <1>0, <1>1, <1>2 DEF taskAcc
<1>6. taskState' = [taskState EXCEPT ![t] = "created"]
  BY <1>0, <1>1, <1>2, <1>3 DEF taskState
<1>7. Order!Create(t)
  BY <1>2, <1>4, <1>5, <1>6 DEF Order!Create
<1> QED
  BY <1>2, <1>7 DEF Order!Next

\* A step of a thread that executes nothing before or after it.
LEMMA ThreadStutters ==
  ASSUME NEW e \in Threads, UNCHANGED <<prog, created, ended, flight>>,
         \A f \in Threads \ {e} : pc'[f] = pc[f] /\ cur'[f] = cur[f],
         pc[e] # "run", pc'[e] # "run"
  PROVE  UNCHANGED Order!vars
<1>1. Executing' = Executing
  BY DEF Executing
<1> QED
  BY <1>1, OrderStutters

\* A task that is taken, kept or about to be launched with its slots has not started.
LEMMA NotStarted ==
  ASSUME IInv, NEW t \in Created, t \notin Launched, t \notin exited, t \notin Waiting,
         \A f \in Threads : cur[f] = t => pc[f] = "launch",
         \A a \in RangeOf(Slots(t)) : Claims(t, a)
  PROVE  /\ t \notin ended /\ t \notin Executing /\ left[t] = {}
         /\ \A a \in RangeOf(Slots(t)) : owner[a] = t
<1>1. \A f \in Threads : cur[f] = t => ~ Finishing(f) /\ pc[f] # "run"
  BY DEF Finishing, TriesSuccessor, Trying
<1>2. t \notin ended
  BY <1>1 DEF IInv, Executed
<1>3. t \notin flight
  BY DEF IInv, TypeOK, Launched
<1>4. t \notin Executing
  BY <1>1, <1>3 DEF Executing
<1>5. left[t] = {}
  BY DEF Waiting
<1>6. \A a \in RangeOf(Slots(t)) : owner[a] = t
  BY ProgramFacts DEF IInv, SlotsOwned
<1> QED
  BY <1>2, <1>4, <1>5, <1>6

\* An SMP thread starts the task it takes from the queue.
LEMMA PopStarts == ASSUME IInv, NEW e \in Smp, Pop(e) PROVE Order!Next
<1> DEFINE t == tried[e]
<1>0. /\ pc[e] = "try" /\ idx[e] > Len(Slots(t)) /\ lock = e /\ e \in Threads /\ e # Dfe
      /\ \A f \in Threads \ {e} : pc'[f] = pc[f] /\ cur'[f] = cur[f]
      /\ pc'[e] = "run" /\ cur'[e] = t
      /\ UNCHANGED <<prog, created, ended, flight>>
  BY ThreadFacts DEF Pop, Acquired, Goto, IInv, TypeOK
<1>1. Trying(e) /\ TriesQueue(e)
  BY <1>0 DEF Trying, TriesQueue
<1>2. /\ t \in Created /\ t \notin Launched \cup exited
      /\ \A f \in Threads : cur[f] # t
  BY <1>0, <1>1, TriedFacts
<1>3. t \notin Waiting
  <2>1. t \in Queued
    <3>1. queue \in Seq(Created) /\ scan[e] \in 1 .. Len(queue) /\ t = queue[scan[e]]
      BY <1>0, <1>1 DEF IInv, TypeOK, Tries, TriesOf
    <3> QED
      BY <3>1, LenProperties DEF Queued, RangeOf
  <2> QED
    BY <2>1 DEF IInv, Apart
<1>4. \A a \in RangeOf(Slots(t)) : Claims(t, a)
  <2>1. Taking(e) = RangeOf(Slots(t))
    <3>1. Len(Slots(t)) \in Nat /\ DOMAIN Slots(t) = 1 .. Len(Slots(t))
      BY <1>2, ProgramFacts DEF IInv
    <3>2. idx[e] \in 1 .. Len(Slots(t)) + 1
      BY <1>0, <1>1 DEF IInv, Tries, TriesOf
    <3>3. idx[e] - 1 = Len(Slots(t))
      BY <1>0, <3>1, <3>2
    <3> QED
      BY <1>1, <3>1, <3>3 DEF Taking, RangeOf
  <2> QED
    BY <1>0, <2>1 DEF Claims, ClaimsBy
<1> HIDE DEF t
<1>5. Executing' = Executing \cup {t}
  BY <1>0 DEF Executing
<1>6. Order!Start(t)
  BY <1>0, <1>2, <1>3, <1>4, <1>5, NotStarted, OrderStarts
<1> QED
  BY <1>2, <1>6, IdFacts DEF Order!Next, IInv

\* An SMP thread starts the successor it kept.
LEMMA TakeNextStarts == ASSUME IInv, NEW e \in Smp, TakeNext(e) PROVE Order!Next
<1> DEFINE t == Head(nextWDs[e])
<1>0. /\ pc[e] = "idle" /\ nextWDs[e] # <<>> /\ e \in Threads
      /\ \A f \in Threads \ {e} : pc'[f] = pc[f] /\ cur'[f] = cur[f]
      /\ pc'[e] = "run" /\ cur'[e] = t
      /\ UNCHANGED <<prog, created, ended, flight>>
  BY ThreadFacts DEF TakeNext, Goto, IInv, TypeOK
<1>1. t \in Kept(e)
  <2>1. nextWDs[e] \in Seq(Created) /\ Len(nextWDs[e]) = 1
    BY <1>0 DEF IInv, TypeOK, Keeping
  <2>2. DOMAIN nextWDs[e] = {1} /\ t = nextWDs[e][1]
    BY <2>1, LenProperties
  <2> QED
    BY <2>2 DEF Kept, RangeOf
<1> HIDE DEF t
<1>2. t \in Created /\ t \notin Unheld /\ \A f \in Threads : cur[f] # t
  BY <1>0, <1>1, PlacesCreated DEF IInv, Apart
<1>3. \A a \in RangeOf(Slots(t)) : Claims(t, a)
  BY <1>0, <1>1 DEF Claims, ClaimsBy
<1>4. Executing' = Executing \cup {t}
  BY <1>0 DEF Executing
<1>5. Order!Start(t)
  BY <1>0, <1>2, <1>3, <1>4, NotStarted, OrderStarts DEF Unheld
<1> QED
  BY <1>2, <1>5, IdFacts DEF Order!Next, IInv

\* The device starts the task that is launched.
LEMMA LaunchStarts == ASSUME IInv, Launch PROVE Order!Next
<1> DEFINE t == cur[Dfe]
<1>0. /\ pc[Dfe] = "launch" /\ Dfe \in Threads /\ flight' = flight \cup {t}
      /\ \A f \in Threads \ {Dfe} : pc'[f] = pc[f] /\ cur'[f] = cur[f]
      /\ pc'[Dfe] = "top"
      /\ UNCHANGED <<prog, created, ended>>
  BY ThreadFacts DEF Launch, Goto, IInv, TypeOK
<1>1. t # NULL
  BY <1>0 DEF IInv, Control
<1>2. t \in Created /\ t \notin Unheld /\ \A f \in Threads : cur[f] = t => pc[f] = "launch"
  BY <1>0, <1>1, HeldFacts
<1>3. \A a \in RangeOf(Slots(t)) : Claims(t, a)
  BY <1>0, <1>1 DEF Claims, ClaimsBy, Having
<1> HIDE DEF t
<1>4. Executing' = Executing \cup {t}
  BY <1>0 DEF Executing
<1>5. Order!Start(t)
  BY <1>0, <1>2, <1>3, <1>4, NotStarted, OrderStarts DEF Unheld
<1> QED
  BY <1>2, <1>5, IdFacts DEF Order!Next, IInv

\* The body of a task ends, on a thread or on the device.
LEMMA BodyEnds ==
  ASSUME IInv, (\E e \in Smp : EndRun(e)) \/ (\E t \in Task : DeviceDone(t))
  PROVE  Order!Next
<1>1. ASSUME NEW e \in Smp, EndRun(e) PROVE Order!Next
  <2> DEFINE t == cur[e]
  <2>1. /\ pc[e] = "run" /\ e \in Threads /\ ended' = ended \cup {t}
        /\ \A f \in Threads \ {e} : pc'[f] = pc[f]
        /\ pc'[e] # "run" /\ UNCHANGED <<prog, created, cur, flight>>
    BY <1>1, ThreadFacts DEF EndRun, Goto, IInv, TypeOK
  <2>2. t \in Executing
    BY <2>1 DEF Executing
  <2>3. Executing \subseteq Executing' \cup {t} /\ Executing' \subseteq Executing
    BY <2>1 DEF Executing
  <2> HIDE DEF t
  <2>4. Order!End(t)
    BY <2>1, <2>2, <2>3, OrderEnds
  <2> QED
    BY <2>2, <2>4, ExecutingFacts, IdFacts DEF Order!Next, IInv
<1>2. ASSUME NEW t \in Task, DeviceDone(t) PROVE Order!Next
  <2>1. /\ t \in flight /\ flight' = flight \ {t} /\ ended' = ended \cup {t}
        /\ UNCHANGED <<prog, created, pc, cur>>
    BY <1>2 DEF DeviceDone
  <2>2. t \in Executing /\ Executing \subseteq Executing' \cup {t} /\ Executing' \subseteq Executing
    BY <2>1 DEF Executing
  <2>3. Order!End(t)
    BY <2>1, <2>2, OrderEnds
  <2> QED
    BY <2>2, <2>3, ExecutingFacts, IdFacts DEF Order!Next, IInv
<1> QED
  BY <1>1, <1>2

\* The main thread's own steps, other than a submission, execute nothing.
LEMMA MainStutters ==
  ASSUME IInv, WaitCompletion \/ StopAllThreads \/ Join
  PROVE  UNCHANGED Order!vars
<1>1. /\ UNCHANGED <<prog, created, ended, flight>> /\ Main \in Threads
      /\ \A f \in Threads \ {Main} : pc'[f] = pc[f] /\ cur'[f] = cur[f]
      /\ pc[Main] # "run" /\ pc'[Main] # "run"
  BY ThreadFacts DEF WaitCompletion, StopAllThreads, Join, Goto, IInv, TypeOK
<1> QED
  BY <1>1, ThreadStutters

\* Nor do the steps of a thread between two tasks, or before and after the one it executes.
LEMMA OtherStutters ==
  ASSUME IInv, NEW e \in Threads,
         \/ Look(e) \/ Lock(e) \/ Scan(e) \/ TrySlot(e) \/ UndoSlot(e) \/ NextSuccessor(e)
         \/ KeepSuccessor(e) \/ ReleaseSlot(e) \/ Finish(e) \/ LeaveIdleLoop(e)
         \/ e = Dfe /\ (LoopTest \/ NoMaxWD \/ Pop(Dfe) \/ PostOutline)
  PROVE  UNCHANGED Order!vars
<1> DEFINE G == /\ UNCHANGED <<prog, created, ended, flight>>
                /\ \A f \in Threads \ {e} : pc'[f] = pc[f] /\ cur'[f] = cur[f]
                /\ pc[e] # "run" /\ pc'[e] # "run"
<1> USE DEF Goto, IInv, TypeOK
<1>1. ASSUME Look(e) \/ Lock(e) \/ LeaveIdleLoop(e) PROVE G
  BY <1>1 DEF Look, Lock, LeaveIdleLoop
<1>2. ASSUME Scan(e) PROVE G
  BY <1>2 DEF Scan
<1>3. ASSUME TrySlot(e) PROVE G
  BY <1>3 DEF TrySlot
<1>4. ASSUME UndoSlot(e) PROVE G
  BY <1>4 DEF UndoSlot
<1>5. ASSUME NextSuccessor(e) PROVE G
  BY <1>5 DEF NextSuccessor
<1>6. ASSUME KeepSuccessor(e) PROVE G
  BY <1>6 DEF KeepSuccessor, Acquired
<1>7. ASSUME ReleaseSlot(e) PROVE G
  BY <1>7 DEF ReleaseSlot
<1>8. ASSUME Finish(e) PROVE G
  BY <1>8 DEF Finish, Idle
<1>9. ASSUME e = Dfe, LoopTest \/ NoMaxWD PROVE G
  BY <1>9 DEF LoopTest, NoMaxWD
<1>10. ASSUME e = Dfe, Pop(Dfe) PROVE G
  BY <1>10 DEF Pop, Acquired
<1>11. ASSUME e = Dfe, PostOutline PROVE G
  BY <1>11 DEF PostOutline
<1>12. G
  BY <1>1, <1>2, <1>3, <1>4, <1>5, <1>6, <1>7, <1>8, <1>9, <1>10, <1>11
<1> QED
  BY <1>12, ThreadStutters

\* Tasks start in an order the program cannot tell from creation order, the members of a
\* commutative group one at a time: on the threads and on the device together, for every
\* program, every number of threads and every set of engines.
THEOREM Refinement == Spec => ImplementsTaskOrder
<1>1. Init => Order!Init
  <2> SUFFICES ASSUME Init PROVE Order!Init
    OBVIOUS
  <2>1. Created = {}
    BY DEF Init, Created
  <2> QED
    BY <2>1 DEF Order!Init, taskAcc, taskState, NoAccess, Order!NoAccess, None, Order!None
<1>2. ASSUME IInv, [Next]_vars PROVE [Order!Next]_(Order!vars)
  <2>1. CASE MainStep
    BY <1>2, <2>1, OrderCreates, MainStutters DEF MainStep
  <2>2. ASSUME NEW e \in Smp, SmpStep(e) PROVE [Order!Next]_(Order!vars)
    <3>1. e \in Threads
      BY ThreadFacts
    <3> QED
      BY <1>2, <2>2, <3>1, OtherStutters, TakeNextStarts, PopStarts, BodyEnds DEF SmpStep
  <2>3. CASE MaxStep
    <3>1. Dfe \in Threads
      BY ThreadFacts
    <3> QED
      BY <1>2, <2>3, <3>1, OtherStutters, LaunchStarts DEF MaxStep
  <2>4. CASE \E t \in Task : DeviceDone(t)
    BY <1>2, <2>4, BodyEnds
  <2>5. CASE UNCHANGED vars
    <3>1. UNCHANGED <<prog, created, ended>> /\ Executing' = Executing
      BY <2>5 DEF vars, Executing
    <3> QED
      BY <3>1, OrderStutters
  <2> QED
    BY <1>2, <2>1, <2>2, <2>3, <2>4, <2>5 DEF Next, Terminated
<1> QED
  BY <1>1, <1>2, Invariance, PTL DEF Spec, ImplementsTaskOrder, Order!Spec
=============================================================================
