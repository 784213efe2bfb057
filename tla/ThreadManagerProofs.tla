------------------------ MODULE ThreadManagerProofs -------------------------
(***************************************************************************)
(* Threads that sleep and threads that have work, for every team, every    *)
(* program and every number of tasks and calls: some thread is awake, and  *)
(* no thread sleeps on WDs of its own.                                     *)
(*                                                                         *)
(* A step is seen as a change of the calls of one thread (Base): what a    *)
(* thread is in determines whether it holds the lock of ThreadManager, and *)
(* only its holder sees to CPUs.  An active CPU has a thread that runs, or *)
(* the holder of the lock is about to see to it; blockThread spares the    *)
(* last active CPU, under the lock (Masked).  A tied main WD keeps thread  *)
(* 0 awake whatever the program does to the mask (MainAwake).  A WD is     *)
(* given to a thread before it is tested whether the thread sleeps, so     *)
(* that somebody is about to wake it up (Woken); no thread of an inactive  *)
(* CPU runs, so that applying the mask puts nobody to sleep (Dark).  If no *)
(* task is tied to a thread, a thread only gives WDs to itself, and it     *)
(* does not wait while it has some (Own).  A task that is tied enters the  *)
(* ready queue only in a batch, of which there is none unless a task may   *)
(* have several successors (Sound, TReady, TTasks).                        *)
(***************************************************************************)
EXTENDS ThreadManager, FiniteSetTheorems, SequenceTheorems, WellFoundedInduction, TLAPS

\* The tasks of the program, and where a thread is in the idle loop.
Tasks == 1 .. MaxTasks
PCs == {"test", "wait", "blocked", "get", "idle", "block", "sleep", "status", "ended"}

\* The calls a thread may be in.
JobSet ==
  [op : {"submit", "queue", "exit"}, wd : Tasks]
    \cup [op : {"batch"}, wds : Seq(Tasks)]
    \cup [op : {"unblockAll"}, rest : Seq(Threads)]
    \cup [op : {"push"}, wd : Tasks \cup {Main}, to : Threads]
    \cup [op : {"unblock", "wake"}, to : Threads]
    \cup [op : {"status"}, cpu : Cpus]
    \cup [op : {"acquire", "stable"}]
    \cup [op : {"apply"}, cpus : SUBSET Cpus, held : BOOLEAN]
    \cup [op : {"resize"}, n : Nat \ {0}, i : Threads]
    \cup [op : {"stop"}, cpus : SUBSET Cpus]
    \cup [op : {"join"}, threads : SUBSET Threads]

\* Those that may come after the innermost one.
Behind == {"queue", "push", "submit", "batch", "unblockAll", "exit", "resize", "stop", "stable"}

\* The program changes neither the mask nor the number of threads.
NoCalls == setup.masks = {} /\ setup.sizes = {}

\* The main WD is tied, or has not yet moved to the main thread to end the program.
Steady == phase \in {"runs", "waits"} \/ ~ setup.untied

\* A call that thread t may be in: it names tasks that exist, gives a WD to another thread
\* only if the WD is tied, queues one by itself only if it is not, and releases several at
\* once only if a task may have several successors.
Sound(t, j) ==
  /\ j \in JobSet
  /\ j.op \in {"submit", "queue"} => j.wd \in Created
  /\ j.op = "queue" => tied[j.wd] = None
  /\ j.op = "batch" => setup.forks /\ j.wds \in Seq(Created) /\ Len(j.wds) > 1
  /\ j.op = "push" => j.wd \in Created \cup {Main}
  /\ j.op = "exit" => j.wd \in released
  /\ j.op = "resize" => setup.sizes # {}
  /\ j.op = "apply" => j.held \/ setup.masks # {}
  /\ j.op = "stop" => t = 0 /\ phase = "stops"
  /\ j.op = "push" /\ setup.ties = {} /\ Steady => j.to = t \/ (j.to = 0 /\ ~ setup.untied)

\* The calls of a thread, and those of thread t.
Ordered(q) ==
  /\ q \in Seq(JobSet)
  /\ \A k \in DOMAIN q : /\ k > 1 => q[k].op \in Behind
                         /\ q[k].op = "stop" => k = Len(q)
Good(t, q) == Ordered(q) /\ \A k \in DOMAIN q : Sound(t, q[k])

\* The calls r are calls of q and calls of J.
From(r, q, J) == \A k \in DOMAIN r : r[k] \in J \/ \E m \in DOMAIN q : r[k] = q[m]

\* The innermost call.
Top(q) == IF q = <<>> THEN "none" ELSE Head(q).op

\* The types of the variables, by groups; and, unless a task may have several successors,
\* it has one at most and no task in the ready queue is tied to a thread.
TFlags == /\ mustSleep \subseteq Threads /\ isWaiting \subseteq Threads
          /\ mustLeave \subseteq Threads /\ mustStop \subseteq Threads
TTeam == member \subseteq Threads /\ expected \subseteq Threads /\ nextTeam \subseteq Threads
TMask == lock \in Threads \cup {None} /\ activeMask \subseteq Cpus
TWhere == pc \in [Threads -> PCs] /\ cur \in [Threads -> Tasks \cup {Main, None}]
TReady ==
  /\ queue \in Seq(Created) /\ nextWDs \in [Threads -> Seq(Created \cup {Main})]
  /\ ~ setup.forks => \A i \in DOMAIN queue : tied[queue[i]] = None
TTasks ==
  /\ after \in Seq(Tasks \cup {None}) /\ tied \in Seq(setup.ties \cup {None})
  /\ Len(after) <= MaxTasks /\ Len(tied) = Len(after)
  /\ done \subseteq released /\ released \subseteq Created
  /\ ~ setup.forks => \A x, y \in Created : after[x] = after[y] /\ after[x] # None => x = y
TProg == setup \in Setups /\ calls \in 0 .. MaxCalls /\ phase \in {"runs", "waits", "ends", "stops"}
Types == TFlags /\ TTeam /\ TMask /\ TWhere /\ TReady /\ TTasks /\ TProg

\* Where a thread is.
Where ==
  /\ DOMAIN jobs = Threads
  /\ \A t \in Threads : /\ cur[t] # None \/ jobs[t] # <<>> => pc[t] = "test"
                        /\ t \in isWaiting => pc[t] = "blocked"
                        /\ Good(t, jobs[t])

\* Who has the lock.
HoldsLock(t) == \/ Top(jobs[t]) = "status" \/ (Top(jobs[t]) = "apply" /\ Job(t).held)
                \/ InLoop(t, "sleep") \/ InLoop(t, "status")
Locking == \A t \in Threads : HoldsLock(t) <=> lock = t

\* How the program ends.
Stopping ==
  /\ mustStop # {} => phase = "stops"
  /\ 0 \notin mustStop
  /\ phase = "stops" => cur[0] = Main \/ pc[0] = "ended"

\* The part of the invariant that says what a state looks like.
Base == Types /\ jobs \in [Threads -> Seq(JobSet)] /\ Where /\ Locking /\ Stopping
-----------------------------------------------------------------------------
(* Constants, calls and sequences.                                         *)

\* The threads and CPUs.
LEMMA ConstantFacts ==
  /\ 0 \in Threads /\ Threads \subseteq Nat /\ None \notin Threads /\ None \notin Tasks
  /\ Main \notin Tasks /\ Tasks \subseteq Nat /\ MaxTasks \in Nat /\ MaxCalls \in Nat
  /\ Cpus \subseteq Nat /\ \A t \in Threads : CpuOf[t] \in Cpus
  /\ \A c \in Cpus : ThreadsOf(c) # {} /\ ThreadsOf(c) \subseteq Threads
<1>1. Cardinality(Threads) \in Nat
  BY ThreadsAssumption, FS_CardinalityType
<1>2. Threads \subseteq Nat
  BY <1>1, ThreadsAssumption
<1> QED
  BY <1>2, ThreadsAssumption, BoundsAssumption DEF None, Main, Tasks, Cpus, ThreadsOf

\* Every set of numbers has a least one.
LEMMA LeastElement == ASSUME NEW S \in SUBSET Nat, S # {} PROVE \E x \in S : \A y \in S : x <= y
<1>1. IsWellFoundedOn(OpToRel(<, Nat), Nat)
  BY NatLessThanWellFounded, Zenon
<1>2. PICK x \in S : \A y \in S : <<y, x>> \notin OpToRel(<, Nat)
  BY <1>1, WFMin, Zenon
<1>3. \A y \in S : ~ (y < x)
  BY <1>2 DEF OpToRel
<1> QED
  BY <1>3

\* Min gives it.
LEMMA MinFact == ASSUME NEW S \in SUBSET Nat, S # {} PROVE Min(S) \in S
BY LeastElement DEF Min

\* What the calls carry.
LEMMA JobFacts ==
  ASSUME NEW j \in JobSet
  PROVE  /\ j.op \in {"submit", "queue", "exit", "batch", "unblockAll", "push", "unblock", "wake",
                      "status", "acquire", "stable", "apply", "resize", "stop", "join"}
         /\ j.op = "batch" => j.wds \in Seq(Tasks)
         /\ j.op = "unblockAll" => j.rest \in Seq(Threads)
         /\ j.op \in {"submit", "queue", "exit"} => j.wd \in Tasks
         /\ j.op = "push" => j.wd \in Tasks \cup {Main} /\ j.to \in Threads
         /\ j.op \in {"unblock", "wake"} => j.to \in Threads
         /\ j.op = "status" => j.cpu \in Cpus
         /\ j.op = "apply" => j.cpus \in SUBSET Cpus /\ j.held \in BOOLEAN
         /\ j.op = "resize" => j.n \in Nat \ {0} /\ j.i \in Threads
         /\ j.op = "stop" => j.cpus \in SUBSET Cpus
         /\ j.op = "join" => j.threads \in SUBSET Threads
BY DEF JobSet

\* How calls are made.
LEMMA JobMade ==
  /\ \A w \in Tasks : [op |-> "submit", wd |-> w] \in JobSet /\ [op |-> "queue", wd |-> w] \in JobSet
                        /\ [op |-> "exit", wd |-> w] \in JobSet
  /\ \A ws \in Seq(Tasks) : [op |-> "batch", wds |-> ws] \in JobSet
  /\ \A X \in Seq(Threads) : [op |-> "unblockAll", rest |-> X] \in JobSet
  /\ \A w \in Tasks \cup {Main}, x \in Threads : [op |-> "push", wd |-> w, to |-> x] \in JobSet
  /\ \A x \in Threads : [op |-> "unblock", to |-> x] \in JobSet /\ [op |-> "wake", to |-> x] \in JobSet
  /\ \A c \in Cpus : [op |-> "status", cpu |-> c] \in JobSet
  /\ [op |-> "acquire"] \in JobSet /\ [op |-> "stable"] \in JobSet
  /\ \A C \in SUBSET Cpus, h \in BOOLEAN : [op |-> "apply", cpus |-> C, held |-> h] \in JobSet
  /\ \A n \in Nat \ {0}, i \in Threads : [op |-> "resize", n |-> n, i |-> i] \in JobSet
  /\ \A C \in SUBSET Cpus : [op |-> "stop", cpus |-> C] \in JobSet
  /\ \A X \in SUBSET Threads : [op |-> "join", threads |-> X] \in JobSet
BY DEF JobSet

\* A call that goes on with its next CPU or worker.
LEMMA JobGoesOn ==
  ASSUME NEW j \in JobSet
  PROVE  /\ \A C \in SUBSET Cpus : j.op = "apply" =>
              [j EXCEPT !.cpus = C] = [op |-> "apply", cpus |-> C, held |-> j.held]
         /\ \A x \in Threads : j.op = "resize" =>
              [j EXCEPT !.i = x] = [op |-> "resize", n |-> j.n, i |-> x]
BY DEF JobSet

\* Only one call is left.
LEMMA TailEmpty ==
  ASSUME NEW S, NEW q \in Seq(S), q # <<>> PROVE Tail(q) = <<>> <=> Len(q) = 1
<1>1. Len(Tail(q)) = Len(q) - 1 /\ Tail(q) \in Seq(S) /\ Len(q) \in Nat
  OBVIOUS
<1>2. Len(<<>>) = 0
  OBVIOUS
<1>3. Len(Tail(q)) = 0 => Tail(q) = <<>>
  BY <1>1, EmptySeq
<1>4. Tail(q) = <<>> => Len(Tail(q)) = 0
  BY <1>2
<1> QED
  BY <1>1, <1>3, <1>4

\* The call returns.
LEMMA ThenNothing ==
  ASSUME NEW q, Ordered(q), q # <<>>
  PROVE  /\ Ordered(<<>> \o Tail(q)) /\ Top(<<>> \o Tail(q)) \in Behind \cup {"none"}
         /\ From(<<>> \o Tail(q), q, {})
         /\ Head(q).op = "stop" => <<>> \o Tail(q) = <<>>
<1>1. q \in Seq(JobSet) /\ Tail(q) \in Seq(JobSet) /\ <<>> \o Tail(q) = Tail(q)
  BY DEF Ordered
<1>2. \A k \in DOMAIN Tail(q) : /\ k \in Nat /\ k + 1 \in DOMAIN q /\ k + 1 > 1 /\ Tail(q)[k] = q[k + 1]
                                /\ k + 1 = Len(q) => k = Len(Tail(q))
  BY <1>1
<1>3. Ordered(Tail(q)) /\ From(Tail(q), q, {})
  BY <1>1, <1>2 DEF Ordered, From
<1>4. Tail(q) # <<>> => Head(Tail(q)) = Tail(q)[1] /\ 1 \in DOMAIN Tail(q)
  BY <1>1
<1>5. Head(q).op = "stop" => Tail(q) = <<>>
  <2>1. 1 \in DOMAIN q /\ Head(q) = q[1]
    BY <1>1
  <2>2. Head(q).op = "stop" => 1 = Len(q)
    BY <2>1 DEF Ordered
  <2> QED
    BY <1>1, <2>2, TailEmpty
<1> QED
  BY <1>1, <1>2, <1>3, <1>4, <1>5 DEF Top, Ordered

\* It goes on with the call j.
LEMMA ThenOne ==
  ASSUME NEW q, Ordered(q), q # <<>>, NEW j \in JobSet, j.op # "stop"
  PROVE  /\ Ordered(<<j>> \o Tail(q)) /\ <<j>> \o Tail(q) # <<>> /\ Head(<<j>> \o Tail(q)) = j
         /\ From(<<j>> \o Tail(q), q, {j})
<1> DEFINE r == <<j>> \o Tail(q)
<1>1. q \in Seq(JobSet) /\ Tail(q) \in Seq(JobSet) /\ <<j>> \in Seq(JobSet)
  BY DEF Ordered
<1>2. r \in Seq(JobSet) /\ Len(r) = Len(q) /\ r[1] = j
      /\ \A k \in 2 .. Len(q) : r[k] = q[k] /\ k \in DOMAIN q
  BY <1>1
<1>3. \A k \in DOMAIN r : k = 1 \/ k \in 2 .. Len(q)
  BY <1>1, <1>2
<1> HIDE DEF r
<1>4. Ordered(r) /\ From(r, q, {j})
  BY <1>2, <1>3 DEF Ordered, From
<1> QED
  BY <1>1, <1>2, <1>4 DEF r

\* It goes on with j, then i.
LEMMA ThenTwo ==
  ASSUME NEW q, Ordered(q), q # <<>>, NEW j \in JobSet, NEW i \in JobSet,
         j.op # "stop", i.op \in Behind, i.op = "stop" => Tail(q) = <<>>
  PROVE  /\ Ordered(<<j, i>> \o Tail(q)) /\ <<j, i>> \o Tail(q) # <<>>
         /\ Head(<<j, i>> \o Tail(q)) = j /\ From(<<j, i>> \o Tail(q), q, {j, i})
<1> DEFINE r == <<j, i>> \o Tail(q)
<1>1. q \in Seq(JobSet) /\ Tail(q) \in Seq(JobSet) /\ <<j, i>> \in Seq(JobSet) /\ Len(q) >= 1
      /\ Len(Tail(q)) = Len(q) - 1
  BY DEF Ordered
<1>2. r \in Seq(JobSet) /\ Len(r) = Len(q) + 1 /\ r[1] = j /\ r[2] = i
      /\ \A k \in 3 .. Len(q) + 1 : r[k] = q[k - 1] /\ k - 1 \in DOMAIN q /\ k - 1 > 1
  BY <1>1
<1>3. \A k \in DOMAIN r : k = 1 \/ k = 2 \/ k \in 3 .. Len(q) + 1
  BY <1>1, <1>2
<1>4. i.op = "stop" => Len(r) = 2
  <2>1. Tail(q) = <<>> => Len(q) = 1
    BY <1>1, TailEmpty
  <2> QED
    BY <1>2, <2>1
<1> HIDE DEF r
<1>5. From(r, q, {j, i})
  BY <1>2, <1>3 DEF From
<1>6. ASSUME NEW k \in DOMAIN r
      PROVE  (k > 1 => r[k].op \in Behind) /\ (r[k].op = "stop" => k = Len(r))
  <2>1. CASE k = 1
    BY <1>2, <2>1
  <2>2. CASE k = 2
    BY <1>2, <1>4, <2>2
  <2>3. CASE k \in 3 .. Len(q) + 1
    BY <1>1, <1>2, <2>3 DEF Ordered
  <2> QED
    BY <1>3, <2>1, <2>2, <2>3
<1> QED
  BY <1>1, <1>2, <1>5, <1>6 DEF Ordered, r

\* A thread that was in no call enters the calls j, then i, then h; or j alone.
LEMMA Fresh ==
  ASSUME NEW j \in JobSet, j.op # "stop", NEW i \in JobSet, i.op \in Behind, i.op # "stop",
         NEW h \in JobSet, h.op \in Behind
  PROVE  /\ Ordered(<<>>) /\ Ordered(<<j>>) /\ Ordered(<<j, i>>) /\ Ordered(<<j, i, h>>)
         /\ From(<<>>, <<>>, {}) /\ From(<<j>>, <<>>, {j}) /\ From(<<j, i>>, <<>>, {j, i})
         /\ From(<<j, i, h>>, <<>>, {j, i, h})
         /\ Top(<<>>) = "none" /\ Top(<<j>>) = j.op /\ Top(<<j, i>>) = j.op /\ Top(<<j, i, h>>) = j.op
BY DEF Ordered, From, Top

-----------------------------------------------------------------------------
(* Steps, and what they leave alone.                                       *)

\* Groups of variables keep their types.
LEMMA TypesKept ==
  ASSUME Types
  PROVE  /\ UNCHANGED flagVars => TFlags'
         /\ UNCHANGED teamVars => TTeam'
         /\ UNCHANGED maskVars => TMask'
         /\ UNCHANGED <<pc, cur>> => TWhere'
         /\ UNCHANGED <<readyVars, after, tied, setup>> => TReady'
         /\ UNCHANGED <<taskVars, setup>> => TTasks'
         /\ UNCHANGED progVars => TProg'
BY DEF Types, TFlags, TTeam, TMask, TWhere, TReady, TTasks, TProg, flagVars, teamVars, maskVars,
   readyVars, taskVars, progVars, Created

\* The tasks.
LEMMA TaskFacts ==
  ASSUME Types
  PROVE  /\ Created = 1 .. Len(after) /\ Created \subseteq Tasks /\ Len(after) \in 0 .. MaxTasks
         /\ DOMAIN tied = Created /\ \A w \in Created : tied[w] \in setup.ties \cup {None}
         /\ done \subseteq released /\ released \subseteq Created
         /\ setup.ties \subseteq Threads /\ setup.masks \subseteq SUBSET Cpus
         /\ setup.sizes \subseteq Nat \ {0} /\ setup.untied \in BOOLEAN
         /\ setup.forks \in BOOLEAN /\ setup.tasks \in 0 .. MaxTasks
<1>1. Len(after) \in Nat /\ DOMAIN after = 1 .. Len(after) /\ DOMAIN tied = 1 .. Len(tied)
  BY DEF Types, TTasks
<1> QED
  BY <1>1, ConstantFacts, SetupsAssumption DEF Types, TTasks, TProg, Created, Tasks

\* Tasks are added, and the program does not go back from its end.
Grows == /\ setup' = setup /\ Created \subseteq Created' /\ released \subseteq released'
         /\ \A w \in Created : tied'[w] = tied[w]
         /\ (Steady' => Steady) /\ (phase = "stops" => phase' = "stops")

\* What a call names remains, when nothing but tasks is added.
LEMMA SoundKept == ASSUME Grows PROVE \A t, j : Sound(t, j) => Sound(t, j)'
<1> SUFFICES ASSUME NEW t, NEW j, Sound(t, j) PROVE Sound(t, j)'
  OBVIOUS
<1>1. j.op = "batch" => j.wds \in Seq(Created')
  <2>1. \A S, T : S \subseteq T => \A q \in Seq(S) : q \in Seq(T)
    OBVIOUS
  <2> QED
    BY <2>1 DEF Grows, Sound
<1>2. j.op = "queue" => tied'[j.wd] = None
  BY DEF Grows, Sound
<1> QED
  BY <1>1, <1>2 DEF Grows, Sound

\* The calls of a thread remain good, and new ones are added to them.
LEMMA GoodNext ==
  ASSUME Grows, NEW t, NEW q, Good(t, q), NEW r, Ordered(r), NEW J, From(r, q, J),
         \A j \in J : Sound(t, j)'
  PROVE  Good(t, r)'
<1>1. \A k \in DOMAIN r : Sound(t, r[k])'
  BY SoundKept DEF Good, From
<1> QED
  BY <1>1 DEF Good

\* The other threads do not move.
OthersRest(t) == \A u \in Threads \ {t} :
  /\ cur'[u] = cur[u] /\ pc'[u] = pc[u] /\ (u \in isWaiting' <=> u \in isWaiting)

\* A step of one thread, which alone may take or release the lock.
LEMMA StepBase ==
  ASSUME Base, NEW t \in Threads, NEW r, jobs' = [jobs EXCEPT ![t] = r], Good(t, r)', Grows,
         OthersRest(t), Types',
         cur'[t] # None \/ r # <<>> => pc'[t] = "test", t \in isWaiting' => pc'[t] = "blocked",
         HoldsLock(t)' <=> lock' = t,
         lock' = lock \/ (lock \in {None, t} /\ lock' \in {None, t}),
         Stopping'
  PROVE  Base'
<1>1. /\ jobs'[t] = r /\ DOMAIN jobs' = Threads /\ \A u \in Threads \ {t} : jobs'[u] = jobs[u]
      /\ jobs' \in [Threads -> Seq(JobSet)]
  BY DEF Base, Good, Ordered
<1>2. Where'
  <2> SUFFICES ASSUME NEW u \in Threads
               PROVE  /\ cur'[u] # None \/ jobs'[u] # <<>> => pc'[u] = "test"
                      /\ u \in isWaiting' => pc'[u] = "blocked"
                      /\ Good(u, jobs[u])'
    BY <1>1 DEF Where
  <2>1. CASE u = t
    BY <1>1, <2>1 DEF Good
  <2>2. CASE u # t
    <3>1. Good(u, jobs[u]) /\ jobs'[u] = jobs[u]
      BY <1>1, <2>2 DEF Base, Where
    <3>2. PICK q : q = jobs[u]
      OBVIOUS
    <3>3. From(q, q, {}) /\ Ordered(q)
      BY <3>1, <3>2 DEF From, Good
    <3>4. Good(u, q)'
      BY <3>1, <3>2, <3>3, GoodNext
    <3>5. Good(u, jobs[u])'
      BY <3>1, <3>2, <3>4 DEF Good
    <3> QED
      BY <1>1, <2>2, <3>5 DEF Base, Where, OthersRest
  <2> QED
    BY <2>1, <2>2
<1>3. Locking'
  <2> SUFFICES ASSUME NEW u \in Threads, u # t PROVE HoldsLock(u)' <=> lock' = u
    BY DEF Locking
  <2>1. HoldsLock(u)' <=> HoldsLock(u)
    BY <1>1 DEF HoldsLock, OthersRest, Job, InLoop
  <2>2. HoldsLock(u) <=> lock = u
    BY DEF Base, Locking
  <2> QED
    BY <2>1, <2>2, ConstantFacts
<1> QED
  BY <1>1, <1>2, <1>3 DEF Base

\* The same for a step in which no call is entered or left.
LEMMA IdleBase ==
  ASSUME Base, NEW t \in Threads, jobs' = jobs, Grows, OthersRest(t), Types',
         cur'[t] # None \/ jobs[t] # <<>> => pc'[t] = "test", t \in isWaiting' => pc'[t] = "blocked",
         HoldsLock(t)' <=> lock' = t,
         lock' = lock \/ (lock \in {None, t} /\ lock' \in {None, t}),
         Stopping'
  PROVE  Base'
<1>1. PICK r : r = jobs[t] /\ Good(t, r)
  BY DEF Base, Where
<1>2. Good(t, r)'
  <2>1. Ordered(r) /\ From(r, r, {})
    BY <1>1 DEF From, Good
  <2> QED
    BY <1>1, <2>1, GoodNext
<1>3. jobs' = [jobs EXCEPT ![t] = r]
  BY <1>1 DEF Base
<1> QED
  BY <1>1, <1>2, <1>3, StepBase

\* The end of the program.
LEMMA StoppingKept ==
  ASSUME Base, mustStop' = mustStop, phase' = "stops" <=> phase = "stops",
         phase = "stops" => (cur'[0] = cur[0] /\ pc'[0] = pc[0]) \/ pc'[0] = "ended"
  PROVE  Stopping'
BY DEF Base, Stopping

\* What a thread knows of the call it is in.
LEMMA CallFacts ==
  ASSUME Base, NEW t \in Threads, jobs[t] # <<>>
  PROVE  /\ Ordered(jobs[t]) /\ Good(t, jobs[t]) /\ Job(t) \in JobSet /\ Sound(t, Job(t))
         /\ Top(jobs[t]) = Job(t).op /\ pc[t] = "test" /\ t \notin isWaiting
<1>1. Good(t, jobs[t]) /\ pc[t] = "test" /\ t \notin isWaiting
  BY DEF Base, Where
<1>2. Ordered(jobs[t]) /\ jobs[t] \in Seq(JobSet)
  BY <1>1 DEF Good, Ordered
<1>3. Job(t) = jobs[t][1] /\ 1 \in DOMAIN jobs[t]
  BY <1>2 DEF Job
<1> QED
  BY <1>1, <1>2, <1>3 DEF Good, Sound, Top, Job

\* A step of a call that has nothing to do with the lock.
LEMMA CallBase ==
  ASSUME Base, NEW t \in Threads, jobs[t] # <<>>, NEW r, jobs' = [jobs EXCEPT ![t] = r],
         Ordered(r), NEW J, From(r, jobs[t], J), \A j \in J : Sound(t, j)', Grows, Types',
         UNCHANGED <<pc, cur, isWaiting, mustStop, lock>>, phase' = "stops" <=> phase = "stops",
         Job(t).op \notin {"status", "apply"}, Top(r) \notin {"status", "apply"}
  PROVE  Base'
<1>1. /\ Good(t, jobs[t]) /\ pc[t] = "test" /\ t \notin isWaiting /\ Top(jobs[t]) = Job(t).op
  BY CallFacts
<1>2. Good(t, r)'
  BY <1>1, GoodNext
<1>3. ~ HoldsLock(t)
  BY <1>1 DEF HoldsLock, InLoop
<1>4. jobs'[t] = r
  BY DEF Base
<1>5. ~ HoldsLock(t)'
  BY <1>1, <1>4 DEF HoldsLock, InLoop
<1>6. lock # t
  BY <1>3 DEF Base, Locking
<1>7. Stopping'
  BY StoppingKept
<1>8. OthersRest(t)
  BY DEF OthersRest
<1> QED
  BY <1>1, <1>2, <1>5, <1>6, <1>7, <1>8, StepBase

-----------------------------------------------------------------------------
(* The calls keep the types, the places and the lock.                      *)

\* Nothing is added and the program does not end.
LEMMA NoGrowth == ASSUME UNCHANGED <<setup, after, tied, released, phase>> PROVE Grows
BY DEF Grows, Created, Steady

\* The flags and the team.
LEMMA FlagTypes ==
  ASSUME Types, NEW X, X \subseteq Threads
  PROVE  /\ TryWakeUp(X) => TFlags' /\ TTeam'
         /\ Sleep(X) => TFlags' /\ TTeam'
         /\ \A x \in X : LeaveAndSleep(x) => TFlags' /\ TTeam'
BY DEF Types, TFlags, TTeam, TryWakeUp, Sleep, LeaveAndSleep, teamVars

\* Calls that may be entered.
LEMMA SoundMade ==
  ASSUME Types, NEW t \in Threads
  PROVE  /\ \A w \in Created : Sound(t, [op |-> "submit", wd |-> w])
         /\ \A w \in Created : tied[w] = None => Sound(t, [op |-> "queue", wd |-> w])
         /\ \A ws \in Seq(Created) : setup.forks /\ Len(ws) > 1 => Sound(t, [op |-> "batch", wds |-> ws])
         /\ \A X \in Seq(Threads) : Sound(t, [op |-> "unblockAll", rest |-> X])
         /\ \A w \in released : Sound(t, [op |-> "exit", wd |-> w])
         /\ \A w \in Created \cup {Main}, x \in Threads :
              setup.ties # {} \/ ~ Steady \/ x = t \/ (x = 0 /\ ~ setup.untied) =>
                Sound(t, [op |-> "push", wd |-> w, to |-> x])
         /\ \A x \in Threads : Sound(t, [op |-> "unblock", to |-> x])
         /\ \A x \in Threads : Sound(t, [op |-> "wake", to |-> x])
         /\ \A c \in Cpus : Sound(t, [op |-> "status", cpu |-> c])
         /\ Sound(t, [op |-> "acquire"]) /\ Sound(t, [op |-> "stable"])
         /\ \A C \in SUBSET Cpus, h \in BOOLEAN :
              h \/ setup.masks # {} => Sound(t, [op |-> "apply", cpus |-> C, held |-> h])
         /\ setup.sizes # {} =>
              \A n \in Nat \ {0}, i \in Threads : Sound(t, [op |-> "resize", n |-> n, i |-> i])
         /\ t = 0 /\ phase = "stops" => \A C \in SUBSET Cpus : Sound(t, [op |-> "stop", cpus |-> C])
         /\ \A X \in SUBSET Threads : Sound(t, [op |-> "join", threads |-> X])
<1>1. Created \subseteq Tasks /\ released \subseteq Created
  BY TaskFacts
<1>2. \A w \in Created : Sound(t, [op |-> "submit", wd |-> w])
  BY <1>1, JobMade DEF Sound
<1>3. \A w \in Created : tied[w] = None => Sound(t, [op |-> "queue", wd |-> w])
  BY <1>1, JobMade DEF Sound
<1>12. ASSUME NEW ws \in Seq(Created), setup.forks, Len(ws) > 1
       PROVE  Sound(t, [op |-> "batch", wds |-> ws])
  <2>1. ws \in Seq(Tasks)
    BY <1>1
  <2>2. [op |-> "batch", wds |-> ws] \in JobSet
    BY <2>1, JobMade
  <2> QED
    BY <1>12, <2>2 DEF Sound
<1>13. \A X \in Seq(Threads) : Sound(t, [op |-> "unblockAll", rest |-> X])
  BY JobMade DEF Sound
<1>4. \A w \in released : Sound(t, [op |-> "exit", wd |-> w])
  BY <1>1, JobMade DEF Sound
<1>5. ASSUME NEW w \in Created \cup {Main}, NEW x \in Threads,
             setup.ties # {} \/ ~ Steady \/ x = t \/ (x = 0 /\ ~ setup.untied)
      PROVE  Sound(t, [op |-> "push", wd |-> w, to |-> x])
  <2>1. [op |-> "push", wd |-> w, to |-> x] \in JobSet
    BY <1>1, JobMade
  <2> QED
    BY <1>5, <2>1 DEF Sound
<1>6. \A x \in Threads : Sound(t, [op |-> "unblock", to |-> x]) /\ Sound(t, [op |-> "wake", to |-> x])
  BY JobMade DEF Sound
<1>7. /\ \A c \in Cpus : Sound(t, [op |-> "status", cpu |-> c])
      /\ Sound(t, [op |-> "acquire"]) /\ Sound(t, [op |-> "stable"])
  BY JobMade DEF Sound
<1>8. \A C \in SUBSET Cpus, h \in BOOLEAN :
        h \/ setup.masks # {} => Sound(t, [op |-> "apply", cpus |-> C, held |-> h])
  BY JobMade DEF Sound
<1>9. setup.sizes # {} =>
        \A n \in Nat \ {0}, i \in Threads : Sound(t, [op |-> "resize", n |-> n, i |-> i])
  BY JobMade DEF Sound
<1>10. t = 0 /\ phase = "stops" => \A C \in SUBSET Cpus : Sound(t, [op |-> "stop", cpus |-> C])
  BY JobMade DEF Sound
<1>11. \A X \in SUBSET Threads : Sound(t, [op |-> "join", threads |-> X])
  BY JobMade DEF Sound
<1> QED
  BY <1>2, <1>3, <1>4, <1>5, <1>6, <1>7, <1>8, <1>9, <1>10, <1>11, <1>12, <1>13

\* submit: a WD is queued, or given to the thread it is tied to.
LEMMA SubmitBase == ASSUME Base, NEW t \in Threads, Submit(t) PROVE Base'
<1>1. /\ jobs[t] # <<>> /\ Job(t).op = "submit"
      /\ UNCHANGED <<flagVars, teamVars, maskVars, pc, cur, readyVars, taskVars, progVars>>
  BY DEF Submit, Doing, Job
<1>2. UNCHANGED <<setup, after, tied, released, phase, calls, isWaiting, mustStop, lock>>
  BY <1>1 DEF progVars, taskVars, flagVars, maskVars
<1>3. Types' /\ Grows
  BY <1>1, <1>2, TypesKept, NoGrowth DEF Base, Types
<1>4. PICK w \in Created : w = Job(t).wd /\ w \in Tasks
  BY <1>1, CallFacts, TaskFacts DEF Sound, Base
<1>5. tied[w] \in Threads \cup {None} /\ (tied[w] # None => setup.ties # {})
  BY TaskFacts DEF Base
<1>6. CASE tied[w] \notin {None, t}
  <2>0. PICK x \in Threads : x = tied[w] /\ setup.ties # {}
    BY <1>5, <1>6
  <2>1. PICK j : j = AddNextWD(w, x) /\ j.op = "push" /\ Sound(t, j) /\ j \in JobSet
    <3>1. Sound(t, AddNextWD(w, x))
      BY <2>0, SoundMade DEF AddNextWD, Base
    <3> QED
      BY <3>1 DEF AddNextWD, Sound
  <2>2. Sound(t, j)'
    BY <1>3, <2>1, SoundKept
  <2>3. PICK r : r = <<j>> \o Tail(jobs[t])
    OBVIOUS
  <2>4. jobs' = [jobs EXCEPT ![t] = r]
    BY <1>4, <1>6, <2>0, <2>1, <2>3 DEF Submit, Then
  <2>5. Ordered(r) /\ From(r, jobs[t], {j}) /\ Top(r) = "push"
    BY <1>1, <2>1, <2>3, CallFacts, ThenOne DEF Top
  <2> QED
    BY <1>1, <1>2, <1>3, <2>2, <2>4, <2>5, CallBase
<1>7. CASE tied[w] \in {None, t}
  <2>1. PICK j \in JobSet : j = [op |-> "acquire"] /\ Sound(t, j)
    BY JobMade, SoundMade DEF Base
  <2>2. PICK i \in JobSet : /\ i = IF tied[w] = t THEN AddNextWD(w, t) ELSE [op |-> "queue", wd |-> w]
                            /\ i.op \in {"push", "queue"} /\ Sound(t, i)
    <3>1. Sound(t, AddNextWD(w, t)) /\ (tied[w] # t => Sound(t, [op |-> "queue", wd |-> w]))
      BY <1>7, SoundMade DEF AddNextWD, Base
    <3>2. Sound(t, IF tied[w] = t THEN AddNextWD(w, t) ELSE [op |-> "queue", wd |-> w])
      BY <3>1
    <3> QED
      BY <3>2 DEF AddNextWD, Sound
  <2>3. Sound(t, j)' /\ Sound(t, i)'
    BY <1>3, <2>1, <2>2, SoundKept
  <2>4. PICK r : r = <<j, i>> \o Tail(jobs[t])
    OBVIOUS
  <2>5. jobs' = [jobs EXCEPT ![t] = r]
    BY <1>4, <1>7, <2>1, <2>2, <2>4 DEF Submit, Then
  <2>6. Ordered(r) /\ From(r, jobs[t], {j, i}) /\ Top(r) = "acquire"
    <3>1. j.op = "acquire" /\ i.op \in Behind /\ i.op # "stop"
      BY <2>1, <2>2 DEF Behind
    <3> QED
      BY <1>1, <2>4, <3>1, CallFacts, ThenTwo DEF Top
  <2> QED
    BY <1>1, <1>2, <1>3, <2>3, <2>5, <2>6, CallBase
<1> QED
  BY <1>6, <1>7

\* The call of thread t returns.
LEMMA ReturnBase ==
  ASSUME Base, NEW t \in Threads, jobs[t] # <<>>, Job(t).op \notin {"status", "apply"}, Then(t, <<>>),
         Types', Grows, UNCHANGED <<pc, cur, isWaiting, mustStop, lock>>,
         phase' = "stops" <=> phase = "stops"
  PROVE  Base'
<1>1. PICK r : r = <<>> \o Tail(jobs[t])
  OBVIOUS
<1>2. jobs' = [jobs EXCEPT ![t] = r]
  BY <1>1 DEF Then, Base
<1>3. Ordered(r) /\ From(r, jobs[t], {}) /\ Top(r) \in Behind \cup {"none"}
  BY <1>1, CallFacts, ThenNothing
<1>4. Top(r) \notin {"status", "apply"}
  BY <1>3 DEF Behind
<1>5. PICK J : J = {} /\ From(r, jobs[t], J)
  BY <1>3
<1>6. \A j \in J : Sound(t, j)'
  BY <1>5
<1> QED
  BY <1>2, <1>3, <1>4, <1>5, <1>6, CallBase

\* The WD enters the ready queue.
LEMMA EnqueueBase == ASSUME Base, NEW t \in Threads, Enqueue(t) PROVE Base'
<1>1. /\ jobs[t] # <<>> /\ Job(t).op = "queue" /\ Then(t, <<>>)
      /\ UNCHANGED <<flagVars, teamVars, maskVars, pc, cur, nextWDs, taskVars, progVars>>
  BY DEF Enqueue, Doing, Job
<1>2. UNCHANGED <<setup, after, tied, released, phase, calls, isWaiting, mustStop, lock>>
  BY <1>1 DEF progVars, taskVars, flagVars, maskVars
<1>3. Job(t).wd \in Created /\ tied[Job(t).wd] = None
  BY <1>1, CallFacts DEF Sound
<1>4. TReady'
  BY <1>1, <1>2, <1>3 DEF Enqueue, Base, Types, TReady, Created
<1>5. Types' /\ Grows
  BY <1>1, <1>2, <1>4, TypesKept, NoGrowth DEF Base, Types
<1> QED
  BY <1>1, <1>2, <1>5, ReturnBase

\* The call of thread t goes on with the call j.
LEMMA GoOnBase ==
  ASSUME Base, NEW t \in Threads, jobs[t] # <<>>, Job(t).op \notin {"status", "apply"},
         NEW j \in JobSet, Sound(t, j)', j.op \notin {"stop", "status", "apply"},
         jobs' = [jobs EXCEPT ![t] = <<j>> \o Tail(jobs[t])],
         Types', Grows, UNCHANGED <<pc, cur, isWaiting, mustStop, lock>>,
         phase' = "stops" <=> phase = "stops"
  PROVE  Base'
<1>1. PICK r : r = <<j>> \o Tail(jobs[t])
  OBVIOUS
<1>2. Ordered(r) /\ From(r, jobs[t], {j}) /\ Top(r) = j.op
  BY <1>1, CallFacts, ThenOne DEF Top
<1> QED
  BY <1>1, <1>2, CallBase

\* The threads of a batch that are unblocked.
LEMMA ParticipantsType ==
  ASSUME Types, NEW t \in Threads, NEW ws \in Seq(Created), Len(ws) > 1
  PROVE  Participants(t, ws) \in Seq(Threads)
<1> DEFINE P == [i \in DOMAIN ws |-> IF tied[ws[i]] = None THEN t ELSE tied[ws[i]]]
<1>1. \A i \in DOMAIN ws : tied[ws[i]] \in Threads \cup {None}
  BY TaskFacts
<1>2. DOMAIN ws = 1 .. Len(ws) /\ Len(ws) \in Nat
  OBVIOUS
<1>3. P \in Seq(Threads) /\ Len(P) = Len(ws)
  BY <1>1, <1>2
<1> HIDE DEF P
<1>4. P # <<>>
  BY <1>2, <1>3
<1>5. Tail(P) \in Seq(Threads)
  BY <1>3, <1>4
<1> QED
  BY <1>5 DEF Participants, P

\* Several WDs enter the ready queue.
LEMMA QueueBatchBase == ASSUME Base, NEW t \in Threads, QueueBatch(t) PROVE Base'
<1>1. /\ jobs[t] # <<>> /\ Job(t).op = "batch" /\ queue' = queue \o Job(t).wds
      /\ UNCHANGED <<flagVars, teamVars, maskVars, pc, cur, nextWDs, taskVars, progVars>>
  BY DEF QueueBatch, Doing, Job
<1>2. UNCHANGED <<setup, after, tied, released, phase, calls, isWaiting, mustStop, lock>>
  BY <1>1 DEF progVars, taskVars, flagVars, maskVars
<1>3. PICK ws \in Seq(Created) : ws = Job(t).wds /\ setup.forks /\ Len(ws) > 1
  BY <1>1, CallFacts DEF Sound
<1>4. TReady'
  <2>1. queue \o ws \in Seq(Created)
    BY DEF Base, Types, TReady
  <2> QED
    BY <1>1, <1>2, <1>3, <2>1 DEF Base, Types, TReady, Created
<1>5. Types' /\ Grows
  BY <1>1, <1>2, <1>4, TypesKept, NoGrowth DEF Base, Types
<1>6. PICK X \in Seq(Threads) : X = Participants(t, ws)
  BY <1>3, ParticipantsType DEF Base
<1>7. PICK j \in JobSet : j = [op |-> "unblockAll", rest |-> X] /\ j.op = "unblockAll"
  BY JobMade
<1>8. Sound(t, j)'
  BY <1>7 DEF Sound
<1>9. jobs' = [jobs EXCEPT ![t] = <<j>> \o Tail(jobs[t])]
  BY <1>3, <1>6, <1>7 DEF QueueBatch, Then
<1> QED
  BY <1>1, <1>2, <1>5, <1>7, <1>8, <1>9, GoOnBase

\* The threads of a batch are unblocked one after the other.
LEMMA UnblockNextBase == ASSUME Base, NEW t \in Threads, UnblockNext(t) PROVE Base'
<1>1. /\ jobs[t] # <<>> /\ Job(t).op = "unblockAll"
      /\ UNCHANGED <<flagVars, teamVars, maskVars, pc, cur, readyVars, taskVars, progVars>>
  BY DEF UnblockNext, Doing, Job
<1>2. UNCHANGED <<setup, after, tied, released, phase, calls, isWaiting, mustStop, lock>>
  BY <1>1 DEF progVars, taskVars, flagVars, maskVars
<1>3. Types' /\ Grows
  BY <1>1, <1>2, TypesKept, NoGrowth DEF Base, Types
<1>4. PICK X \in Seq(Threads) : X = Job(t).rest
  BY <1>1, CallFacts, JobFacts
<1>5. CASE X = <<>>
  <2>1. Then(t, <<>>)
    BY <1>4, <1>5 DEF UnblockNext
  <2> QED
    BY <1>1, <1>2, <1>3, <2>1, ReturnBase
<1>6. CASE X # <<>>
  <2>0. Head(X) \in Threads /\ Tail(X) \in Seq(Threads)
    BY <1>6
  <2>1. PICK x \in Threads, Y \in Seq(Threads) : x = Head(X) /\ Y = Tail(X)
    BY <2>0
  <2>2. PICK j \in JobSet : j = Unblock(x) /\ j.op = "unblock" /\ Sound(t, j)
    BY JobMade, SoundMade DEF Unblock, Base
  <2>3. PICK i \in JobSet : /\ i = [op |-> "unblockAll", rest |-> Y] /\ i.op = "unblockAll"
                            /\ Sound(t, i)
    BY JobMade, SoundMade DEF Base
  <2>4. Sound(t, j)' /\ Sound(t, i)'
    BY <1>3, <2>2, <2>3, SoundKept
  <2>5. PICK r : r = <<j, i>> \o Tail(jobs[t])
    OBVIOUS
  <2>6. jobs' = [jobs EXCEPT ![t] = r]
    BY <1>4, <1>6, <2>1, <2>2, <2>3, <2>5 DEF UnblockNext, Then
  <2>7. Ordered(r) /\ From(r, jobs[t], {j, i}) /\ Top(r) = "unblock"
    <3>1. j.op = "unblock" /\ i.op \in Behind /\ i.op # "stop"
      BY <2>2, <2>3 DEF Behind
    <3> QED
      BY <1>1, <2>5, <3>1, CallFacts, ThenTwo DEF Top
  <2> QED
    BY <1>1, <1>2, <1>3, <2>4, <2>6, <2>7, CallBase
<1> QED
  BY <1>5, <1>6

\* addNextWD gives a thread the WD.
LEMMA PushBase == ASSUME Base, NEW t \in Threads, PushNextWD(t) PROVE Base'
<1>1. /\ jobs[t] # <<>> /\ Job(t).op = "push"
      /\ UNCHANGED <<flagVars, teamVars, maskVars, pc, cur, queue, taskVars, progVars>>
  BY DEF PushNextWD, Doing, Job
<1>2. UNCHANGED <<setup, after, tied, released, phase, calls, isWaiting, mustStop, lock>>
  BY <1>1 DEF progVars, taskVars, flagVars, maskVars
<1>3. Job(t).wd \in Created \cup {Main} /\ Job(t).to \in Threads
  BY <1>1, CallFacts, JobFacts DEF Sound
<1>4. TReady'
  BY <1>1, <1>2, <1>3 DEF PushNextWD, Base, Types, TReady, Created
<1>5. Types' /\ Grows
  BY <1>1, <1>2, <1>4, TypesKept, NoGrowth DEF Base, Types
<1>6. PICK j \in JobSet : j = Unblock(Job(t).to) /\ j.op = "unblock"
  BY <1>3, JobMade DEF Unblock
<1>7. Sound(t, j)'
  BY <1>6 DEF Sound
<1>8. jobs' = [jobs EXCEPT ![t] = <<j>> \o Tail(jobs[t])]
  BY <1>6 DEF PushNextWD, Then
<1> QED
  BY <1>1, <1>2, <1>5, <1>6, <1>7, <1>8, GoOnBase

\* unblockThread tests whether the thread is to sleep.
LEMMA UnblockTestBase == ASSUME Base, NEW t \in Threads, UnblockTest(t) PROVE Base'
<1>1. /\ jobs[t] # <<>> /\ Job(t).op = "unblock"
      /\ UNCHANGED <<flagVars, teamVars, maskVars, pc, cur, readyVars, taskVars, progVars>>
  BY DEF UnblockTest, Doing, Job
<1>2. UNCHANGED <<setup, after, tied, released, phase, calls, isWaiting, mustStop, lock>>
  BY <1>1 DEF progVars, taskVars, flagVars, maskVars
<1>3. Types' /\ Grows
  BY <1>1, <1>2, TypesKept, NoGrowth DEF Base, Types
<1>8. Job(t).to \in Threads
  BY <1>1, CallFacts, JobFacts
<1>4. PICK j \in JobSet : j = [op |-> "wake", to |-> Job(t).to] /\ j.op = "wake"
  BY <1>8, JobMade
<1>5. Sound(t, j)'
  BY <1>4 DEF Sound
<1>6. CASE Job(t).to \in Sleeping
  <2>1. jobs' = [jobs EXCEPT ![t] = <<j>> \o Tail(jobs[t])]
    BY <1>4, <1>6 DEF UnblockTest, Then
  <2> QED
    BY <1>1, <1>2, <1>3, <1>4, <1>5, <2>1, GoOnBase
<1>7. CASE Job(t).to \notin Sleeping
  <2>1. Then(t, <<>>)
    BY <1>7 DEF UnblockTest, Then
  <2> QED
    BY <1>1, <1>2, <1>3, <2>1, ReturnBase
<1> QED
  BY <1>6, <1>7

\* Who has the lock, for a thread in a call.
LEMMA LockOfCall ==
  ASSUME Base, NEW t \in Threads, jobs[t] # <<>>
  PROVE  lock = t <=> Job(t).op = "status" \/ (Job(t).op = "apply" /\ Job(t).held)
<1>1. Top(jobs[t]) = Job(t).op /\ pc[t] = "test"
  BY CallFacts
<1> QED
  BY <1>1 DEF Base, Locking, HoldsLock, InLoop

\* A step of a call that may take or release the lock.
LEMMA LockBase ==
  ASSUME Base, NEW t \in Threads, jobs[t] # <<>>, NEW r, jobs' = [jobs EXCEPT ![t] = r],
         Ordered(r), NEW J, From(r, jobs[t], J), \A j \in J : Sound(t, j)', Grows, Types',
         UNCHANGED <<pc, cur, isWaiting, mustStop, phase>>,
         lock' = t <=> Top(r) = "status" \/ (Top(r) = "apply" /\ Head(r).held),
         lock' = lock \/ (lock \in {None, t} /\ lock' \in {None, t})
  PROVE  Base'
<1>1. /\ Good(t, jobs[t]) /\ pc[t] = "test" /\ t \notin isWaiting
  BY CallFacts
<1>2. Good(t, r)'
  BY <1>1, GoodNext
<1>3. jobs'[t] = r
  BY DEF Base
<1>4. HoldsLock(t)' <=> lock' = t
  BY <1>1, <1>3 DEF HoldsLock, InLoop, Job
<1>5. Stopping'
  BY StoppingKept
<1>6. OthersRest(t)
  BY DEF OthersRest
<1> QED
  BY <1>1, <1>2, <1>4, <1>5, <1>6, StepBase

\* unblockThread takes the lock and wakes the thread up.
LEMMA UnblockWakeBase == ASSUME Base, NEW t \in Threads, UnblockWake(t) PROVE Base'
<1>1. /\ jobs[t] # <<>> /\ Job(t).op = "wake" /\ TryWakeUp({Job(t).to}) /\ lock = None /\ lock' = t
      /\ UNCHANGED <<activeMask, pc, cur, readyVars, taskVars, progVars>>
  BY DEF UnblockWake, Doing, Job
<1>2. UNCHANGED <<setup, after, tied, released, phase, calls, isWaiting, mustStop>>
  BY <1>1 DEF progVars, taskVars, TryWakeUp
<1>3. Job(t).to \in Threads
  BY <1>1, CallFacts, JobFacts
<1>4. TFlags' /\ TTeam' /\ TMask'
  BY <1>1, <1>3, FlagTypes DEF Base, Types, TMask
<1>5. Types' /\ Grows
  BY <1>1, <1>2, <1>4, TypesKept, NoGrowth DEF Base, Types
<1>6. PICK j : j = [op |-> "status", cpu |-> CpuOf[Job(t).to]] /\ Sound(t, j) /\ j \in JobSet
  BY <1>3, SoundMade, ConstantFacts DEF Sound, Base
<1>7. Sound(t, j)' /\ j.op = "status"
  BY <1>5, <1>6, SoundKept
<1>8. PICK r : r = <<j>> \o Tail(jobs[t])
  OBVIOUS
<1>9. jobs' = [jobs EXCEPT ![t] = r]
  BY <1>6, <1>8 DEF UnblockWake, Then
<1>10. Ordered(r) /\ From(r, jobs[t], {j}) /\ Top(r) = "status"
  BY <1>1, <1>6, <1>7, <1>8, CallFacts, ThenOne DEF Top
<1> QED
  BY <1>1, <1>2, <1>5, <1>7, <1>9, <1>10, LockBase

\* unblockThread updates the status of the CPU and releases the lock.
LEMMA UnblockStatusBase == ASSUME Base, NEW t \in Threads, UnblockStatus(t) PROVE Base'
<1>1. /\ jobs[t] # <<>> /\ Job(t).op = "status" /\ lock' = None
      /\ UNCHANGED <<flagVars, teamVars, pc, cur, readyVars, taskVars, progVars>>
  BY DEF UnblockStatus, Doing, Job
<1>2. UNCHANGED <<setup, after, tied, released, phase, calls, isWaiting, mustStop>>
  BY <1>1 DEF progVars, taskVars, flagVars
<1>3. Job(t).cpu \in Cpus /\ lock = t
  BY <1>1, CallFacts, JobFacts, LockOfCall
<1>4. TMask'
  BY <1>1, <1>3 DEF Base, Types, TMask, UnblockStatus, UpdatedMask
<1>5. Types' /\ Grows
  BY <1>1, <1>2, <1>4, TypesKept, NoGrowth DEF Base, Types
<1>6. PICK r : r = <<>> \o Tail(jobs[t])
  OBVIOUS
<1>7. jobs' = [jobs EXCEPT ![t] = r]
  BY <1>6 DEF UnblockStatus, Then
<1>8. Ordered(r) /\ From(r, jobs[t], {}) /\ Top(r) \in Behind \cup {"none"}
  BY <1>1, <1>6, CallFacts, ThenNothing
<1>9. Top(r) \notin {"status", "apply"} /\ lock' # t
  BY <1>1, <1>8, ConstantFacts DEF Behind
<1>10. PICK J : J = {} /\ From(r, jobs[t], J)
  BY <1>8
<1>11. \A j \in J : Sound(t, j)'
  BY <1>10
<1> QED
  BY <1>1, <1>2, <1>3, <1>5, <1>7, <1>8, <1>9, <1>10, <1>11, LockBase

\* acquireOne takes an inactive CPU.
LEMMA AcquireBase == ASSUME Base, NEW t \in Threads, AcquireOne(t) PROVE Base'
<1>1. /\ jobs[t] # <<>> /\ Job(t).op = "acquire"
      /\ UNCHANGED <<flagVars, teamVars, pc, cur, readyVars, taskVars, progVars>>
  BY DEF AcquireOne, Doing, Job
<1>2. UNCHANGED <<setup, after, tied, released, phase, calls, isWaiting, mustStop>>
  BY <1>1 DEF progVars, taskVars, flagVars
<1> DEFINE Takes == /\ IsGreedy(t) /\ lock = None /\ lock' = t
                    /\ activeMask' = WithMaster(activeMask \cup {Min(Cpus \ activeMask)})
                    /\ Then(t, <<[op |-> "apply", cpus |-> Cpus, held |-> TRUE]>>)
<1>3. CASE Then(t, <<>>) /\ UNCHANGED maskVars
  <2>1. Then(t, <<>>) /\ UNCHANGED maskVars
    BY <1>3
  <2>2. Types' /\ Grows /\ lock' = lock
    BY <1>1, <1>2, <2>1, TypesKept, NoGrowth DEF Base, Types, maskVars
  <2> QED
    BY <1>1, <1>2, <2>1, <2>2, ReturnBase
<1>4. CASE Takes
  <2>1. /\ lock' = t /\ activeMask' = WithMaster(activeMask \cup {Min(Cpus \ activeMask)})
        /\ Then(t, <<[op |-> "apply", cpus |-> Cpus, held |-> TRUE]>>)
    BY <1>4
  <2>2. activeMask \subseteq Cpus /\ activeMask # Cpus
    BY <1>4 DEF IsGreedy, Base, Types, TMask
  <2>3. Cpus \ activeMask \in SUBSET Nat /\ Cpus \ activeMask # {}
    BY <2>2, ConstantFacts
  <2>4. Min(Cpus \ activeMask) \in Cpus
    BY <2>3, MinFact
  <2>5. TMask'
    BY <2>1, <2>2, <2>4, ConstantFacts DEF TMask, WithMaster
  <2>6. Types' /\ Grows
    BY <1>1, <1>2, <2>5, TypesKept, NoGrowth DEF Base, Types
  <2>7. PICK j : j = [op |-> "apply", cpus |-> Cpus, held |-> TRUE] /\ Sound(t, j) /\ j \in JobSet
    <3>1. Cpus \in SUBSET Cpus /\ TRUE \in BOOLEAN
      OBVIOUS
    <3> QED
      BY <3>1, SoundMade, JobMade DEF Base
  <2>8. Sound(t, j)' /\ j.op = "apply" /\ j.held
    BY <2>6, <2>7, SoundKept
  <2>9. PICK r : r = <<j>> \o Tail(jobs[t])
    OBVIOUS
  <2>10. jobs' = [jobs EXCEPT ![t] = r]
    BY <2>1, <2>7, <2>9 DEF Then
  <2>11. Ordered(r) /\ From(r, jobs[t], {j}) /\ Top(r) = "apply" /\ Head(r) = j
    BY <1>1, <2>7, <2>8, <2>9, CallFacts, ThenOne DEF Top
  <2> QED
    BY <1>1, <1>2, <1>4, <2>1, <2>6, <2>8, <2>10, <2>11, LockBase
<1> QED
  BY <1>3, <1>4 DEF AcquireOne

\* The mask is applied to a CPU.
LEMMA ApplyBase == ASSUME Base, NEW t \in Threads, ApplyMask(t) PROVE Base'
<1>1. /\ jobs[t] # <<>> /\ Job(t).op = "apply" /\ Job(t).cpus # {}
      /\ UNCHANGED <<maskVars, pc, cur, readyVars, taskVars, progVars>>
  BY DEF ApplyMask, Doing, Job
<1>2. Job(t) \in JobSet /\ Job(t).cpus \in SUBSET Cpus /\ Job(t).held \in BOOLEAN
  BY <1>1, CallFacts, JobFacts
<1>3. PICK c \in Cpus : c = Min(Job(t).cpus)
  BY <1>1, <1>2, MinFact, ConstantFacts
<1>4. /\ IF c \in activeMask THEN TryWakeUp(ThreadsOf(c)) ELSE Sleep(ThreadsOf(c))
      /\ Then(t, <<[Job(t) EXCEPT !.cpus = @ \ {c}]>>)
  BY <1>3 DEF ApplyMask
<1>5. UNCHANGED <<setup, after, tied, released, phase, calls, isWaiting, mustStop, lock>>
  BY <1>1, <1>4 DEF progVars, taskVars, TryWakeUp, Sleep, maskVars
<1>6. TFlags' /\ TTeam'
  BY <1>4, FlagTypes, ConstantFacts DEF Base
<1>7. Types' /\ Grows
  BY <1>1, <1>5, <1>6, TypesKept, NoGrowth DEF Base, Types
<1>8. PICK j : /\ j = [op |-> "apply", cpus |-> Job(t).cpus \ {c}, held |-> Job(t).held]
               /\ Sound(t, j) /\ j \in JobSet
  <2>1. PICK C \in SUBSET Cpus : C = Job(t).cpus \ {c}
    BY <1>2
  <2>2. PICK h \in BOOLEAN : h = Job(t).held /\ (h \/ setup.masks # {})
    BY <1>1, <1>2, CallFacts DEF Sound
  <2>3. Sound(t, [op |-> "apply", cpus |-> C, held |-> h])
    BY <2>2, SoundMade DEF Base
  <2>4. [op |-> "apply", cpus |-> C, held |-> h] \in JobSet
    BY JobMade
  <2> QED
    BY <2>1, <2>2, <2>3, <2>4
<1>9. Sound(t, j)' /\ j.op = "apply" /\ j.held = Job(t).held
  BY <1>7, <1>8, SoundKept
<1>10. PICK r : r = <<j>> \o Tail(jobs[t])
  OBVIOUS
<1>11. [Job(t) EXCEPT !.cpus = @ \ {c}] = j
  BY <1>1, <1>2, <1>8, JobGoesOn
<1>12. jobs' = [jobs EXCEPT ![t] = r]
  BY <1>4, <1>10, <1>11 DEF Then
<1>13. Ordered(r) /\ From(r, jobs[t], {j}) /\ Top(r) = "apply" /\ Head(r) = j
  BY <1>1, <1>8, <1>9, <1>10, CallFacts, ThenOne DEF Top
<1>14. lock = t <=> Job(t).held
  BY <1>1, LockOfCall
<1> QED
  BY <1>1, <1>5, <1>7, <1>9, <1>12, <1>13, <1>14, LockBase

\* The mask has been applied to every CPU.
LEMMA AppliedBase == ASSUME Base, NEW t \in Threads, MaskApplied(t) PROVE Base'
<1>1. /\ jobs[t] # <<>> /\ Job(t).op = "apply" /\ lock' = IF Job(t).held THEN None ELSE lock
      /\ UNCHANGED <<flagVars, teamVars, activeMask, pc, cur, readyVars, taskVars, progVars>>
  BY DEF MaskApplied, Doing, Job
<1>2. UNCHANGED <<setup, after, tied, released, phase, calls, isWaiting, mustStop>>
  BY <1>1 DEF progVars, taskVars, flagVars
<1>3. lock = t <=> Job(t).held
  BY <1>1, LockOfCall
<1>4. TMask'
  BY <1>1, <1>3 DEF Base, Types, TMask
<1>5. Types' /\ Grows
  BY <1>1, <1>2, <1>4, TypesKept, NoGrowth DEF Base, Types
<1>6. PICK r : r = <<>> \o Tail(jobs[t])
  OBVIOUS
<1>7. jobs' = [jobs EXCEPT ![t] = r]
  BY <1>6 DEF MaskApplied, Then
<1>8. Ordered(r) /\ From(r, jobs[t], {}) /\ Top(r) \in Behind \cup {"none"}
  BY <1>1, <1>6, CallFacts, ThenNothing
<1>9. Top(r) \notin {"status", "apply"} /\ lock' # t
  BY <1>1, <1>3, <1>8, ConstantFacts DEF Behind
<1>10. PICK J : J = {} /\ From(r, jobs[t], J)
  BY <1>8
<1>11. \A j \in J : Sound(t, j)'
  BY <1>10
<1>12. lock' = lock \/ (lock \in {None, t} /\ lock' \in {None, t})
  BY <1>1, <1>3
<1> QED
  BY <1>1, <1>2, <1>5, <1>7, <1>8, <1>9, <1>10, <1>11, <1>12, LockBase

-----------------------------------------------------------------------------
(* The idle loop keeps the types, the places and the lock.                 *)

\* A thread in the idle loop.
LEMMA LoopFacts ==
  ASSUME Base, NEW t \in Threads, NEW w, InLoop(t, w)
  PROVE  /\ jobs[t] = <<>> /\ cur[t] = None /\ pc[t] = w
         /\ lock = t <=> w \in {"sleep", "status"}
         /\ t \in isWaiting => w = "blocked"
         /\ t = 0 /\ phase = "stops" => w = "ended"
<1>1. jobs[t] = <<>> /\ cur[t] = None /\ pc[t] = w
  BY DEF InLoop
<1>2. Top(jobs[t]) = "none"
  BY <1>1 DEF Top
<1>3. lock = t <=> w \in {"sleep", "status"}
  BY <1>1, <1>2 DEF Base, Locking, HoldsLock, InLoop
<1> QED
  BY <1>1, <1>3 DEF Base, Where, Stopping, None, Main

\* A thread that executes a WD.
LEMMA ExecFacts ==
  ASSUME Base, NEW t \in Threads, jobs[t] = <<>>, cur[t] # None
  PROVE  pc[t] = "test" /\ lock # t /\ t \notin isWaiting /\ Top(jobs[t]) = "none"
<1>1. Top(jobs[t]) = "none"
  BY DEF Top
<1> QED
  BY <1>1 DEF Base, Where, Locking, HoldsLock, InLoop

\* A step inside the idle loop.
LEMMA LoopBase ==
  ASSUME Base, NEW t \in Threads, NEW v, InLoop(t, v), v # "ended", NEW w \in PCs, Goto(t, w),
         UNCHANGED <<jobs, cur, mustStop, setup, after, tied, released, phase>>,
         TFlags', TTeam', TMask', TReady', TTasks', TProg',
         \A u \in Threads \ {t} : u \in isWaiting' <=> u \in isWaiting,
         t \in isWaiting' => w = "blocked",
         lock' = t <=> w \in {"sleep", "status"},
         lock' = lock \/ (lock \in {None, t} /\ lock' \in {None, t})
  PROVE  Base'
<1>1. /\ pc \in [Threads -> PCs] /\ pc'[t] = w /\ (\A u \in Threads \ {t} : pc'[u] = pc[u])
      /\ pc' \in [Threads -> PCs]
  BY DEF Base, Types, TWhere, Goto
<1>2. TWhere' /\ Grows
  BY <1>1, NoGrowth DEF Base, Types, TWhere
<1>3. Types'
  BY <1>2 DEF Types
<1>4. OthersRest(t)
  BY <1>1 DEF OthersRest
<1>5. jobs[t] = <<>> /\ cur[t] = None /\ (t = 0 => phase # "stops")
  BY LoopFacts
<1>6. HoldsLock(t)' <=> lock' = t
  <2>1. Top(jobs[t])' = "none"
    BY <1>5 DEF Top
  <2> QED
    BY <1>1, <1>5, <2>1 DEF HoldsLock, InLoop
<1>7. Stopping'
  BY <1>1, <1>5, StoppingKept, ConstantFacts
<1> QED
  BY <1>1, <1>2, <1>3, <1>4, <1>5, <1>6, <1>7, IdleBase

\* The steps of the idle loop in which only the place, the flags and the team may change.
LEMMA FlagLoop ==
  ASSUME Base, NEW t \in Threads, NEW v, InLoop(t, v), v \notin {"ended", "sleep", "status"},
         NEW w \in PCs, Goto(t, w), w \notin {"sleep", "status"},
         UNCHANGED <<maskVars, mustStop, cur, jobs, readyVars, taskVars, progVars>>,
         TFlags', TTeam',
         \A u \in Threads \ {t} : u \in isWaiting' <=> u \in isWaiting,
         t \in isWaiting' => w = "blocked"
  PROVE  Base'
<1>1. UNCHANGED <<setup, after, tied, released, phase, lock>>
  BY DEF maskVars, taskVars, progVars
<1>2. lock # t
  BY LoopFacts
<1>3. TMask' /\ TReady' /\ TTasks' /\ TProg'
  BY <1>1, TypesKept DEF Base
<1> QED
  BY <1>1, <1>2, <1>3, LoopBase

\* The idle loop tests whether the thread is to sleep.
LEMMA SleepTestBase == ASSUME Base, NEW t \in Threads, SleepTest(t) PROVE Base'
<1>1. PICK w \in PCs : w = IF HasToWait(t) /\ ~ LastActiveThread(t) THEN "wait" ELSE "get"
  BY DEF PCs
<1>2. /\ InLoop(t, "test") /\ Goto(t, w)
      /\ UNCHANGED <<flagVars, teamVars, maskVars, cur, jobs, readyVars, taskVars, progVars>>
  BY <1>1 DEF SleepTest
<1>3. UNCHANGED <<mustStop, isWaiting>> /\ t \notin isWaiting /\ TFlags' /\ TTeam'
  BY <1>2, TypesKept, LoopFacts DEF flagVars, Base
<1> QED
  BY <1>1, <1>2, <1>3, FlagLoop

\* The thread waits for its condition variable.
LEMMA WaitBase == ASSUME Base, NEW t \in Threads, Wait(t) PROVE Base'
<1>1. PICK w \in PCs : w = IF HasToWait(t) THEN "blocked" ELSE "get"
  BY DEF PCs
<1>2. /\ InLoop(t, "wait") /\ Goto(t, w)
      /\ UNCHANGED <<mustSleep, mustStop, expected, nextTeam, maskVars, cur, jobs, readyVars,
                     taskVars, progVars>>
  BY <1>1 DEF Wait
<1>3. t \notin isWaiting
  BY <1>2, LoopFacts
<1>4. isWaiting' = IF HasToWait(t) THEN isWaiting \cup {t} ELSE isWaiting
  BY DEF Wait
<1>5. member' \subseteq member /\ mustLeave' \subseteq mustLeave
  BY DEF Wait
<1>6. TFlags' /\ TTeam'
  BY <1>2, <1>4, <1>5 DEF Base, Types, TFlags, TTeam
<1> QED
  BY <1>1, <1>2, <1>3, <1>4, <1>6, FlagLoop

\* The thread has been woken up.
LEMMA ResumeBase == ASSUME Base, NEW t \in Threads, Resume(t) PROVE Base'
<1>1. /\ InLoop(t, "blocked") /\ Goto(t, "get") /\ isWaiting' = isWaiting \ {t} /\ "get" \in PCs
      /\ UNCHANGED <<mustSleep, mustLeave, mustStop, nextTeam, maskVars, cur, jobs, readyVars,
                     taskVars, progVars>>
  BY DEF Resume, PCs
<1>2. member' \subseteq member \cup {t} /\ expected' \subseteq expected \cup {t}
  BY DEF Resume
<1>3. TFlags' /\ TTeam'
  BY <1>1, <1>2 DEF Base, Types, TFlags, TTeam
<1> QED
  BY <1>1, <1>3, FlagLoop

\* The thread ends.
LEMMA EndThreadBase == ASSUME Base, NEW t \in Threads, EndThread(t) PROVE Base'
<1>1. /\ InLoop(t, "get") /\ Goto(t, "ended") /\ "ended" \in PCs
      /\ UNCHANGED <<mustSleep, isWaiting, mustStop, nextTeam, maskVars, cur, jobs, readyVars,
                     taskVars, progVars>>
  BY DEF EndThread, PCs
<1>2. member' \subseteq member /\ expected' \subseteq expected /\ mustLeave' \subseteq mustLeave
  BY DEF EndThread, Finish
<1>3. TFlags' /\ TTeam' /\ t \notin isWaiting
  BY <1>1, <1>2, LoopFacts DEF Base, Types, TFlags, TTeam
<1> QED
  BY <1>1, <1>3, FlagLoop

\* There is no WD to execute.
LEMMA GetNothingBase ==
  ASSUME Base, NEW t \in Threads, GetNothing(t) \/ SpinAgain(t) \/ BlockTest(t) PROVE Base'
<1>1. PICK v \in {"get", "idle"} : InLoop(t, v)
  BY DEF GetNothing, SpinAgain, BlockTest
<1>2. PICK w \in PCs : Goto(t, w) /\ w \in {"idle", "test", "block"}
  BY DEF GetNothing, SpinAgain, BlockTest, PCs
<1>3. UNCHANGED <<flagVars, teamVars, maskVars, cur, jobs, readyVars, taskVars, progVars>>
  BY DEF GetNothing, SpinAgain, BlockTest
<1>4. UNCHANGED <<mustStop, isWaiting>> /\ t \notin isWaiting /\ TFlags' /\ TTeam'
  BY <1>1, <1>3, TypesKept, LoopFacts DEF flagVars, Base
<1> QED
  BY <1>1, <1>2, <1>3, <1>4, FlagLoop

\* blockThread takes the lock if the thread may sleep.
LEMMA BlockThreadBase == ASSUME Base, NEW t \in Threads, BlockThread(t) PROVE Base'
<1>1. /\ InLoop(t, "block") /\ lock = None /\ "sleep" \in PCs /\ "test" \in PCs
      /\ UNCHANGED <<flagVars, teamVars, activeMask, cur, jobs, readyVars, taskVars, progVars>>
  BY DEF BlockThread, PCs
<1>2. /\ UNCHANGED <<mustStop, isWaiting, setup, after, tied, released, phase>> /\ t \notin isWaiting
  BY <1>1, LoopFacts DEF flagVars, taskVars, progVars
<1>3. TFlags' /\ TTeam' /\ TReady' /\ TTasks' /\ TProg'
  BY <1>1, <1>2, TypesKept DEF Base
<1>4. CASE Goto(t, "test") /\ UNCHANGED lock
  BY <1>1, <1>2, <1>3, <1>4, FlagLoop DEF maskVars
<1>5. CASE Goto(t, "sleep") /\ lock' = t
  <2>1. TMask'
    BY <1>1, <1>5 DEF Base, Types, TMask
  <2> QED
    BY <1>1, <1>2, <1>3, <1>5, <2>1, LoopBase
<1> QED
  BY <1>4, <1>5 DEF BlockThread

\* blockThread puts the thread to sleep.
LEMMA BlockSleepBase == ASSUME Base, NEW t \in Threads, BlockSleep(t) PROVE Base'
<1>1. /\ InLoop(t, "sleep") /\ Goto(t, "status") /\ Sleep({t}) /\ "status" \in PCs
      /\ UNCHANGED <<maskVars, cur, jobs, readyVars, taskVars, progVars>>
  BY DEF BlockSleep, PCs
<1>2. /\ UNCHANGED <<mustStop, isWaiting, setup, after, tied, released, phase, lock>>
      /\ t \notin isWaiting /\ lock = t
  BY <1>1, LoopFacts DEF Sleep, maskVars, taskVars, progVars
<1>3. TMask' /\ TReady' /\ TTasks' /\ TProg'
  BY <1>1, <1>2, TypesKept DEF Base
<1>4. TFlags' /\ TTeam'
  BY <1>1, FlagTypes DEF Base
<1> QED
  BY <1>1, <1>2, <1>3, <1>4, LoopBase

\* blockThread updates the status of the CPU and releases the lock.
LEMMA BlockStatusBase == ASSUME Base, NEW t \in Threads, BlockStatus(t) PROVE Base'
<1>1. /\ InLoop(t, "status") /\ Goto(t, "test") /\ lock' = None /\ "test" \in PCs
      /\ UNCHANGED <<flagVars, teamVars, cur, jobs, readyVars, taskVars, progVars>>
  BY DEF BlockStatus, PCs
<1>2. /\ UNCHANGED <<mustStop, isWaiting, setup, after, tied, released, phase>>
      /\ t \notin isWaiting /\ lock = t
  BY <1>1, LoopFacts DEF flagVars, taskVars, progVars
<1>3. TFlags' /\ TTeam' /\ TReady' /\ TTasks' /\ TProg'
  BY <1>1, <1>2, TypesKept DEF Base
<1>4. TMask'
  BY <1>1, ConstantFacts DEF Base, Types, TMask, BlockStatus, UpdatedMask
<1>5. lock' # t
  BY <1>1, ConstantFacts
<1> QED
  BY <1>1, <1>2, <1>3, <1>4, <1>5, LoopBase

-----------------------------------------------------------------------------
(* Tasks and the main WD keep the types, the places and the lock.          *)

\* A thread that was in no call goes on with a WD, the idle loop, or the calls r.
LEMMA RunBase ==
  ASSUME Base, NEW t \in Threads, jobs[t] = <<>>, lock # t, t \notin isWaiting,
         NEW r, jobs' = [jobs EXCEPT ![t] = r], Ordered(r), NEW J, From(r, <<>>, J),
         \A j \in J : Sound(t, j)', Top(r) # "status", Top(r) = "apply" => ~ Head(r).held,
         Grows, Types', OthersRest(t), pc'[t] = "test", isWaiting' = isWaiting, lock' = lock,
         Stopping'
  PROVE  Base'
<1>1. Good(t, jobs[t])
  BY DEF Base, Where
<1>2. PICK q : q = jobs[t] /\ Good(t, q) /\ From(r, q, J)
  BY <1>1
<1>3. Good(t, r)'
  BY <1>2, GoodNext
<1>4. jobs'[t] = r
  BY DEF Base
<1>5. ~ HoldsLock(t)'
  BY <1>4 DEF HoldsLock, InLoop, Job
<1> QED
  BY <1>3, <1>5, StepBase

\* The place of a thread that goes to the test of the idle loop or to a WD.
LEMMA PlaceTypes ==
  ASSUME Base, NEW t \in Threads, NEW w \in Created \cup {Main, None},
         cur' = [cur EXCEPT ![t] = w], pc' = [pc EXCEPT ![t] = "test"]
  PROVE  /\ TWhere' /\ pc'[t] = "test" /\ cur'[t] = w
         /\ \A u \in Threads \ {t} : pc'[u] = pc[u] /\ cur'[u] = cur[u]
<1>1. w \in Tasks \cup {Main, None} /\ "test" \in PCs
  BY TaskFacts DEF Base, PCs
<1> QED
  BY <1>1 DEF Base, Types, TWhere

\* A thread gets a WD to execute.
LEMMA ExecuteBase ==
  ASSUME Base, NEW t \in Threads, jobs[t] = <<>>, lock # t, t \notin isWaiting,
         NEW w \in Created \cup {Main}, Execute(t, w), Goto(t, "test"), Grows,
         TReady', TProg',
         UNCHANGED <<flagVars, teamVars, maskVars, taskVars, setup>>,
         t = 0 => phase # "stops", phase' = "stops" <=> phase = "stops"
  PROVE  Base'
<1>1. /\ TWhere' /\ pc'[t] = "test"
      /\ \A u \in Threads \ {t} : pc'[u] = pc[u] /\ cur'[u] = cur[u]
  BY PlaceTypes DEF Execute, Goto
<1>2. TFlags' /\ TTeam' /\ TMask' /\ TTasks'
  BY TypesKept DEF Base
<1>3. Types' /\ UNCHANGED <<isWaiting, mustStop, lock>>
  BY <1>1, <1>2 DEF Types, flagVars, maskVars
<1>4. OthersRest(t)
  BY <1>1, <1>3 DEF OthersRest
<1>5. Stopping'
  BY <1>1, <1>3, StoppingKept, ConstantFacts
<1>6. PICK j \in JobSet : j = [op |-> "acquire"] /\ Sound(t, j)
  BY JobMade, SoundMade DEF Base
<1>7. PICK r : r = <<j>>
  OBVIOUS
<1>8. Ordered(r) /\ From(r, <<>>, {j}) /\ Top(r) = "acquire"
  <2>1. PICK i \in JobSet : i.op = "stable" /\ i.op \in Behind
    BY JobMade DEF Behind
  <2> QED
    BY <1>6, <1>7, <2>1, Fresh
<1>9. Sound(t, j)'
  BY <1>6, SoundKept
<1>10. jobs' = [jobs EXCEPT ![t] = r]
  BY <1>6, <1>7 DEF Execute
<1> QED
  BY <1>1, <1>3, <1>4, <1>5, <1>8, <1>9, <1>10, RunBase

\* What a queue gives.
LEMMA TakeFirst ==
  ASSUME NEW S, NEW q \in Seq(S), q # <<>> PROVE Head(q) \in S /\ Tail(q) \in Seq(S)
OBVIOUS

\* The thread takes a WD of its own.
LEMMA GetNextBase == ASSUME Base, NEW t \in Threads, GetNextWD(t) PROVE Base'
<1>1. /\ InLoop(t, "get") /\ nextWDs[t] # <<>> /\ Execute(t, Head(nextWDs[t])) /\ Goto(t, "test")
      /\ nextWDs' = [nextWDs EXCEPT ![t] = Tail(@)]
      /\ UNCHANGED <<flagVars, teamVars, maskVars, queue, taskVars, progVars>>
  BY DEF GetNextWD, HasNextWD
<1>2. jobs[t] = <<>> /\ lock # t /\ t \notin isWaiting /\ (t = 0 => phase # "stops")
  BY <1>1, LoopFacts
<1>3. nextWDs \in [Threads -> Seq(Created \cup {Main})]
  BY DEF Base, Types, TReady
<1>4. Head(nextWDs[t]) \in Created \cup {Main} /\ Tail(nextWDs[t]) \in Seq(Created \cup {Main})
  BY <1>1, <1>3, TakeFirst
<1>5. UNCHANGED <<setup, after, tied, released, phase>>
  BY <1>1 DEF taskVars, progVars
<1>6. TReady' /\ TProg' /\ Grows
  <2>1. TReady'
    BY <1>1, <1>3, <1>4, <1>5 DEF Base, Types, TReady, Created
  <2> QED
    BY <1>1, <1>5, <2>1, TypesKept, NoGrowth DEF Base
<1> QED
  BY <1>1, <1>2, <1>4, <1>5, <1>6, ExecuteBase

\* What the ready queue gives.
LEMMA PopFacts ==
  ASSUME Base, NEW t, Allowed(t) # {}
  PROVE  /\ queue[Min(Allowed(t))] \in Created
         /\ queue' = Without(Min(Allowed(t))) /\ UNCHANGED <<after, tied, setup, nextWDs>> => TReady'
<1>1. /\ queue \in Seq(Created) /\ nextWDs \in [Threads -> Seq(Created \cup {Main})]
      /\ ~ setup.forks => \A i \in DOMAIN queue : tied[queue[i]] = None
  BY DEF Base, Types, TReady
<1>2. Len(queue) \in Nat /\ DOMAIN queue = 1 .. Len(queue)
  BY <1>1
<1>3. Allowed(t) \in SUBSET Nat
  BY <1>2 DEF Allowed
<1>4. PICK m \in DOMAIN queue : m = Min(Allowed(t))
  BY <1>3, MinFact DEF Allowed
<1>5. queue[m] \in Created /\ m \in 1 .. Len(queue) /\ Len(queue) - 1 \in Nat
  BY <1>1, <1>2
<1> DEFINE q == Without(m)
<1>6. DOMAIN q = 1 .. Len(queue) - 1
  BY DEF Without
<1>7. \A k \in DOMAIN q : \E i \in DOMAIN queue : q[k] = queue[i]
  BY <1>2, <1>5, <1>6 DEF Without
<1>8. q \in Seq(Created)
  <2>1. \A k \in 1 .. Len(queue) - 1 : q[k] \in Created
    BY <1>1, <1>6, <1>7
  <2>2. q = [k \in 1 .. Len(queue) - 1 |-> q[k]]
    BY DEF Without
  <2> HIDE DEF q
  <2> QED
    BY <1>5, <2>1, <2>2
<1>9. ~ setup.forks => \A k \in DOMAIN q : tied[q[k]] = None
  BY <1>1, <1>7
<1> HIDE DEF q
<1> QED
  BY <1>1, <1>4, <1>5, <1>8, <1>9 DEF q, TReady, Created

\* The thread takes a WD of the ready queue.
LEMMA GetReadyBase == ASSUME Base, NEW t \in Threads, GetReadyWD(t) PROVE Base'
<1>1. /\ InLoop(t, "get") /\ Allowed(t) # {} /\ Goto(t, "test")
      /\ Execute(t, queue[Min(Allowed(t))]) /\ queue' = Without(Min(Allowed(t)))
      /\ UNCHANGED <<flagVars, teamVars, maskVars, nextWDs, taskVars, progVars>>
  BY DEF GetReadyWD, PopFront
<1>2. jobs[t] = <<>> /\ lock # t /\ t \notin isWaiting /\ (t = 0 => phase # "stops")
  BY <1>1, LoopFacts
<1>3. UNCHANGED <<setup, after, tied, released, phase>>
  BY <1>1 DEF taskVars, progVars
<1>4. queue[Min(Allowed(t))] \in Created /\ TReady'
  BY <1>1, <1>3, PopFacts
<1>5. TProg' /\ Grows
  BY <1>1, <1>3, TypesKept, NoGrowth DEF Base
<1> QED
  BY <1>1, <1>2, <1>3, <1>4, <1>5, ExecuteBase

\* The main WD waits for its tasks.
LEMMA TaskWaitBase == ASSUME Base, NEW t \in Threads, TaskWait(t) PROVE Base'
<1>1. /\ jobs[t] = <<>> /\ cur[t] = Main /\ phase = "runs" /\ phase' = "waits" /\ Goto(t, "test")
      /\ UNCHANGED <<flagVars, teamVars, maskVars, taskVars, setup, calls>>
  BY DEF TaskWait, MainRuns, Executes
<1>2. jobs[t] = <<>> /\ lock # t /\ t \notin isWaiting
  BY <1>1, ExecFacts DEF None, Main
<1>3. /\ queue \in Seq(Created) /\ nextWDs \in [Threads -> Seq(Created \cup {Main})]
      /\ ~ setup.forks => \A i \in DOMAIN queue : tied[queue[i]] = None
  BY DEF Base, Types, TReady
<1>4. UNCHANGED <<setup, after, tied, released>> /\ Created' = Created
  BY <1>1 DEF taskVars, Created
<1>5. TProg' /\ Grows
  BY <1>1, <1>4 DEF Base, Types, TProg, Grows, Steady
<1>6. CASE nextWDs[t] # <<>>
  <2>1. Execute(t, Head(nextWDs[t])) /\ nextWDs' = [nextWDs EXCEPT ![t] = Tail(@)] /\ queue' = queue
    BY <1>6 DEF TaskWait, HasNextWD
  <2>2. Head(nextWDs[t]) \in Created \cup {Main} /\ Tail(nextWDs[t]) \in Seq(Created \cup {Main})
    BY <1>3, <1>6, TakeFirst
  <2>3. TReady'
    BY <1>3, <1>4, <2>1, <2>2 DEF TReady
  <2> QED
    BY <1>1, <1>2, <1>4, <1>5, <2>1, <2>2, <2>3, ExecuteBase
<1>7. CASE nextWDs[t] = <<>> /\ t \notin Sleeping /\ Allowed(t) # {}
  <2>1. /\ Execute(t, queue[Min(Allowed(t))]) /\ queue' = Without(Min(Allowed(t)))
        /\ nextWDs' = nextWDs
    BY <1>7 DEF TaskWait, HasNextWD, PopFront
  <2>2. queue[Min(Allowed(t))] \in Created
    BY <1>7, PopFacts
  <2>3. TReady'
    BY <1>4, <1>7, <2>1, PopFacts
  <2> QED
    BY <1>1, <1>2, <1>4, <1>5, <2>1, <2>2, <2>3, ExecuteBase
<1>8. CASE nextWDs[t] = <<>> /\ ~ (t \notin Sleeping /\ Allowed(t) # {})
  <2>1. cur' = [cur EXCEPT ![t] = None] /\ UNCHANGED <<jobs, readyVars>>
    BY <1>8 DEF TaskWait, HasNextWD
  <2>2. /\ TWhere' /\ pc'[t] = "test" /\ cur'[t] = None
        /\ \A u \in Threads \ {t} : pc'[u] = pc[u] /\ cur'[u] = cur[u]
    BY <1>1, <2>1, PlaceTypes DEF Goto
  <2>3. Types'
    BY <1>1, <1>4, <1>5, <2>1, <2>2, TypesKept DEF Base, Types
  <2>4. UNCHANGED <<isWaiting, mustStop, lock>>
    BY <1>1 DEF flagVars, maskVars
  <2>5. OthersRest(t)
    BY <2>2, <2>4 DEF OthersRest
  <2>6. Stopping'
    BY <1>1, <2>4, StoppingKept
  <2>7. ~ HoldsLock(t)'
    BY <1>1, <2>1, <2>2 DEF HoldsLock, InLoop, Top
  <2> QED
    BY <1>1, <1>2, <1>5, <2>1, <2>2, <2>3, <2>4, <2>5, <2>6, <2>7, IdleBase
<1> QED
  BY <1>6, <1>7, <1>8

\* A WD leaves its thread.
LEMMA LeaveTaskBase == ASSUME Base, NEW t \in Threads, LeaveTask(t) PROVE Base'
<1>1. /\ jobs[t] = <<>> /\ cur[t] \in done /\ Goto(t, "test")
      /\ UNCHANGED <<flagVars, teamVars, maskVars, jobs, queue, taskVars, progVars>>
  BY DEF LeaveTask, Executes
<1>2. cur[t] \in Tasks
  BY <1>1, TaskFacts DEF Base
<1>3. cur[t] # None /\ cur[t] # Main
  BY <1>2, ConstantFacts
<1>4. pc[t] = "test" /\ lock # t /\ t \notin isWaiting
  BY <1>1, <1>3, ExecFacts
<1>5. t = 0 => phase # "stops"
  BY <1>3, <1>4 DEF Base, Stopping
<1>6. nextWDs \in [Threads -> Seq(Created \cup {Main})]
  BY DEF Base, Types, TReady
<1>7. nextWDs[t] # <<>> =>
        Head(nextWDs[t]) \in Created \cup {Main} /\ Tail(nextWDs[t]) \in Seq(Created \cup {Main})
  BY <1>6, TakeFirst
<1>8. UNCHANGED <<setup, after, tied, released, phase, isWaiting, mustStop, lock>>
  BY <1>1 DEF taskVars, progVars, flagVars, maskVars
<1>9. PICK w \in Created \cup {Main, None} : cur' = [cur EXCEPT ![t] = w]
  BY <1>7 DEF LeaveTask, HasNextWD
<1>10. /\ TWhere' /\ pc'[t] = "test"
       /\ \A u \in Threads \ {t} : pc'[u] = pc[u] /\ cur'[u] = cur[u]
  BY <1>1, <1>9, PlaceTypes DEF Goto
<1>11. TReady'
  BY <1>1, <1>6, <1>7, <1>8 DEF Base, Types, TReady, Created, LeaveTask, HasNextWD
<1>12. Types' /\ Grows
  BY <1>1, <1>8, <1>10, <1>11, TypesKept, NoGrowth DEF Base, Types
<1>13. OthersRest(t)
  BY <1>8, <1>10 DEF OthersRest
<1>14. Stopping'
  BY <1>5, <1>8, <1>10, StoppingKept, ConstantFacts
<1>15. ~ HoldsLock(t)'
  BY <1>1, <1>10 DEF HoldsLock, InLoop, Top
<1> QED
  BY <1>1, <1>4, <1>8, <1>10, <1>12, <1>13, <1>14, <1>15, IdleBase

\* The calls at the end of a task.
LEMMA EndCalls ==
  ASSUME NEW J, J \subseteq JobSet, \A j \in J : j.op \in {"push", "submit", "batch", "exit"},
         NEW r \in Seq(J)
  PROVE  Ordered(r) /\ From(r, <<>>, J) /\ Top(r) \in {"push", "submit", "batch", "exit", "none"}
<1>1. r \in Seq(JobSet) /\ \A k \in DOMAIN r : r[k] \in J
  OBVIOUS
<1>2. r # <<>> => Head(r) \in J
  OBVIOUS
<1> QED
  BY <1>1, <1>2 DEF Ordered, From, Top, Behind

\* The task that finishWork keeps, and the others.
LEMMA KeptFacts ==
  ASSUME Types, NEW t, NEW w
  PROVE  /\ Kept(t, w) # {} => Min(Kept(t, w)) \in Created
         /\ \A others \in InOrder(Successors(w) \ Kept(t, w)) :
              others \in Seq(Created)
<1>1. Successors(w) \subseteq Created /\ Created \subseteq Nat /\ IsFiniteSet(Created)
  <2>1. Len(after) \in Nat /\ Created = 1 .. Len(after)
    BY TaskFacts
  <2> QED
    BY <2>1, FS_Interval DEF Successors
<1>2. {x \in Successors(w) : tied[x] \in {None, t}} \in SUBSET Nat
  BY <1>1
<1>3. Kept(t, w) \subseteq Successors(w)
  <2>1. CASE t \in Sleeping \/ t \notin member \/ {x \in Successors(w) : tied[x] \in {None, t}} = {}
    BY <2>1 DEF Kept
  <2>2. CASE ~ (t \in Sleeping \/ t \notin member \/ {x \in Successors(w) : tied[x] \in {None, t}} = {})
    <3>1. Min({x \in Successors(w) : tied[x] \in {None, t}}) \in Successors(w)
      BY <1>2, <2>2, MinFact
    <3> QED
      BY <2>2, <3>1 DEF Kept
  <2> QED
    BY <2>1, <2>2
<1>4. Kept(t, w) # {} => Min(Kept(t, w)) \in Created
  BY <1>1, <1>3, MinFact
<1>5. ASSUME NEW S, S \subseteq Created, NEW s \in InOrder(S) PROVE s \in Seq(Created)
  <2>1. IsFiniteSet(S)
    BY <1>1, <1>5, FS_Subset
  <2>2. Cardinality(S) \in Nat
    BY <2>1, FS_CardinalityType
  <2> QED
    BY <1>5, <2>2 DEF InOrder
<1> QED
  BY <1>1, <1>3, <1>4, <1>5

\* Only a program in which a task may have several successors releases several at once.
LEMMA OnlyForks ==
  ASSUME Types, NEW w \in Created, NEW K, NEW others \in InOrder(Successors(w) \ K),
         others \in Seq(Created), Len(others) > 1
  PROVE  setup.forks
<1> DEFINE S == Successors(w) \ K
<1>6. others \in {s \in [1 .. Cardinality(S) -> S] :
                   \A i, j \in 1 .. Cardinality(S) : i < j => s[i] < s[j]}
  BY DEF InOrder
<1> HIDE DEF S
<1>1. /\ others \in [1 .. Cardinality(S) -> S]
      /\ \A i, j \in 1 .. Cardinality(S) : i < j => others[i] < others[j]
  BY <1>6
<1>7. DOMAIN others = 1 .. Len(others) /\ Len(others) \in Nat
  OBVIOUS
<1>2. 1 \in DOMAIN others /\ 2 \in DOMAIN others /\ DOMAIN others = 1 .. Cardinality(S)
  BY <1>1, <1>7
<1>3. others[1] \in S /\ others[2] \in S /\ others[1] < others[2]
  BY <1>1, <1>2
<1>4. others[1] \in Created /\ others[2] \in Created /\ others[1] # others[2]
  BY <1>2, <1>3, TaskFacts, ConstantFacts
<1>5. after[others[1]] = w /\ after[others[2]] = w /\ w # None
  BY <1>3, TaskFacts, ConstantFacts DEF Successors, S
<1> QED
  BY <1>4, <1>5 DEF Types, TTasks

\* finishWork releases the successors of the task.
LEMMA FinishWorkBase == ASSUME Base, NEW t \in Threads, FinishWork(t) PROVE Base'
<1>1. PICK w : w = cur[t]
  OBVIOUS
<1>2. /\ jobs[t] = <<>> /\ w \in Created \ released /\ released' = released \cup {w}
      /\ UNCHANGED <<flagVars, teamVars, maskVars, pc, cur, readyVars, after, tied, done, progVars>>
  BY <1>1 DEF FinishWork, Executes
<1>3. PICK others \in InOrder(Successors(w) \ Kept(t, w)) :
        jobs' = [jobs EXCEPT ![t] = (IF Kept(t, w) = {} THEN <<>> ELSE <<AddNextWD(Min(Kept(t, w)), t)>>)
                                      \o Releases(others) \o <<[op |-> "exit", wd |-> w]>>]
  BY <1>1 DEF FinishWork
<1>4. others \in Seq(Created) /\ (Kept(t, w) # {} => Min(Kept(t, w)) \in Created)
  BY KeptFacts DEF Base
<1>5. w \in Tasks /\ w # None
  BY <1>2, TaskFacts, ConstantFacts DEF Base
<1>6. pc[t] = "test" /\ lock # t /\ t \notin isWaiting
  BY <1>1, <1>2, <1>5, ExecFacts
<1>7. UNCHANGED <<setup, after, phase, isWaiting, mustStop, lock>> /\ Created' = Created
  BY <1>2 DEF progVars, flagVars, maskVars, Created
<1>8. Grows
  BY <1>2, <1>7 DEF Grows, Steady
<1>9. TTasks'
  BY <1>2, <1>7, TaskFacts DEF Base, Types, TTasks
<1>10. Types'
  BY <1>2, <1>7, <1>9, TypesKept DEF Base, Types
<1> DEFINE J == {AddNextWD(x, t) : x \in Created} \cup {Submission(x) : x \in Created}
                  \cup {x \in {BatchSubmission(others)} : Len(others) > 1}
                  \cup {[op |-> "exit", wd |-> w]}
<1>11. \A j \in J : j \in JobSet /\ j.op \in {"push", "submit", "batch", "exit"} /\ Sound(t, j)'
  <2>1. \A x \in Created : x \in Tasks
    BY TaskFacts DEF Base
  <2>2. ASSUME NEW x \in Created
        PROVE  LET j == AddNextWD(x, t) IN j \in JobSet /\ j.op = "push" /\ Sound(t, j)
    <3>1. AddNextWD(x, t) \in JobSet
      BY <2>1, JobMade DEF AddNextWD
    <3> QED
      BY <3>1, SoundMade DEF AddNextWD, Base
  <2>3. ASSUME NEW x \in Created
        PROVE  LET j == Submission(x) IN j \in JobSet /\ j.op = "submit" /\ Sound(t, j)
    <3>1. Submission(x) \in JobSet
      BY <2>1, JobMade DEF Submission
    <3> QED
      BY <3>1, SoundMade DEF Submission, Base
  <2>4. PICK e \in JobSet : e = [op |-> "exit", wd |-> w] /\ e.op = "exit" /\ e.wd = w
    BY <1>5, JobMade
  <2>5. Sound(t, e)'
    BY <1>2, <2>4 DEF Sound
  <2>6. \A x \in Created : Sound(t, AddNextWD(x, t))' /\ Sound(t, Submission(x))'
    <3> SUFFICES ASSUME NEW x \in Created PROVE Sound(t, AddNextWD(x, t))' /\ Sound(t, Submission(x))'
      OBVIOUS
    <3>1. PICK j, i : j = AddNextWD(x, t) /\ i = Submission(x) /\ Sound(t, j) /\ Sound(t, i)
      BY <2>2, <2>3
    <3>2. Sound(t, j)' /\ Sound(t, i)'
      BY <1>8, <3>1, SoundKept
    <3> QED
      BY <3>1, <3>2 DEF AddNextWD, Submission
  <2>7. ASSUME Len(others) > 1
        PROVE  LET j == BatchSubmission(others) IN j \in JobSet /\ j.op = "batch" /\ Sound(t, j)'
    <3>1. setup.forks
      BY <1>2, <1>4, <2>7, OnlyForks DEF Base
    <3>2. others \in Seq(Tasks)
      BY <1>4, <2>1
    <3>3. PICK j \in JobSet : j = BatchSubmission(others) /\ j.op = "batch" /\ Sound(t, j)
      BY <1>4, <2>7, <3>1, <3>2, JobMade, SoundMade DEF BatchSubmission, Base
    <3>4. Sound(t, j)'
      BY <1>8, <3>3, SoundKept
    <3> QED
      BY <3>3, <3>4 DEF BatchSubmission
  <2> QED
    BY <2>2, <2>3, <2>4, <2>5, <2>6, <2>7
<1>12. PICK r \in Seq(J) : jobs' = [jobs EXCEPT ![t] = r]
  <2> DEFINE push == IF Kept(t, w) = {} THEN <<>> ELSE <<AddNextWD(Min(Kept(t, w)), t)>>
             subs == Releases(others)
             last == <<[op |-> "exit", wd |-> w]>>
  <2>1. push \in Seq(J)
    <3>1. CASE Kept(t, w) = {}
      BY <3>1
    <3>2. CASE Kept(t, w) # {}
      <4>1. PICK x \in J : x = AddNextWD(Min(Kept(t, w)), t)
        BY <1>4, <3>2
      <4>2. push = <<x>>
        BY <3>2, <4>1
      <4> HIDE DEF J, push
      <4> QED
        BY <4>1, <4>2
    <3> QED
      BY <3>1, <3>2
  <2>2. subs \in Seq(J)
    <3>1. DOMAIN others = 1 .. Len(others) /\ Len(others) \in Nat
      BY <1>4
    <3>2. \A i \in DOMAIN others : Submission(others[i]) \in J
      BY <1>4
    <3>3. CASE Len(others) > 1
      <4>1. PICK x \in J : x = BatchSubmission(others)
        BY <3>3
      <4>2. subs = <<x>>
        BY <3>3, <4>1 DEF Releases
      <4> HIDE DEF J, subs
      <4> QED
        BY <4>1, <4>2
    <3>4. CASE ~ (Len(others) > 1)
      <4>1. subs = [i \in DOMAIN others |-> Submission(others[i])]
        BY <3>4 DEF Releases
      <4> HIDE DEF J, subs
      <4> QED
        BY <3>1, <3>2, <4>1
    <3> QED
      BY <3>3, <3>4
  <2>3. last \in Seq(J)
    OBVIOUS
  <2> HIDE DEF J
  <2>4. push \o subs \o last \in Seq(J)
    <3> HIDE DEF push, subs, last
    <3> QED
      BY <2>1, <2>2, <2>3
  <2> QED
    BY <1>3, <2>4
<1> HIDE DEF J
<1>13. Ordered(r) /\ From(r, <<>>, J) /\ Top(r) \in {"push", "submit", "batch", "exit", "none"}
  BY <1>11, <1>12, EndCalls
<1>14. OthersRest(t)
  BY <1>2, <1>7 DEF OthersRest
<1>15. Stopping'
  BY <1>2, <1>7, StoppingKept
<1> QED
  BY <1>2, <1>6, <1>7, <1>8, <1>10, <1>11, <1>12, <1>13, <1>14, <1>15, RunBase

\* The task leaves the components of the main WD.
LEMMA ExitWorkBase == ASSUME Base, NEW t \in Threads, ExitWork(t) PROVE Base'
<1>1. /\ jobs[t] # <<>> /\ Job(t).op = "exit" /\ done' = done \cup {Job(t).wd}
      /\ phase' \in {"runs", phase} /\ (phase' # phase => phase = "waits")
      /\ UNCHANGED <<flagVars, teamVars, maskVars, pc, cur, readyVars, after, tied, released,
                     setup, calls>>
  BY DEF ExitWork, Doing, Job
<1>2. Job(t).wd \in released
  BY <1>1, CallFacts DEF Sound
<1>3. UNCHANGED <<setup, after, tied, isWaiting, mustStop, lock>> /\ Created' = Created
  BY <1>1 DEF flagVars, maskVars, Created
<1>4. TTasks' /\ TProg' /\ Grows /\ (phase' = "stops" <=> phase = "stops")
  BY <1>1, <1>2, <1>3 DEF Base, Types, TTasks, TProg, Grows, Steady
<1>5. Types'
  BY <1>1, <1>3, <1>4, TypesKept DEF Base, Types
<1>6. CASE Then(t, <<>>)
  BY <1>1, <1>3, <1>4, <1>5, <1>6, ReturnBase
<1>7. CASE Then(t, <<AddNextWD(Main, IF setup.untied THEN t ELSE 0)>>)
  <2>1. PICK x \in Threads : x = IF setup.untied THEN t ELSE 0
    BY ConstantFacts
  <2>2. PICK j : j = AddNextWD(Main, x) /\ j \in JobSet /\ j.op = "push" /\ Sound(t, j)
    <3>1. AddNextWD(Main, x) \in JobSet
      BY JobMade DEF AddNextWD
    <3>2. Sound(t, AddNextWD(Main, x))
      BY <2>1, SoundMade DEF AddNextWD, Base
    <3> QED
      BY <3>1, <3>2 DEF AddNextWD
  <2>3. jobs' = [jobs EXCEPT ![t] = <<j>> \o Tail(jobs[t])]
    BY <1>7, <2>1, <2>2 DEF Then
  <2>4. Sound(t, j)'
    BY <1>4, <2>2, SoundKept
  <2> QED
    BY <1>1, <1>3, <1>4, <1>5, <2>2, <2>3, <2>4, GoOnBase
<1> QED
  BY <1>6, <1>7 DEF ExitWork

\* The main WD creates a task.
LEMMA CreateTaskBase == ASSUME Base, NEW t \in Threads, CreateTask(t) PROVE Base'
<1>1. /\ jobs[t] = <<>> /\ cur[t] = Main /\ Len(after) < setup.tasks
      /\ UNCHANGED <<flagVars, teamVars, maskVars, pc, cur, readyVars, released, done, progVars>>
  BY DEF CreateTask, MainRuns, Executes
<1>2. PICK p \in (Created \ released) \cup {None}, x \in setup.ties \cup {None} :
        /\ p = None \/ setup.forks \/ Successors(p) = {}
        /\ after' = Append(after, p) /\ tied' = Append(tied, x)
        /\ jobs' = [jobs EXCEPT ![t] = IF p = None THEN <<Submission(Len(after) + 1)>> ELSE <<>>]
  BY DEF CreateTask
<1>3. pc[t] = "test" /\ lock # t /\ t \notin isWaiting
  BY <1>1, ExecFacts DEF None, Main
<1>4. UNCHANGED <<setup, released, phase, isWaiting, mustStop, lock>>
  BY <1>1 DEF progVars, flagVars, maskVars
<1>5. /\ Created = 1 .. Len(after) /\ Created \subseteq Tasks /\ Len(after) \in Nat
      /\ Len(after) < MaxTasks /\ Len(tied) = Len(after)
  BY <1>1, TaskFacts, BoundsAssumption DEF Base, Types, TTasks
<1>6. after \in Seq(Tasks \cup {None}) /\ p \in Tasks \cup {None} /\ tied \in Seq(setup.ties \cup {None})
  BY <1>5 DEF Base, Types, TTasks
<1>7. /\ after' \in Seq(Tasks \cup {None}) /\ Len(after') = Len(after) + 1
      /\ tied' \in Seq(setup.ties \cup {None}) /\ Len(tied') = Len(tied) + 1
  BY <1>2, <1>6
<1>8. Created' = 1 .. Len(after) + 1
  BY <1>7 DEF Created
<1>9. Created \subseteq Created' /\ Len(after) + 1 \in Created' /\ Len(after) + 1 \in Tasks
  BY <1>1, <1>5, <1>8, BoundsAssumption DEF Tasks
<1>21. \A w \in Created : tied'[w] = tied[w] /\ after'[w] = after[w]
  BY <1>2, <1>5, <1>6
<1>10. Grows
  BY <1>4, <1>9, <1>21 DEF Grows, Steady
<1>11. TTasks'
  <2>1. Len(after') <= MaxTasks /\ Len(tied') = Len(after')
    BY <1>1, <1>5, <1>7, BoundsAssumption DEF Base, Types, TTasks
  <2>2. ASSUME ~ setup.forks, NEW y \in Created', NEW z \in Created', after'[y] = after'[z],
               after'[y] # None
        PROVE  y = z
    <3>1. after'[Len(after) + 1] = p /\ \A w \in Created' : w \in Created \/ w = Len(after) + 1
      BY <1>2, <1>5, <1>6, <1>8
    <3>2. p # None => \A w \in Created : after[w] # p
      BY <1>2, <2>2 DEF Successors
    <3>3. CASE y \in Created /\ z \in Created
      BY <1>21, <2>2, <3>3 DEF Base, Types, TTasks
    <3>4. CASE y \in Created /\ z = Len(after) + 1
      BY <1>21, <2>2, <3>1, <3>2, <3>4
    <3>5. CASE y = Len(after) + 1 /\ z \in Created
      BY <1>21, <2>2, <3>1, <3>2, <3>5
    <3> QED
      BY <3>1, <3>3, <3>4, <3>5
  <2> QED
    BY <1>1, <1>4, <1>7, <1>9, <2>1, <2>2 DEF Base, Types, TTasks
<1>12. TReady'
  <2>1. \A S, T : S \subseteq T => \A q \in Seq(S) : q \in Seq(T)
    OBVIOUS
  <2>2. UNCHANGED <<queue, nextWDs>> /\ Created \cup {Main} \subseteq Created' \cup {Main}
    BY <1>1, <1>9 DEF readyVars
  <2>3. queue \in Seq(Created') /\ \A u \in Threads : nextWDs[u] \in Seq(Created' \cup {Main})
    BY <1>9, <2>1, <2>2 DEF Base, Types, TReady
  <2>5. \A i \in DOMAIN queue : queue[i] \in Created
    BY DEF Base, Types, TReady
  <2>4. ~ setup.forks => \A i \in DOMAIN queue : tied'[queue[i]] = None
    BY <1>21, <2>5 DEF Base, Types, TReady
  <2> QED
    BY <1>4, <2>2, <2>3, <2>4 DEF Base, Types, TReady
<1>13. Types'
  BY <1>1, <1>4, <1>11, <1>12, TypesKept DEF Base, Types
<1>14. OthersRest(t)
  BY <1>1, <1>4 DEF OthersRest
<1>15. Stopping'
  BY <1>1, <1>4, StoppingKept
<1>16. PICK j \in JobSet : j = Submission(Len(after) + 1) /\ j.op = "submit" /\ j.wd = Len(after) + 1
  BY <1>9, JobMade DEF Submission
<1>17. Sound(t, j)'
  BY <1>9, <1>16 DEF Sound
<1>18. PICK i \in JobSet : i.op = "stable" /\ i.op \in Behind
  BY JobMade DEF Behind
<1>19. CASE p = None
  <2>1. PICK r : r = <<j>>
    OBVIOUS
  <2>2. Ordered(r) /\ From(r, <<>>, {j}) /\ Top(r) = "submit"
    BY <1>16, <1>18, <2>1, Fresh
  <2>3. jobs' = [jobs EXCEPT ![t] = r]
    BY <1>2, <1>16, <1>19, <2>1
  <2> QED
    BY <1>1, <1>3, <1>4, <1>10, <1>13, <1>14, <1>15, <1>17, <2>2, <2>3, RunBase
<1>20. CASE p # None
  <2>1. PICK r, J : r = <<>> /\ J = {}
    OBVIOUS
  <2>2. Ordered(r) /\ From(r, <<>>, J) /\ Top(r) = "none"
    BY <1>18, <2>1, Fresh DEF From
  <2>3. jobs' = [jobs EXCEPT ![t] = r] /\ \A h \in J : Sound(t, h)'
    BY <1>2, <1>20, <2>1
  <2> QED
    BY <1>1, <1>3, <1>4, <1>10, <1>13, <1>14, <1>15, <2>2, <2>3, RunBase
<1> QED
  BY <1>19, <1>20

\* The program sets the mask of active CPUs.
LEMMA SetMaskBase == ASSUME Base, NEW t \in Threads, SetCpuActiveMask(t) PROVE Base'
<1>1. /\ jobs[t] = <<>> /\ cur[t] = Main /\ calls < MaxCalls /\ calls' = calls + 1
      /\ jobs' = [jobs EXCEPT ![t] = <<[op |-> "apply", cpus |-> Cpus, held |-> FALSE]>>]
      /\ UNCHANGED <<flagVars, teamVars, lock, pc, cur, readyVars, taskVars, setup, phase>>
  BY DEF SetCpuActiveMask, MainRuns, Executes
<1>2. PICK M \in setup.masks : activeMask' = WithMaster(M)
  BY DEF SetCpuActiveMask
<1>3. pc[t] = "test" /\ lock # t /\ t \notin isWaiting
  BY <1>1, ExecFacts DEF None, Main
<1>4. UNCHANGED <<setup, after, tied, released, phase, isWaiting, mustStop, lock>>
  BY <1>1 DEF taskVars, flagVars
<1>5. TMask' /\ TProg' /\ Grows
  <2>1. M \subseteq Cpus /\ CpuOf[0] \in Cpus
    BY TaskFacts, ConstantFacts DEF Base
  <2>2. TMask'
    BY <1>2, <1>4, <2>1 DEF Base, Types, TMask, WithMaster
  <2>3. TProg'
    BY <1>1, <1>4, BoundsAssumption DEF Base, Types, TProg
  <2> QED
    BY <1>4, <2>2, <2>3, NoGrowth
<1>6. Types'
  BY <1>1, <1>4, <1>5, TypesKept DEF Base, Types
<1>7. OthersRest(t) /\ Stopping'
  BY <1>1, <1>4, StoppingKept DEF OthersRest
<1>8. PICK j \in JobSet : j = [op |-> "apply", cpus |-> Cpus, held |-> FALSE] /\ Sound(t, j)
  <2>1. Cpus \in SUBSET Cpus /\ FALSE \in BOOLEAN /\ setup.masks # {}
    BY <1>2
  <2> QED
    BY <2>1, SoundMade, JobMade DEF Base
<1>9. PICK i \in JobSet : i.op = "stable" /\ i.op \in Behind
  BY JobMade DEF Behind
<1>10. PICK r, J : r = <<j>> /\ J = {j}
  OBVIOUS
<1>11. Ordered(r) /\ From(r, <<>>, J) /\ Top(r) = "apply" /\ ~ Head(r).held
  <2>1. j.op = "apply" /\ ~ j.held /\ Head(r) = j
    BY <1>8, <1>10
  <2> QED
    BY <1>9, <1>10, <2>1, Fresh
<1>12. jobs' = [jobs EXCEPT ![t] = r] /\ \A h \in J : Sound(t, h)'
  BY <1>1, <1>5, <1>8, <1>10, SoundKept
<1> QED
  BY <1>1, <1>3, <1>4, <1>5, <1>6, <1>7, <1>11, <1>12, RunBase

\* The program sets the number of threads.
LEMMA SetNumBase == ASSUME Base, NEW t \in Threads, SetNumThreads(t) PROVE Base'
<1>1. /\ jobs[t] = <<>> /\ cur[t] = Main /\ calls < MaxCalls /\ calls' = calls + 1
      /\ UNCHANGED <<flagVars, teamVars, maskVars, pc, cur, readyVars, taskVars, setup, phase>>
  BY DEF SetNumThreads, MainRuns, Executes
<1>2. PICK n \in setup.sizes :
        jobs' = [jobs EXCEPT ![t] = <<[op |-> "stable"], [op |-> "resize", n |-> n, i |-> 0]>>]
  BY DEF SetNumThreads
<1>3. pc[t] = "test" /\ lock # t /\ t \notin isWaiting
  BY <1>1, ExecFacts DEF None, Main
<1>4. UNCHANGED <<setup, after, tied, released, phase, isWaiting, mustStop, lock>>
  BY <1>1 DEF taskVars, flagVars, maskVars
<1>5. TProg' /\ Grows
  BY <1>1, <1>4, NoGrowth, BoundsAssumption DEF Base, Types, TProg
<1>6. Types'
  BY <1>1, <1>4, <1>5, TypesKept DEF Base, Types
<1>7. OthersRest(t) /\ Stopping'
  BY <1>1, <1>4, StoppingKept DEF OthersRest
<1>8. PICK j \in JobSet : j = [op |-> "stable"] /\ Sound(t, j)
  BY SoundMade, JobMade DEF Base
<1>9. PICK i \in JobSet : i = [op |-> "resize", n |-> n, i |-> 0] /\ Sound(t, i) /\ i.op = "resize"
  <2>1. n \in Nat \ {0} /\ 0 \in Threads /\ setup.sizes # {}
    BY <1>2, TaskFacts, ConstantFacts DEF Base
  <2> QED
    BY <2>1, SoundMade, JobMade DEF Base
<1>10. PICK r, J : r = <<j, i>> /\ J = {j, i}
  OBVIOUS
<1>11. Ordered(r) /\ From(r, <<>>, J) /\ Top(r) = "stable"
  <2>1. j.op = "stable" /\ i.op \in Behind
    BY <1>8, <1>9 DEF Behind
  <2> QED
    BY <1>9, <1>10, <2>1, Fresh
<1>12. jobs' = [jobs EXCEPT ![t] = r] /\ \A h \in J : Sound(t, h)'
  BY <1>2, <1>5, <1>8, <1>9, <1>10, SoundKept
<1> QED
  BY <1>1, <1>3, <1>4, <1>5, <1>6, <1>7, <1>11, <1>12, RunBase

\* The program waits until the team is stable.
LEMMA AwaitBase == ASSUME Base, NEW t \in Threads, AwaitStable(t) PROVE Base'
<1>1. /\ jobs[t] # <<>> /\ Job(t).op = "stable" /\ Then(t, <<>>)
      /\ UNCHANGED <<flagVars, teamVars, maskVars, pc, cur, readyVars, taskVars, progVars>>
  BY DEF AwaitStable, Doing, Job
<1>2. UNCHANGED <<setup, after, tied, released, phase, calls, isWaiting, mustStop, lock>>
  BY <1>1 DEF progVars, taskVars, flagVars, maskVars
<1>3. Types' /\ Grows
  BY <1>1, <1>2, TypesKept, NoGrowth DEF Base, Types
<1> QED
  BY <1>1, <1>2, <1>3, ReturnBase

\* SetNumThreads has come to a worker.
LEMMA UpdateBase == ASSUME Base, NEW t \in Threads, UpdateWorker(t) PROVE Base'
<1>1. /\ jobs[t] # <<>> /\ Job(t).op = "resize"
      /\ UNCHANGED <<maskVars, pc, cur, readyVars, taskVars, progVars>>
  BY DEF UpdateWorker, Doing, Job
<1>2. Job(t) \in JobSet /\ Job(t).n \in Nat \ {0} /\ Job(t).i \in Threads /\ setup.sizes # {}
  BY <1>1, CallFacts, JobFacts DEF Sound
<1>3. PICK i \in Threads : i = Job(t).i
  BY <1>2
<1>4. /\ TryWakeUp({i}) \/ LeaveAndSleep(i)
      /\ Then(t, IF i + 1 \in Threads THEN <<[Job(t) EXCEPT !.i = i + 1]>> ELSE <<>>)
  BY <1>3 DEF UpdateWorker
<1>5. UNCHANGED <<setup, after, tied, released, phase, calls, isWaiting, mustStop, lock>>
  BY <1>1, <1>4 DEF progVars, taskVars, maskVars, TryWakeUp, LeaveAndSleep
<1>6. TFlags' /\ TTeam'
  BY <1>4, FlagTypes DEF Base
<1>7. Types' /\ Grows
  BY <1>1, <1>5, <1>6, TypesKept, NoGrowth DEF Base, Types
<1>8. CASE i + 1 \in Threads
  <2>1. PICK n \in Nat \ {0}, x \in Threads : n = Job(t).n /\ x = i + 1
    BY <1>2, <1>8
  <2>2. PICK j \in JobSet : j = [op |-> "resize", n |-> n, i |-> x] /\ Sound(t, j) /\ j.op = "resize"
    BY <1>2, SoundMade, JobMade DEF Base
  <2>3. [Job(t) EXCEPT !.i = i + 1] = j
    BY <1>1, <1>2, <2>1, <2>2, JobGoesOn
  <2>4. jobs' = [jobs EXCEPT ![t] = <<j>> \o Tail(jobs[t])]
    BY <1>4, <1>8, <2>3 DEF Then
  <2>5. Sound(t, j)'
    BY <1>7, <2>2, SoundKept
  <2> QED
    BY <1>1, <1>5, <1>7, <2>2, <2>4, <2>5, GoOnBase
<1>9. CASE i + 1 \notin Threads
  <2>1. Then(t, <<>>)
    BY <1>4, <1>9
  <2> QED
    BY <1>1, <1>5, <1>7, <2>1, ReturnBase
<1> QED
  BY <1>8, <1>9

\* The main WD ends the program.
LEMMA ShutdownBase == ASSUME Base, NEW t \in Threads, Shutdown(t) PROVE Base'
<1>1. /\ jobs[t] = <<>> /\ cur[t] = Main /\ phase = "runs" /\ phase' = "ends" /\ TryWakeUp({0})
      /\ UNCHANGED <<maskVars, readyVars, taskVars, setup, calls>>
  BY DEF Shutdown, MainRuns, Executes
<1>2. pc[t] = "test" /\ lock # t /\ t \notin isWaiting
  BY <1>1, ExecFacts DEF None, Main
<1>3. UNCHANGED <<setup, after, tied, released, isWaiting, mustStop, lock>>
  BY <1>1 DEF taskVars, maskVars, TryWakeUp
<1>4. TProg' /\ Grows /\ (Steady' => ~ setup.untied)
  BY <1>1, <1>3 DEF Base, Types, TProg, Grows, Steady, Created
<1>5. TFlags' /\ TTeam'
  BY <1>1, FlagTypes, ConstantFacts DEF Base
<1>6. CASE t = 0
  <2>1. UNCHANGED <<cur, jobs, pc>>
    BY <1>6 DEF Shutdown
  <2>2. Types'
    BY <1>1, <1>3, <1>4, <1>5, <2>1, TypesKept DEF Base, Types
  <2>3. OthersRest(t) /\ Stopping'
    BY <1>1, <1>3, <2>1, StoppingKept DEF OthersRest
  <2>4. ~ HoldsLock(t)'
    BY <1>1, <1>2, <2>1 DEF HoldsLock, InLoop, Top
  <2> QED
    BY <1>1, <1>2, <1>3, <1>4, <2>1, <2>2, <2>3, <2>4, IdleBase
<1>7. CASE t # 0
  <2>1. /\ cur' = [cur EXCEPT ![t] = None] /\ Goto(t, "test")
        /\ jobs' = [jobs EXCEPT ![t] = <<AddNextWD(Main, 0)>>]
    BY <1>7 DEF Shutdown
  <2>2. /\ TWhere' /\ pc'[t] = "test"
        /\ \A u \in Threads \ {t} : pc'[u] = pc[u] /\ cur'[u] = cur[u]
    BY <2>1, PlaceTypes DEF Goto
  <2>3. Types'
    BY <1>1, <1>3, <1>4, <1>5, <2>2, TypesKept DEF Base, Types
  <2>4. OthersRest(t) /\ Stopping'
    BY <1>1, <1>3, <2>2, StoppingKept DEF OthersRest
  <2>5. PICK j \in JobSet : j = AddNextWD(Main, 0) /\ j.op = "push" /\ j.to = 0 /\ j.wd = Main
    <3>1. AddNextWD(Main, 0) \in JobSet
      BY JobMade, ConstantFacts DEF AddNextWD
    <3> QED
      BY <3>1 DEF AddNextWD
  <2>6. Sound(t, j)'
    BY <1>3, <1>4, <2>5 DEF Sound
  <2>7. PICK i \in JobSet : i.op = "stable" /\ i.op \in Behind
    BY JobMade DEF Behind
  <2>8. PICK r, J : r = <<j>> /\ J = {j}
    OBVIOUS
  <2>9. Ordered(r) /\ From(r, <<>>, J) /\ Top(r) = "push"
    BY <2>5, <2>7, <2>8, Fresh
  <2>10. jobs' = [jobs EXCEPT ![t] = r] /\ \A h \in J : Sound(t, h)'
    BY <2>1, <2>5, <2>6, <2>8
  <2> QED
    BY <1>1, <1>2, <1>3, <1>4, <2>2, <2>3, <2>4, <2>6, <2>9, <2>10, RunBase
<1> QED
  BY <1>6, <1>7

\* The main WD has come to the main thread.
LEMMA OnMainThreadBase == ASSUME Base, OnMainThread PROVE Base'
<1>1. /\ jobs[0] = <<>> /\ cur[0] = Main /\ phase = "ends" /\ phase' = "stops"
      /\ jobs' = [jobs EXCEPT ![0] = <<Unblock(0), [op |-> "stable"], StopRest(Cpus)>>]
      /\ UNCHANGED <<flagVars, teamVars, maskVars, pc, cur, readyVars, taskVars, setup, calls>>
      /\ 0 \in Threads
  BY ConstantFacts DEF OnMainThread, Executes
<1>2. pc[0] = "test" /\ lock # 0 /\ 0 \notin isWaiting
  BY <1>1, ExecFacts DEF None, Main
<1>3. UNCHANGED <<setup, after, tied, released, isWaiting, mustStop, lock>>
  BY <1>1 DEF taskVars, maskVars, flagVars
<1>4. TProg' /\ Grows
  BY <1>1, <1>3 DEF Base, Types, TProg, Grows, Steady, Created
<1>5. Types'
  BY <1>1, <1>3, <1>4, TypesKept DEF Base, Types
<1>6. OthersRest(0) /\ Stopping'
  BY <1>1, <1>3 DEF OthersRest, Stopping, Base
<1>7. PICK j \in JobSet : j = Unblock(0) /\ j.op = "unblock" /\ Sound(0, j)
  BY <1>1, JobMade, SoundMade DEF Unblock, Base
<1>8. PICK i \in JobSet : i = [op |-> "stable"] /\ i.op = "stable" /\ Sound(0, i)
  BY <1>1, JobMade, SoundMade DEF Base
<1>9. PICK h \in JobSet : h = StopRest(Cpus) /\ h.op = "stop"
  <2>1. Cpus \in SUBSET Cpus
    OBVIOUS
  <2> QED
    BY <2>1, JobMade DEF StopRest
<1>10. Sound(0, h)'
  BY <1>1, <1>9 DEF Sound
<1>11. PICK r, J : r = <<j, i, h>> /\ J = {j, i, h}
  OBVIOUS
<1>12. Ordered(r) /\ From(r, <<>>, J) /\ Top(r) = "unblock"
  <2>1. i.op \in Behind /\ h.op \in Behind
    BY <1>8, <1>9 DEF Behind
  <2> QED
    BY <1>7, <1>8, <1>11, <2>1, Fresh
<1>13. jobs' = [jobs EXCEPT ![0] = r] /\ \A e \in J : Sound(0, e)'
  BY <1>1, <1>4, <1>7, <1>8, <1>9, <1>10, <1>11, SoundKept
<1> QED
  BY <1>1, <1>2, <1>3, <1>4, <1>5, <1>6, <1>12, <1>13, RunBase

\* The threads are told to stop.
LEMMA StopThreadsBase == ASSUME Base, StopThreads PROVE Base'
<1>1. /\ jobs[0] # <<>> /\ Job(0).op = "stop" /\ Job(0).cpus # {} /\ 0 \in Threads
      /\ UNCHANGED <<isWaiting, mustLeave, teamVars, maskVars, pc, cur, readyVars, taskVars,
                     progVars>>
  BY ConstantFacts DEF StopThreads, Doing, Job
<1>2. Job(0).cpus \in SUBSET Cpus /\ phase = "stops" /\ pc[0] = "test" /\ lock # 0 /\ 0 \notin isWaiting
  BY <1>1, CallFacts, JobFacts, LockOfCall DEF Sound
<1>3. PICK c \in Cpus : c = Min(Job(0).cpus)
  BY <1>1, <1>2, MinFact, ConstantFacts
<1>4. PICK X \in SUBSET Threads : X = ThreadsOf(c) \ {0}
  BY <1>3, ConstantFacts
<1>5. /\ mustStop' = mustStop \cup X /\ mustSleep' = mustSleep \ (X \cap isWaiting)
      /\ Then(0, <<[op |-> "join", threads |-> X], StopRest(Job(0).cpus \ {c})>>)
  BY <1>3, <1>4 DEF StopThreads
<1>6. UNCHANGED <<setup, after, tied, released, phase, calls, isWaiting, lock>>
  BY <1>1 DEF progVars, taskVars, maskVars
<1>7. TFlags'
  BY <1>1, <1>4, <1>5 DEF Base, Types, TFlags
<1>8. Types' /\ Grows
  BY <1>1, <1>6, <1>7, TypesKept, NoGrowth DEF Base, Types
<1>9. Stopping' /\ OthersRest(0)
  BY <1>1, <1>2, <1>4, <1>5, <1>6 DEF Base, Stopping, OthersRest
<1>10. PICK j \in JobSet : j = [op |-> "join", threads |-> X] /\ j.op = "join" /\ Sound(0, j)
  BY <1>1, JobMade, SoundMade DEF Base
<1>11. PICK C \in SUBSET Cpus : C = Job(0).cpus \ {c}
  BY <1>2
<1>12. PICK i \in JobSet : i = StopRest(C) /\ i.op = "stop" /\ Sound(0, i)
  BY <1>1, <1>2, JobMade, SoundMade DEF StopRest, Base
<1>13. PICK r, J : r = <<j, i>> \o Tail(jobs[0]) /\ J = {j, i}
  OBVIOUS
<1>14. Ordered(r) /\ From(r, jobs[0], J) /\ Top(r) = "join"
  <2>1. Ordered(jobs[0]) /\ Tail(jobs[0]) = <<>>
    <3>1. Ordered(jobs[0]) /\ Job(0) = Head(jobs[0])
      BY <1>1, CallFacts DEF Job
    <3>2. <<>> \o Tail(jobs[0]) = <<>> /\ jobs[0] \in Seq(JobSet)
      BY <1>1, <3>1, ThenNothing DEF Ordered
    <3> QED
      BY <1>1, <3>1, <3>2
  <2>2. i.op \in Behind /\ j.op # "stop"
    BY <1>10, <1>12 DEF Behind
  <2> QED
    BY <1>1, <1>10, <1>13, <2>1, <2>2, ThenTwo DEF Top
<1>15. jobs' = [jobs EXCEPT ![0] = r] /\ \A h \in J : Sound(0, h)'
  BY <1>5, <1>8, <1>10, <1>11, <1>12, <1>13, SoundKept DEF Then
<1>16. Good(0, r)'
  <2>1. PICK q : q = jobs[0] /\ Good(0, q) /\ From(r, q, J)
    BY <1>1, <1>14, CallFacts
  <2> QED
    BY <1>8, <1>14, <1>15, <2>1, GoodNext
<1>17. ~ HoldsLock(0)'
  <2>1. jobs'[0] = r
    BY <1>1, <1>15 DEF Base
  <2> QED
    BY <1>1, <1>2, <1>14, <2>1 DEF HoldsLock, InLoop
<1> QED
  BY <1>1, <1>2, <1>6, <1>8, <1>9, <1>15, <1>16, <1>17, StepBase

\* The main thread joins the others.
LEMMA JoinBase == ASSUME Base, Join PROVE Base'
<1>1. /\ jobs[0] # <<>> /\ Job(0).op = "join" /\ Then(0, <<>>) /\ 0 \in Threads
      /\ UNCHANGED <<flagVars, teamVars, maskVars, pc, cur, readyVars, taskVars, progVars>>
  BY ConstantFacts DEF Join, Doing, Job
<1>2. UNCHANGED <<setup, after, tied, released, phase, calls, isWaiting, mustStop, lock>>
  BY <1>1 DEF progVars, taskVars, flagVars, maskVars
<1>3. Types' /\ Grows
  BY <1>1, <1>2, TypesKept, NoGrowth DEF Base, Types
<1> QED
  BY <1>1, <1>2, <1>3, ReturnBase

\* The main thread leaves its team: the program has ended.
LEMMA EndMainBase == ASSUME Base, EndMain PROVE Base'
<1>1. /\ jobs[0] # <<>> /\ Job(0).op = "stop" /\ Goto(0, "ended") /\ Finish(0) /\ Then(0, <<>>)
      /\ cur' = [cur EXCEPT ![0] = None] /\ 0 \in Threads
      /\ UNCHANGED <<mustSleep, isWaiting, mustStop, nextTeam, maskVars, readyVars, taskVars,
                     progVars>>
  BY ConstantFacts DEF EndMain, Doing, Job
<1>2. pc[0] = "test" /\ lock # 0 /\ 0 \notin isWaiting /\ Ordered(jobs[0])
  BY <1>1, CallFacts, LockOfCall
<1>3. UNCHANGED <<setup, after, tied, released, phase, calls, lock>>
  BY <1>1 DEF progVars, taskVars, maskVars
<1>4. TFlags' /\ TTeam'
  BY <1>1 DEF Finish, Base, Types, TFlags, TTeam
<1>5. TWhere' /\ pc'[0] = "ended" /\ cur'[0] = None
      /\ \A u \in Threads \ {0} : pc'[u] = pc[u] /\ cur'[u] = cur[u]
  BY <1>1 DEF Base, Types, TWhere, Goto, PCs
<1>6. Types' /\ Grows
  BY <1>1, <1>3, <1>4, <1>5, TypesKept, NoGrowth DEF Base, Types
<1>7. Stopping' /\ OthersRest(0)
  BY <1>1, <1>3, <1>5 DEF Base, Stopping, OthersRest
<1>8. PICK r : r = <<>>
  OBVIOUS
<1>9. jobs' = [jobs EXCEPT ![0] = r]
  <2>1. <<>> \o Tail(jobs[0]) = <<>>
    BY <1>1, <1>2, ThenNothing DEF Job
  <2> QED
    BY <1>1, <1>8, <2>1 DEF Then
<1>10. Good(0, r)'
  BY <1>8 DEF Good, Ordered
<1>11. ~ HoldsLock(0)'
  <2>1. jobs'[0] = r
    BY <1>1, <1>9 DEF Base
  <2> QED
    BY <1>5, <1>8, <2>1 DEF HoldsLock, InLoop, Top
<1> QED
  BY <1>1, <1>2, <1>3, <1>5, <1>6, <1>7, <1>8, <1>9, <1>10, <1>11, StepBase

-----------------------------------------------------------------------------
(* The first theorem.                                                      *)

LEMMA InitBase == Init => Base
<1> SUFFICES ASSUME Init PROVE Base
  OBVIOUS
<1>1. setup \in Setups /\ setup.ties \subseteq Threads /\ 0 \in Threads /\ MaxCalls \in Nat /\ MaxTasks \in Nat
  BY SetupsAssumption, ConstantFacts DEF Init
<1>2. TFlags /\ TTeam /\ TMask
  BY DEF Init, TFlags, TTeam, TMask
<1>3. TWhere
  BY DEF Init, TWhere, PCs
<1>4. TTasks /\ Created = {}
  BY <1>1 DEF Init, TTasks, Created
<1>5. TReady /\ TProg
  BY <1>1, <1>4 DEF Init, TReady, TProg
<1>6. Ordered(<<>>) /\ Top(<<>>) = "none" /\ \A t : Good(t, <<>>)
  BY DEF Ordered, Top, Good
<1>7. jobs \in [Threads -> Seq(JobSet)] /\ \A t \in Threads : jobs[t] = <<>>
  BY DEF Init
<1>8. Where
  BY <1>6, <1>7 DEF Init, Where
<1>9. \A t \in Threads : ~ HoldsLock(t) /\ lock # t
  BY <1>6, <1>7, ConstantFacts DEF Init, HoldsLock, InLoop
<1>10. Locking
  BY <1>9 DEF Locking
<1>11. Stopping
  BY DEF Init, Stopping
<1> QED
  BY <1>2, <1>3, <1>4, <1>5, <1>7, <1>8, <1>10, <1>11 DEF Base, Types

\* Every step of a thread keeps it.
LEMMA StepKeepsBase == ASSUME Base, NEW t \in Threads, Step(t) PROVE Base'
<1>1. CASE Calls(t)
  BY <1>1, SubmitBase, EnqueueBase, QueueBatchBase, UnblockNextBase, PushBase, UnblockTestBase, UnblockWakeBase, UnblockStatusBase,
     AcquireBase, ApplyBase, AppliedBase DEF Calls
<1>2. CASE IdleLoop(t)
  BY <1>2, SleepTestBase, WaitBase, ResumeBase, EndThreadBase, GetNextBase, GetReadyBase,
     GetNothingBase, BlockThreadBase, BlockSleepBase, BlockStatusBase DEF IdleLoop
<1>3. CASE TaskEnd(t)
  BY <1>3, FinishWorkBase, ExitWorkBase, LeaveTaskBase DEF TaskEnd
<1>4. CASE MainWD(t)
  BY <1>4, CreateTaskBase, SetMaskBase, SetNumBase, AwaitBase, UpdateBase, TaskWaitBase,
     ShutdownBase DEF MainWD
<1>5. CASE Ending
  BY <1>5, OnMainThreadBase, StopThreadsBase, JoinBase, EndMainBase DEF Ending
<1> QED
  BY <1>1, <1>2, <1>3, <1>4, <1>5 DEF Step

\* Nothing happens.
LEMMA StutterBase == ASSUME Base, UNCHANGED vars PROVE Base'
<1>1. PICK t \in Threads : TRUE
  BY ConstantFacts
<1>2. /\ UNCHANGED <<flagVars, teamVars, maskVars, readyVars, taskVars, progVars>>
      /\ UNCHANGED <<pc, cur, jobs>>
  BY DEF vars
<1>3. UNCHANGED <<setup, after, tied, released, phase, isWaiting, mustStop, lock>>
  BY <1>2 DEF progVars, taskVars, flagVars, maskVars
<1>4. Types' /\ Grows /\ OthersRest(t)
  BY <1>2, <1>3, TypesKept, NoGrowth DEF Base, Types, OthersRest
<1>5. Stopping'
  BY <1>2, <1>3, StoppingKept
<1>6. HoldsLock(t)' <=> lock' = t
  <2>1. HoldsLock(t) <=> lock = t
    BY DEF Base, Locking
  <2> QED
    BY <1>2, <1>3, <2>1 DEF HoldsLock, Job, InLoop
<1>7. (cur[t] # None \/ jobs[t] # <<>> => pc[t] = "test") /\ (t \in isWaiting => pc[t] = "blocked")
  BY DEF Base, Where
<1> QED
  BY <1>2, <1>3, <1>4, <1>5, <1>6, <1>7, IdleBase

\* Every step keeps it.
LEMMA NextBase == Base /\ [Next]_vars => Base'
BY StepKeepsBase, StutterBase DEF Next

\* Places, calls and lock.
LEMMA Bases == Spec => []Base
BY InitBase, NextBase, PTL DEF Spec

\* The variables have their types for every team and every program: among them, the thread
\* that updates the status of a CPU holds the lock of ThreadManager, and a thread that waits
\* is in no call.
THEOREM TypeCorrect == Spec => []TypeOK
<1>1. Base => TypeOK
  <2> SUFFICES ASSUME Base PROVE TypeOK
    OBVIOUS
  <2>1. Types /\ Where /\ Locking
    BY DEF Base
  <2>2. Created = 1 .. Len(after) /\ DOMAIN tied = Created
    BY <2>1, TaskFacts
  <2>3. cur \in [Threads -> 0 .. MaxTasks \cup {None}]
    BY <2>1, BoundsAssumption DEF Types, TWhere, Tasks, Main, None
  <2>4. ASSUME NEW t \in Threads
        PROVE  /\ lock # t => ~ (jobs[t] # <<>> /\ Head(jobs[t]).op = "status")
               /\ jobs[t] # <<>> => pc[t] # "blocked"
    <3>1. jobs[t] # <<>> => pc[t] = "test"
      BY <2>1 DEF Where
    <3>2. jobs[t] # <<>> /\ Head(jobs[t]).op = "status" => lock = t
      BY <2>1 DEF Locking, HoldsLock, Top
    <3> QED
      BY <3>1, <3>2
  <2> QED
    BY <2>1, <2>2, <2>3, <2>4
    DEF TypeOK, Types, TFlags, TTeam, TMask, TWhere, TReady, TTasks, TProg, PCs
<1> QED
  BY <1>1, Bases, PTL

-----------------------------------------------------------------------------
(* Who is awake: the mask of active CPUs and the threads.                  *)

\* A tied main WD keeps the main thread awake and its CPU active.
MainAwake ==
  ~ setup.untied =>
    0 \notin mustSleep /\ CpuOf[0] \in activeMask /\ pc[0] \notin {"block", "sleep", "status"}

\* Some thread is to apply the mask to the CPU c, has gone to sleep on it and is to
\* update its status, or has woken up a thread of it and is to update its status.
Applying(c) == \E t \in Threads : Top(jobs[t]) = "apply" /\ c \in Job(t).cpus
Dozing(c) == \E t \in Threads : InLoop(t, "status") /\ c = CpuOf[t]
Updating(c) == \E t \in Threads : Top(jobs[t]) = "status" /\ c = Job(t).cpu

\* Unless the program changes the team: some CPU is active, and an active CPU has a thread
\* that runs, or somebody who holds the lock is about to see to it.
Masked ==
  NoCalls /\ mustStop = {} =>
    /\ activeMask # {}
    /\ \A c \in activeMask : RunningThreads(c) # {} \/ Applying(c) \/ Dozing(c)
    /\ \A c \in Cpus : Updating(c) => RunningThreads(c) # {}
    /\ \A t \in Threads : InLoop(t, "sleep") \/ InLoop(t, "status") => activeMask # {CpuOf[t]}

\* And no thread of another CPU runs.
Dark ==
  NoCalls /\ Steady => \A c \in Cpus \ activeMask : RunningThreads(c) = {} \/ Updating(c)

\* The part of the invariant that says who sleeps.
Awake == MainAwake /\ Masked /\ Dark

\* Only the thread that holds the lock sees to CPUs.
OnlyHolder ==
  NoCalls => \A t \in Threads : lock \in {t, None} =>
    /\ \A c : Applying(c) <=> Top(jobs[t]) = "apply" /\ c \in Job(t).cpus
    /\ \A c : Dozing(c) <=> InLoop(t, "status") /\ c = CpuOf[t]
    /\ \A c : Updating(c) <=> Top(jobs[t]) = "status" /\ c = Job(t).cpu
    /\ \A u \in Threads : InLoop(u, "sleep") \/ InLoop(u, "status") => u = t

\* A thread that sees to a CPU, or is about to sleep, holds the lock.
LEMMA Holders ==
  ASSUME Base, NoCalls, NEW t \in Threads,
         Top(jobs[t]) \in {"status", "apply"} \/ InLoop(t, "sleep") \/ InLoop(t, "status")
  PROVE  lock = t
<1>1. CASE Top(jobs[t]) \in {"status", "apply"}
  <2>1. jobs[t] # <<>> /\ Job(t).op \in {"status", "apply"}
    BY <1>1 DEF Top, Job
  <2>2. Job(t).op = "apply" => Job(t).held
    BY <2>1, CallFacts DEF Sound, NoCalls
  <2> QED
    BY <2>1, <2>2, LockOfCall
<1>2. CASE InLoop(t, "sleep") \/ InLoop(t, "status")
  BY <1>2, LoopFacts
<1> QED
  BY <1>1, <1>2

\* So it is the only one.
LEMMA OnlyHolders == Base => OnlyHolder
<1> SUFFICES ASSUME Base, NoCalls, NEW t \in Threads, lock \in {t, None}
             PROVE  /\ \A c : Applying(c) <=> Top(jobs[t]) = "apply" /\ c \in Job(t).cpus
                    /\ \A c : Dozing(c) <=> InLoop(t, "status") /\ c = CpuOf[t]
                    /\ \A c : Updating(c) <=> Top(jobs[t]) = "status" /\ c = Job(t).cpu
                    /\ \A u \in Threads : InLoop(u, "sleep") \/ InLoop(u, "status") => u = t
  BY DEF OnlyHolder
<1>1. ASSUME NEW u \in Threads,
             Top(jobs[u]) \in {"status", "apply"} \/ InLoop(u, "sleep") \/ InLoop(u, "status")
      PROVE  u = t
  <2>1. lock = u
    BY <1>1, Holders
  <2> QED
    BY <2>1, ConstantFacts
<1> QED
  BY <1>1 DEF Applying, Dozing, Updating

\* A step of thread t that has nothing to do with the lock, the mask and who is to sleep.
Calm(t) ==
  /\ UNCHANGED <<mustSleep, mustStop, activeMask, lock, setup>> /\ lock # t
  /\ pc'[t] = "block" => t # 0 \/ setup.untied
  /\ Steady' => Steady
  /\ \A u \in Threads \ {t} : jobs'[u] = jobs[u] /\ cur'[u] = cur[u] /\ pc'[u] = pc[u]

\* Whoever sees to CPUs holds the lock.
SeenTo ==
  NoCalls => \A t \in Threads :
    Top(jobs[t]) \in {"status", "apply"} \/ InLoop(t, "sleep") \/ InLoop(t, "status") => lock = t

\* The same, as a fact about a state.
LEMMA AllHolders == Base => SeenTo
BY Holders DEF SeenTo

\* The same in the next state: a thread without the lock sees to no CPU.
LEMMA HoldersNext ==
  ASSUME Base', NoCalls', NEW t \in Threads, lock' # t
  PROVE  /\ ~ InLoop(t, "sleep")' /\ ~ InLoop(t, "status")'
         /\ Top(jobs[t])' \notin {"status", "apply"}
<1>1. SeenTo'
  BY AllHolders, PTL
<1> QED
  BY <1>1 DEF SeenTo

\* Thread t does not hold the lock: nothing changes about who does.
LEMMA SameHolders ==
  ASSUME Base, Base', NEW t \in Threads, lock # t, UNCHANGED <<lock, setup>>,
         \A u \in Threads \ {t} : jobs'[u] = jobs[u] /\ cur'[u] = cur[u] /\ pc'[u] = pc[u]
  PROVE  /\ NoCalls' <=> NoCalls
         /\ NoCalls => \A c : /\ Applying(c)' <=> Applying(c)
                              /\ Dozing(c)' <=> Dozing(c)
                              /\ Updating(c)' <=> Updating(c)
         /\ NoCalls => \A u \in Threads : /\ InLoop(u, "sleep")' <=> InLoop(u, "sleep")
                                          /\ InLoop(u, "status")' <=> InLoop(u, "status")
         /\ pc'[t] \in {"sleep", "status"} => pc[t] = pc'[t]
<1>1. NoCalls' <=> NoCalls
  BY DEF NoCalls
<1>2. ASSUME NEW u \in Threads \ {t}
      PROVE  /\ Top(jobs[u])' = Top(jobs[u]) /\ Job(u)' = Job(u)
             /\ \A w : InLoop(u, w)' <=> InLoop(u, w)
  BY DEF Top, Job, InLoop
<1>3. NoCalls => /\ ~ InLoop(t, "sleep") /\ ~ InLoop(t, "status")
                 /\ Top(jobs[t]) \notin {"status", "apply"}
  BY Holders
<1>4. NoCalls => /\ ~ InLoop(t, "sleep")' /\ ~ InLoop(t, "status")'
                 /\ Top(jobs[t])' \notin {"status", "apply"}
  BY <1>1, HoldersNext
<1>5. NoCalls => \A c : /\ Applying(c)' <=> Applying(c)
                        /\ Dozing(c)' <=> Dozing(c)
                        /\ Updating(c)' <=> Updating(c)
  BY <1>2, <1>3, <1>4 DEF Applying, Dozing, Updating
<1>6. NoCalls => \A u \in Threads : /\ InLoop(u, "sleep")' <=> InLoop(u, "sleep")
                                    /\ InLoop(u, "status")' <=> InLoop(u, "status")
  BY <1>2, <1>3, <1>4
<1>7. pc'[t] \notin {"sleep", "status"}
  <2> SUFFICES ASSUME pc'[t] \in {"sleep", "status"} PROVE FALSE
    OBVIOUS
  <2>1. cur'[t] = None /\ jobs'[t] = <<>>
    BY DEF Base, Where
  <2>2. HoldsLock(t)'
    BY <2>1 DEF HoldsLock, InLoop
  <2> QED
    BY <2>2 DEF Base, Locking
<1> QED
  BY <1>1, <1>5, <1>6, <1>7

\* Such a step changes nothing about who sleeps.
LEMMA CalmAwake == ASSUME Base, Base', Awake, NEW t \in Threads, Calm(t) PROVE Awake'
<1>1. /\ UNCHANGED <<mustSleep, mustStop, activeMask, lock, setup>> /\ lock # t
      /\ Steady' => Steady
  BY DEF Calm
<1>2. \A c : RunningThreads(c)' = RunningThreads(c)
  BY <1>1 DEF RunningThreads, ThreadsOf
<1>3. /\ NoCalls' <=> NoCalls
      /\ NoCalls => \A c : /\ Applying(c)' <=> Applying(c)
                           /\ Dozing(c)' <=> Dozing(c)
                           /\ Updating(c)' <=> Updating(c)
      /\ NoCalls => \A u \in Threads : /\ InLoop(u, "sleep")' <=> InLoop(u, "sleep")
                                       /\ InLoop(u, "status")' <=> InLoop(u, "status")
      /\ pc'[t] \in {"sleep", "status"} => pc[t] = pc'[t]
  BY <1>1, SameHolders DEF Calm
<1>4. Masked' /\ Dark'
  BY <1>1, <1>2, <1>3 DEF Awake, Masked, Dark
<1>5. MainAwake'
  BY <1>1, <1>3, ConstantFacts DEF Awake, MainAwake, Calm
<1> QED
  BY <1>4, <1>5 DEF Awake

\* Steps of a call.
LEMMA CalmCall ==
  ASSUME Base, NEW t \in Threads, jobs[t] # <<>>, Job(t).op \notin {"status", "apply"},
         NEW js, Then(t, js), UNCHANGED <<flagVars, maskVars, pc, cur, setup>>, Steady' => Steady
  PROVE  Calm(t)
<1>1. lock # t /\ pc[t] = "test"
  BY LockOfCall, CallFacts
<1>2. \A u \in Threads \ {t} : jobs'[u] = jobs[u]
  BY DEF Then, Base
<1> QED
  BY <1>1, <1>2 DEF Calm, flagVars, maskVars

\* The calls that have nothing to do with the lock.
LEMMA CalmCalls ==
  ASSUME Base, NEW t \in Threads,
         \/ Submit(t) \/ Enqueue(t) \/ QueueBatch(t) \/ UnblockNext(t) \/ PushNextWD(t)
         \/ UnblockTest(t) \/ (AcquireOne(t) /\ UNCHANGED maskVars) \/ ExitWork(t)
         \/ AwaitStable(t) \/ (t = 0 /\ Join)
  PROVE  Calm(t)
<1>1. PICK js : Then(t, js)
  BY DEF Submit, Enqueue, QueueBatch, UnblockNext, PushNextWD, UnblockTest, AcquireOne, ExitWork,
         AwaitStable, Join
<1>2. UNCHANGED <<flagVars, maskVars, pc, cur, setup>>
  BY DEF Submit, Enqueue, QueueBatch, UnblockNext, PushNextWD, UnblockTest, AcquireOne, ExitWork,
         AwaitStable, Join, progVars
<1>3. jobs[t] # <<>> /\ Job(t).op \notin {"status", "apply"}
  BY DEF Submit, Enqueue, QueueBatch, UnblockNext, PushNextWD, UnblockTest, AcquireOne, ExitWork,
         AwaitStable, Join, Doing, Job
<1>4. phase' = phase \/ phase = "waits"
  BY DEF Submit, Enqueue, QueueBatch, UnblockNext, PushNextWD, UnblockTest, AcquireOne, ExitWork,
         AwaitStable, Join, progVars
<1>5. Steady' => Steady
  BY <1>2, <1>4 DEF Steady
<1> QED
  BY <1>1, <1>2, <1>3, <1>5, CalmCall

\* Steps of the idle loop.
LEMMA CalmLoop ==
  ASSUME Base, NEW t \in Threads,
         \/ SleepTest(t) \/ Wait(t) \/ Resume(t) \/ EndThread(t) \/ GetNextWD(t) \/ GetReadyWD(t)
         \/ GetNothing(t) \/ SpinAgain(t) \/ BlockTest(t) \/ (BlockThread(t) /\ UNCHANGED lock)
  PROVE  Calm(t)
<1>1. PICK v \in {"test", "wait", "blocked", "get", "idle", "block"} : InLoop(t, v)
  BY DEF SleepTest, Wait, Resume, EndThread, GetNextWD, GetReadyWD, GetNothing, SpinAgain,
         BlockTest, BlockThread, PopFront
<1>2. lock # t
  BY <1>1, LoopFacts
<1>3. UNCHANGED <<mustSleep, mustStop, activeMask, lock, setup, phase>>
  BY DEF SleepTest, Wait, Resume, EndThread, GetNextWD, GetReadyWD, GetNothing, SpinAgain,
         BlockTest, BlockThread, PopFront, flagVars,
         maskVars, progVars
<1>4. PICK place : Goto(t, place) /\ (place = "block" => t # 0 \/ setup.untied)
  BY DEF SleepTest, Wait, Resume, EndThread, GetNextWD, GetReadyWD, GetNothing, SpinAgain,
         BlockTest, BlockThread, PopFront
<1>5. pc'[t] = place /\ \A u \in Threads \ {t} : pc'[u] = pc[u]
  BY <1>4 DEF Goto, Base, Types, TWhere
<1>6. \/ UNCHANGED <<cur, jobs>>
      \/ \E w : Execute(t, w)
  BY DEF SleepTest, Wait, Resume, EndThread, GetNextWD, GetReadyWD, GetNothing, SpinAgain,
         BlockTest, BlockThread, PopFront
<1>7. \A u \in Threads \ {t} : cur'[u] = cur[u] /\ jobs'[u] = jobs[u]
  BY <1>6 DEF Execute, Base, Types, TWhere
<1>8. Steady' => Steady
  BY <1>3 DEF Steady
<1> QED
  BY <1>2, <1>3, <1>4, <1>5, <1>7, <1>8 DEF Calm

\* Steps of a WD.
LEMMA CalmWD ==
  ASSUME Base, NEW t \in Threads,
         \/ FinishWork(t) \/ LeaveTask(t) \/ CreateTask(t) \/ SetNumThreads(t) \/ TaskWait(t)
         \/ (t = 0 /\ OnMainThread)
  PROVE  Calm(t)
<1>1. jobs[t] = <<>> /\ cur[t] # None
  <2>1. \A w \in Created : w # None
    BY TaskFacts, ConstantFacts DEF Base
  <2>2. done \subseteq Created
    BY TaskFacts DEF Base
  <2> QED
    BY <2>1, <2>2 DEF FinishWork, LeaveTask, CreateTask, SetNumThreads, TaskWait, OnMainThread,
         MainRuns, Executes, None, Main
<1>2. lock # t /\ pc[t] = "test"
  BY <1>1, ExecFacts
<1>3. UNCHANGED <<mustSleep, mustStop, activeMask, lock, setup>>
  BY DEF FinishWork, LeaveTask, CreateTask, SetNumThreads, TaskWait, OnMainThread, flagVars, maskVars,
         progVars
<1>4. pc' = pc \/ pc' = [pc EXCEPT ![t] = "test"]
  BY DEF FinishWork, LeaveTask, CreateTask, SetNumThreads, TaskWait, OnMainThread, Goto
<1>5. cur' = cur \/ \E w : cur' = [cur EXCEPT ![t] = w]
  BY DEF FinishWork, LeaveTask, CreateTask, SetNumThreads, TaskWait, OnMainThread, Execute, PopFront
<1>6. jobs' = jobs \/ \E r : jobs' = [jobs EXCEPT ![t] = r]
  BY DEF FinishWork, LeaveTask, CreateTask, SetNumThreads, TaskWait, OnMainThread, Execute, PopFront
<1>7. /\ \A u \in Threads \ {t} : pc'[u] = pc[u] /\ cur'[u] = cur[u] /\ jobs'[u] = jobs[u]
      /\ pc'[t] = "test"
  BY <1>2, <1>4, <1>5, <1>6 DEF Base, Types, TWhere
<1>8. phase' = phase \/ phase = "runs" \/ (phase = "ends" /\ phase' = "stops")
  BY DEF FinishWork, LeaveTask, CreateTask, SetNumThreads, TaskWait, OnMainThread, MainRuns, progVars
<1>9. Steady' => Steady
  BY <1>3, <1>8 DEF Steady
<1> QED
  BY <1>2, <1>3, <1>7, <1>9 DEF Calm

\* The end of the main thread: nothing to do with the lock.
LEMMA CalmEndMain == ASSUME Base, EndMain PROVE Calm(0)
<1>1. jobs[0] # <<>> /\ Job(0).op = "stop" /\ 0 \in Threads
  BY ConstantFacts DEF EndMain, Doing, Job
<1>2. lock # 0
  BY <1>1, LockOfCall
<1>3. UNCHANGED <<mustSleep, mustStop, activeMask, lock, setup, phase>>
  BY DEF EndMain, maskVars, progVars
<1>4. /\ \A u \in Threads \ {0} : pc'[u] = pc[u] /\ cur'[u] = cur[u] /\ jobs'[u] = jobs[u]
      /\ pc'[0] = "ended"
  BY <1>1 DEF EndMain, Goto, Then, Base, Types, TWhere
<1> QED
  BY <1>2, <1>3, <1>4 DEF Calm, Steady

\* The call of thread t afterwards.
LEMMA AfterOne ==
  ASSUME Base, NEW t \in Threads, jobs[t] # <<>>, NEW j \in JobSet, j.op # "stop", Then(t, <<j>>)
  PROVE  Top(jobs[t])' = j.op /\ Job(t)' = j /\ jobs'[t] # <<>>
<1>1. Ordered(jobs[t])
  BY CallFacts
<1>2. PICK r : r = <<j>> \o Tail(jobs[t])
  OBVIOUS
<1>3. r # <<>> /\ Head(r) = j
  BY <1>1, <1>2, ThenOne
<1>4. jobs'[t] = r
  BY <1>2 DEF Then, Base
<1> QED
  BY <1>3, <1>4 DEF Top, Job

\* A call returns to one that sees to no CPU.
LEMMA AfterNothing ==
  ASSUME Base, NEW t \in Threads, jobs[t] # <<>>, Then(t, <<>>)
  PROVE  Top(jobs[t])' \notin {"status", "apply", "unblock", "wake"}
<1>1. Ordered(jobs[t])
  BY CallFacts
<1>2. PICK r : r = <<>> \o Tail(jobs[t])
  OBVIOUS
<1>3. Top(r) \in Behind \cup {"none"}
  BY <1>1, <1>2, ThenNothing
<1>4. jobs'[t] = r
  BY <1>2 DEF Then, Base
<1> QED
  BY <1>3, <1>4 DEF Top, Behind

\* Only the holder of the lock sees to CPUs in the next state.
LEMMA OnlyNext == ASSUME Base' PROVE OnlyHolder'
BY OnlyHolders, PTL

\* The threads that run when threads X are woken up, or put to sleep.
LEMMA RunningFacts ==
  ASSUME NEW X
  PROVE  /\ TryWakeUp(X) => \A c : /\ RunningThreads(c) \subseteq RunningThreads(c)'
                                   /\ RunningThreads(c)' \subseteq RunningThreads(c) \cup X
                                   /\ (X \cap ThreadsOf(c)) \ mustStop \subseteq RunningThreads(c)'
         /\ Sleep(X) => \A c : /\ RunningThreads(c)' = RunningThreads(c) \ X
  BY DEF TryWakeUp, Sleep, RunningThreads, ThreadsOf

\* unblockThread takes the lock and wakes the thread up.
LEMMA UnblockWakeAwake ==
  ASSUME Base, Base', Awake, NEW t \in Threads, UnblockWake(t) PROVE Awake'
<1>1. /\ jobs[t] # <<>> /\ Job(t).op = "wake" /\ TryWakeUp({Job(t).to}) /\ lock = None /\ lock' = t
      /\ Then(t, <<[op |-> "status", cpu |-> CpuOf[Job(t).to]]>>)
      /\ UNCHANGED <<activeMask, pc, cur, setup, phase, mustStop>>
  BY DEF UnblockWake, Doing, Job, TryWakeUp, progVars
<1>2. PICK x \in Threads : x = Job(t).to
  BY <1>1, CallFacts, JobFacts
<1>3. PICK j \in JobSet : j = [op |-> "status", cpu |-> CpuOf[x]] /\ j.op = "status" /\ j.cpu = CpuOf[x]
  BY ConstantFacts, JobMade
<1>4. Top(jobs[t])' = "status" /\ Job(t)' = j /\ jobs'[t] # <<>>
  BY <1>1, <1>2, <1>3, AfterOne
<1>5. Top(jobs[t]) = "wake"
  BY <1>1, CallFacts
<1>6. MainAwake'
  BY <1>1 DEF Awake, MainAwake, TryWakeUp
<1>7. \A c : /\ RunningThreads(c) \subseteq RunningThreads(c)'
             /\ RunningThreads(c)' \subseteq RunningThreads(c) \cup {x}
  BY <1>1, <1>2, RunningFacts
<1>8. mustStop = {} => x \in RunningThreads(CpuOf[x])'
  BY <1>1, <1>2 DEF TryWakeUp, RunningThreads, ThreadsOf
<1>9. NoCalls => /\ \A c : ~ Applying(c) /\ ~ Dozing(c) /\ ~ Updating(c)
                 /\ \A c : Updating(c)' <=> c = CpuOf[x]
                 /\ \A u \in Threads : ~ InLoop(u, "sleep")' /\ ~ InLoop(u, "status")'
  <2> SUFFICES ASSUME NoCalls
               PROVE  /\ \A c : ~ Applying(c) /\ ~ Dozing(c) /\ ~ Updating(c)
                      /\ \A c : Updating(c)' <=> c = CpuOf[x]
                      /\ \A u \in Threads : ~ InLoop(u, "sleep")' /\ ~ InLoop(u, "status")'
    OBVIOUS
  <2>1. NoCalls' /\ ~ InLoop(t, "status") /\ ~ InLoop(t, "sleep")' /\ ~ InLoop(t, "status")'
    BY <1>1, <1>4 DEF NoCalls, InLoop
  <2>2. \A c : ~ Applying(c) /\ ~ Dozing(c) /\ ~ Updating(c)
    BY <1>1, <1>5, <2>1, OnlyHolders DEF OnlyHolder
  <2>3. /\ \A c : Updating(c)' <=> Top(jobs[t])' = "status" /\ c = Job(t)'.cpu
        /\ \A u \in Threads : InLoop(u, "sleep")' \/ InLoop(u, "status")' => u = t
    BY <1>1, <2>1, OnlyNext DEF OnlyHolder
  <2> QED
    BY <1>3, <1>4, <2>1, <2>2, <2>3
<1>10. Masked'
  BY <1>1, <1>7, <1>8, <1>9 DEF Awake, Masked, NoCalls
<1>11. Dark'
  <2>1. \A c : RunningThreads(c)' \subseteq ThreadsOf(c)
    BY DEF RunningThreads, ThreadsOf
  <2>2. \A c : c # CpuOf[x] => x \notin ThreadsOf(c)
    BY DEF ThreadsOf
  <2> QED
    BY <1>1, <1>7, <1>9, <2>1, <2>2 DEF Awake, Dark, NoCalls, Steady
<1> QED
  BY <1>6, <1>10, <1>11 DEF Awake

\* The status of CPU c is updated: by unblockThread or by blockThread.
LEMMA StatusAwake ==
  ASSUME Base, Base', Awake, NEW t \in Threads, lock = t, lock' = None, NEW c \in Cpus,
         activeMask' = UpdatedMask(c), UNCHANGED <<mustSleep, mustStop, setup, phase>>,
         pc'[0] \in {pc[0], "test"},
         NoCalls => \A d : ~ Applying(d) /\ ((Dozing(d) \/ Updating(d)) => d = c),
         NoCalls /\ mustStop = {} /\ RunningThreads(c) = {} => activeMask # {c}
  PROVE  Awake'
<1>1. \A d : RunningThreads(d)' = RunningThreads(d)
  BY DEF RunningThreads, ThreadsOf
<1>2. \A d : d # c => (d \in activeMask' <=> d \in activeMask)
  BY DEF UpdatedMask
<1>3. c \in activeMask' <=> RunningThreads(c) # {}
  BY DEF UpdatedMask
<1>4. MainAwake'
  <2>1. ~ setup.untied => 0 \in RunningThreads(CpuOf[0])
    BY ConstantFacts DEF Awake, MainAwake, RunningThreads, ThreadsOf, Base, Stopping
  <2> QED
    BY <1>2, <1>3, <2>1 DEF Awake, MainAwake
<1>5. NoCalls => /\ \A d : ~ Applying(d)' /\ ~ Dozing(d)' /\ ~ Updating(d)'
                 /\ \A u \in Threads : ~ InLoop(u, "sleep")' /\ ~ InLoop(u, "status")'
  <2> SUFFICES ASSUME NoCalls, NEW u \in Threads
               PROVE  /\ ~ InLoop(u, "sleep")' /\ ~ InLoop(u, "status")'
                      /\ Top(jobs[u])' \notin {"status", "apply"}
    BY DEF Applying, Dozing, Updating
  <2>1. NoCalls' /\ lock' # u
    BY ConstantFacts DEF NoCalls
  <2> QED
    BY <2>1, HoldersNext
<1>6. Masked'
  BY <1>1, <1>2, <1>3, <1>5 DEF Awake, Masked, NoCalls
<1>7. Dark'
  BY <1>1, <1>2, <1>3, <1>5 DEF Awake, Dark, NoCalls, Steady
<1> QED
  BY <1>4, <1>6, <1>7 DEF Awake

\* unblockThread updates the status of the CPU and releases the lock.
LEMMA UnblockStatusAwake ==
  ASSUME Base, Base', Awake, NEW t \in Threads, UnblockStatus(t) PROVE Awake'
<1>1. /\ jobs[t] # <<>> /\ Job(t).op = "status" /\ lock' = None
      /\ activeMask' = UpdatedMask(Job(t).cpu)
      /\ UNCHANGED <<mustSleep, mustStop, setup, phase, pc>>
  BY DEF UnblockStatus, Doing, Job, flagVars, progVars
<1>2. PICK c \in Cpus : c = Job(t).cpu
  BY <1>1, CallFacts, JobFacts
<1>3. lock = t /\ Top(jobs[t]) = "status" /\ ~ InLoop(t, "status")
  BY <1>1, LockOfCall, CallFacts DEF InLoop
<1>4. NoCalls => \A d : ~ Applying(d) /\ ~ Dozing(d) /\ (Updating(d) <=> d = c)
  BY <1>2, <1>3, OnlyHolders DEF OnlyHolder
<1>5. NoCalls /\ mustStop = {} => RunningThreads(c) # {}
  BY <1>2, <1>4 DEF Awake, Masked
<1> QED
  BY <1>1, <1>2, <1>3, <1>4, <1>5, StatusAwake

\* blockThread updates the status of the CPU and releases the lock.
LEMMA BlockStatusAwake ==
  ASSUME Base, Base', Awake, NEW t \in Threads, BlockStatus(t) PROVE Awake'
<1>1. /\ InLoop(t, "status") /\ lock' = None /\ activeMask' = UpdatedMask(CpuOf[t])
      /\ UNCHANGED <<mustSleep, mustStop, setup, phase>> /\ Goto(t, "test")
  BY DEF BlockStatus, flagVars, progVars
<1>2. PICK c \in Cpus : c = CpuOf[t]
  BY ConstantFacts
<1>3. lock = t /\ Top(jobs[t]) = "none" /\ pc'[0] \in {pc[0], "test"}
  BY <1>1, LoopFacts, ConstantFacts DEF Top, Goto, Base, Types, TWhere
<1>4. NoCalls => \A d : ~ Applying(d) /\ ~ Updating(d) /\ (Dozing(d) <=> d = c)
  BY <1>1, <1>2, <1>3, OnlyHolders DEF OnlyHolder
<1>5. NoCalls /\ mustStop = {} => activeMask # {c}
  BY <1>1, <1>2 DEF Awake, Masked
<1> QED
  BY <1>1, <1>2, <1>3, <1>4, <1>5, StatusAwake

\* acquireOne takes an inactive CPU.
LEMMA AcquireAwake ==
  ASSUME Base, Base', Awake, NEW t \in Threads, AcquireOne(t), ~ UNCHANGED maskVars PROVE Awake'
<1>1. /\ jobs[t] # <<>> /\ Job(t).op = "acquire" /\ lock = None /\ lock' = t
      /\ activeMask' = WithMaster(activeMask \cup {Min(Cpus \ activeMask)})
      /\ Then(t, <<[op |-> "apply", cpus |-> Cpus, held |-> TRUE]>>)
      /\ UNCHANGED <<mustSleep, mustStop, setup, phase, pc>>
  BY DEF AcquireOne, Doing, Job, flagVars, progVars
<1>2. activeMask \subseteq activeMask' /\ activeMask' \subseteq Cpus
  BY <1>1 DEF WithMaster, Base, Types, TMask
<1>3. PICK j \in JobSet : /\ j = [op |-> "apply", cpus |-> Cpus, held |-> TRUE]
                          /\ j.op = "apply" /\ j.cpus = Cpus
  <2>1. Cpus \in SUBSET Cpus /\ TRUE \in BOOLEAN
    OBVIOUS
  <2> QED
    BY <2>1, JobMade
<1>4. Top(jobs[t])' = "apply" /\ Job(t)' = j /\ jobs'[t] # <<>>
  BY <1>1, <1>3, AfterOne
<1>5. Top(jobs[t]) = "acquire"
  BY <1>1, CallFacts
<1>6. \A c : RunningThreads(c)' = RunningThreads(c)
  BY <1>1 DEF RunningThreads, ThreadsOf
<1>7. NoCalls => /\ \A c : ~ Updating(c)
                 /\ \A c : ~ Updating(c)' /\ (Applying(c)' <=> c \in Cpus)
                 /\ \A u \in Threads : ~ InLoop(u, "sleep")' /\ ~ InLoop(u, "status")'
  <2> SUFFICES ASSUME NoCalls
               PROVE  /\ \A c : ~ Updating(c)
                      /\ \A c : ~ Updating(c)' /\ (Applying(c)' <=> c \in Cpus)
                      /\ \A u \in Threads : ~ InLoop(u, "sleep")' /\ ~ InLoop(u, "status")'
    OBVIOUS
  <2>1. NoCalls' /\ ~ InLoop(t, "sleep")' /\ ~ InLoop(t, "status")'
    BY <1>1, <1>4 DEF NoCalls, InLoop
  <2>2. \A c : ~ Updating(c)
    BY <1>1, <1>5, OnlyHolders DEF OnlyHolder
  <2>3. /\ \A c : Updating(c)' <=> Top(jobs[t])' = "status" /\ c = Job(t)'.cpu
        /\ \A c : Applying(c)' <=> Top(jobs[t])' = "apply" /\ c \in Job(t)'.cpus
        /\ \A u \in Threads : InLoop(u, "sleep")' \/ InLoop(u, "status")' => u = t
    BY <1>1, <2>1, OnlyNext DEF OnlyHolder
  <2> QED
    BY <1>3, <1>4, <2>1, <2>2, <2>3
<1>8. Masked'
  BY <1>1, <1>2, <1>6, <1>7 DEF Awake, Masked, NoCalls
<1>9. Dark'
  BY <1>1, <1>2, <1>6, <1>7 DEF Awake, Dark, NoCalls, Steady
<1>10. MainAwake'
  BY <1>1, <1>2 DEF Awake, MainAwake
<1> QED
  BY <1>8, <1>9, <1>10 DEF Awake

\* The mask is applied to a CPU.
LEMMA ApplyAwake ==
  ASSUME Base, Base', Awake, NEW t \in Threads, ApplyMask(t) PROVE Awake'
<1>1. /\ jobs[t] # <<>> /\ Job(t).op = "apply" /\ Job(t).cpus # {}
      /\ UNCHANGED <<activeMask, lock, setup, phase, pc>>
  BY DEF ApplyMask, Doing, Job, maskVars, progVars
<1>2. Job(t) \in JobSet /\ Job(t).cpus \in SUBSET Cpus /\ Job(t).held \in BOOLEAN
  BY <1>1, CallFacts, JobFacts
<1>3. PICK c \in Cpus : c = Min(Job(t).cpus)
  BY <1>1, <1>2, MinFact, ConstantFacts
<1>4. /\ c \in activeMask => TryWakeUp(ThreadsOf(c))
      /\ c \notin activeMask => Sleep(ThreadsOf(c))
      /\ Then(t, <<[Job(t) EXCEPT !.cpus = @ \ {c}]>>)
  BY <1>3 DEF ApplyMask
<1>5. mustStop' = mustStop
  BY <1>4 DEF TryWakeUp, Sleep
<1>6. ThreadsOf(c) # {} /\ (0 \in ThreadsOf(c) => c = CpuOf[0])
  BY ConstantFacts DEF ThreadsOf
<1>7. MainAwake'
  BY <1>1, <1>4, <1>6 DEF Awake, MainAwake, TryWakeUp, Sleep
<1>8. \A d : d # c => RunningThreads(d)' = RunningThreads(d)
  BY <1>4, <1>5 DEF RunningThreads, TryWakeUp, Sleep, ThreadsOf
<1>9. /\ mustStop = {} /\ c \in activeMask => RunningThreads(c)' # {}
      /\ c \notin activeMask => RunningThreads(c)' = {}
  BY <1>4, <1>5, <1>6 DEF RunningThreads, TryWakeUp, Sleep, ThreadsOf
<1>10. PICK j \in JobSet : /\ j = [op |-> "apply", cpus |-> Job(t).cpus \ {c}, held |-> Job(t).held]
                           /\ j.op = "apply" /\ j.cpus = Job(t).cpus \ {c}
  <2>1. PICK C \in SUBSET Cpus, h \in BOOLEAN : C = Job(t).cpus \ {c} /\ h = Job(t).held
    BY <1>2
  <2>2. [op |-> "apply", cpus |-> C, held |-> h] \in JobSet
    BY JobMade
  <2> QED
    BY <2>1, <2>2
<1>11. Top(jobs[t])' = "apply" /\ Job(t)' = j /\ jobs'[t] # <<>>
  <2>1. [Job(t) EXCEPT !.cpus = @ \ {c}] = j
    BY <1>1, <1>2, <1>10, JobGoesOn
  <2> QED
    BY <1>1, <1>4, <1>10, <2>1, AfterOne
<1>12. NoCalls => /\ \A d : /\ ~ Updating(d) /\ ~ Updating(d)' /\ ~ Dozing(d)
                            /\ Applying(d) <=> d \in Job(t).cpus
                            /\ Applying(d)' <=> d \in Job(t).cpus \ {c}
                  /\ \A u \in Threads : ~ InLoop(u, "sleep")' /\ ~ InLoop(u, "status")'
  <2> SUFFICES ASSUME NoCalls
               PROVE  /\ \A d : /\ ~ Updating(d) /\ ~ Updating(d)' /\ ~ Dozing(d)
                                /\ Applying(d) <=> d \in Job(t).cpus
                                /\ Applying(d)' <=> d \in Job(t).cpus \ {c}
                      /\ \A u \in Threads : ~ InLoop(u, "sleep")' /\ ~ InLoop(u, "status")'
    OBVIOUS
  <2>1. NoCalls' /\ ~ InLoop(t, "sleep")' /\ ~ InLoop(t, "status")' /\ ~ InLoop(t, "status")
    BY <1>1, <1>11 DEF NoCalls, InLoop
  <2>2. Top(jobs[t]) = "apply" /\ lock = t
    <3>1. Top(jobs[t]) = "apply"
      BY <1>1, CallFacts
    <3> QED
      BY <3>1, Holders
  <2>3. \A d : ~ Updating(d) /\ ~ Dozing(d) /\ (Applying(d) <=> d \in Job(t).cpus)
    BY <2>1, <2>2, OnlyHolders DEF OnlyHolder
  <2>4. /\ \A d : Updating(d)' <=> Top(jobs[t])' = "status" /\ d = Job(t)'.cpu
        /\ \A d : Applying(d)' <=> Top(jobs[t])' = "apply" /\ d \in Job(t)'.cpus
        /\ \A u \in Threads : InLoop(u, "sleep")' \/ InLoop(u, "status")' => u = t
    BY <1>1, <2>1, <2>2, OnlyNext DEF OnlyHolder
  <2> QED
    BY <1>10, <1>11, <2>1, <2>3, <2>4
<1>13. Masked'
  BY <1>1, <1>5, <1>8, <1>9, <1>12 DEF Awake, Masked, NoCalls
<1>14. Dark'
  BY <1>1, <1>8, <1>9, <1>12 DEF Awake, Dark, NoCalls, Steady
<1> QED
  BY <1>7, <1>13, <1>14 DEF Awake

\* The mask has been applied to every CPU.
LEMMA AppliedAwake ==
  ASSUME Base, Base', Awake, NEW t \in Threads, MaskApplied(t) PROVE Awake'
<1>1. /\ jobs[t] # <<>> /\ Job(t).op = "apply" /\ Job(t).cpus = {}
      /\ lock' = IF Job(t).held THEN None ELSE lock
      /\ UNCHANGED <<mustSleep, mustStop, activeMask, setup, phase, pc>>
  BY DEF MaskApplied, Doing, Job, flagVars, progVars
<1>2. MainAwake'
  BY <1>1 DEF Awake, MainAwake
<1>3. \A d : RunningThreads(d)' = RunningThreads(d)
  BY <1>1 DEF RunningThreads, ThreadsOf
<1>4. NoCalls => /\ \A d : ~ Applying(d) /\ ~ Dozing(d) /\ ~ Updating(d) /\ ~ Updating(d)'
                 /\ \A u \in Threads : ~ InLoop(u, "sleep")' /\ ~ InLoop(u, "status")'
  <2> SUFFICES ASSUME NoCalls
               PROVE  /\ \A d : ~ Applying(d) /\ ~ Dozing(d) /\ ~ Updating(d) /\ ~ Updating(d)'
                      /\ \A u \in Threads : ~ InLoop(u, "sleep")' /\ ~ InLoop(u, "status")'
    OBVIOUS
  <2>1. Top(jobs[t]) = "apply" /\ ~ InLoop(t, "status")
    BY <1>1, CallFacts DEF InLoop
  <2>2. lock = t
    BY <2>1, Holders
  <2>3. \A d : ~ Applying(d) /\ ~ Dozing(d) /\ ~ Updating(d)
    BY <1>1, <2>1, <2>2, OnlyHolders DEF OnlyHolder
  <2>4. NoCalls' /\ lock' = None
    BY <1>1, <2>2, LockOfCall DEF NoCalls
  <2>5. \A u \in Threads : /\ ~ InLoop(u, "sleep")' /\ ~ InLoop(u, "status")'
                           /\ Top(jobs[u])' \notin {"status", "apply"}
    BY <2>4, HoldersNext, ConstantFacts
  <2> QED
    BY <2>3, <2>5 DEF Updating
<1>5. Masked' /\ Dark'
  BY <1>1, <1>3, <1>4 DEF Awake, Masked, Dark, NoCalls, Steady
<1> QED
  BY <1>2, <1>5 DEF Awake

\* blockThread takes the lock if the thread may sleep.
LEMMA BlockThreadAwake ==
  ASSUME Base, Base', Awake, NEW t \in Threads, BlockThread(t), ~ UNCHANGED lock PROVE Awake'
<1>1. /\ InLoop(t, "block") /\ pc[t] = "block" /\ lock = None /\ activeMask # {CpuOf[t]}
      /\ lock' = t /\ Goto(t, "sleep")
      /\ UNCHANGED <<mustSleep, mustStop, activeMask, cur, jobs, setup, phase>>
  BY DEF BlockThread, InLoop, flagVars, progVars, LastActiveCpu
<1>2. pc'[t] = "sleep" /\ \A u \in Threads \ {t} : pc'[u] = pc[u]
  BY <1>1 DEF Goto, Base, Types, TWhere
<1>3. MainAwake'
  BY <1>1, <1>2, ConstantFacts DEF Awake, MainAwake
<1>4. \A d : RunningThreads(d)' = RunningThreads(d)
  BY <1>1 DEF RunningThreads, ThreadsOf
<1>5. jobs[t] = <<>> /\ Top(jobs[t]) = "none" /\ ~ InLoop(t, "status") /\ ~ InLoop(t, "status")'
  BY <1>1, <1>2 DEF InLoop, Top
<1>6. NoCalls => /\ \A d : ~ Applying(d) /\ ~ Dozing(d) /\ ~ Updating(d) /\ ~ Updating(d)'
                 /\ \A u \in Threads : InLoop(u, "sleep")' \/ InLoop(u, "status")' => u = t
  <2>1. NoCalls' <=> NoCalls
    BY <1>1 DEF NoCalls
  <2>2. Top(jobs[t])' = "none"
    BY <1>1, <1>5
  <2> QED
    BY <1>1, <1>5, <2>1, <2>2, OnlyHolders, OnlyNext DEF OnlyHolder
<1>7. Masked' /\ Dark'
  BY <1>1, <1>4, <1>6 DEF Awake, Masked, Dark, NoCalls, Steady
<1> QED
  BY <1>3, <1>7 DEF Awake

\* blockThread puts the thread to sleep.
LEMMA BlockSleepAwake ==
  ASSUME Base, Base', Awake, NEW t \in Threads, BlockSleep(t) PROVE Awake'
<1>1. /\ InLoop(t, "sleep") /\ Sleep({t}) /\ Goto(t, "status")
      /\ UNCHANGED <<activeMask, lock, cur, jobs, setup, phase>>
  BY DEF BlockSleep, maskVars, progVars
<1>2. pc'[t] = "status" /\ \A u \in Threads \ {t} : pc'[u] = pc[u]
  BY <1>1 DEF Goto, Base, Types, TWhere
<1>3. lock = t /\ jobs[t] = <<>> /\ pc[t] = "sleep" /\ Top(jobs[t]) = "none" /\ InLoop(t, "status")'
  BY <1>1, <1>2, LoopFacts DEF Top, InLoop
<1>4. MainAwake' /\ mustStop' = mustStop
  BY <1>1, <1>2, <1>3, ConstantFacts DEF Awake, MainAwake, Sleep
<1>5. \A d : /\ RunningThreads(d)' \subseteq RunningThreads(d)
             /\ d # CpuOf[t] => RunningThreads(d)' = RunningThreads(d)
  BY <1>1, <1>4 DEF RunningThreads, ThreadsOf, Sleep
<1>6. NoCalls => /\ \A d : ~ Applying(d) /\ ~ Dozing(d) /\ ~ Updating(d) /\ ~ Updating(d)'
                 /\ \A d : Dozing(d)' <=> d = CpuOf[t]
                 /\ \A u \in Threads : InLoop(u, "sleep")' \/ InLoop(u, "status")' => u = t
  <2>1. NoCalls' <=> NoCalls
    BY <1>1 DEF NoCalls
  <2>2. Top(jobs[t])' = "none" /\ ~ InLoop(t, "status")
    BY <1>1, <1>3 DEF InLoop
  <2> QED
    BY <1>1, <1>3, <2>1, <2>2, OnlyHolders, OnlyNext DEF OnlyHolder
<1>7. NoCalls /\ mustStop = {} => activeMask # {CpuOf[t]}
  BY <1>1 DEF Awake, Masked
<1>8. Masked' /\ Dark'
  BY <1>1, <1>4, <1>5, <1>6, <1>7 DEF Awake, Masked, Dark, NoCalls, Steady
<1> QED
  BY <1>4, <1>8 DEF Awake

\* The program sets the mask of active CPUs.
LEMMA SetMaskAwake ==
  ASSUME Base, Base', Awake, NEW t \in Threads, SetCpuActiveMask(t) PROVE Awake'
<1>1. PICK M \in setup.masks : activeMask' = WithMaster(M)
  BY DEF SetCpuActiveMask
<1>2. UNCHANGED <<mustSleep, setup, pc>>
  BY DEF SetCpuActiveMask, flagVars
<1> QED
  BY <1>1, <1>2 DEF Awake, MainAwake, Masked, Dark, NoCalls, WithMaster

\* SetNumThreads has come to a worker.
LEMMA UpdateAwake ==
  ASSUME Base, Base', Awake, NEW t \in Threads, UpdateWorker(t) PROVE Awake'
<1>1. jobs[t] # <<>> /\ Job(t).op = "resize" /\ UNCHANGED <<activeMask, setup, pc>>
  BY DEF UpdateWorker, Doing, Job, maskVars, progVars
<1>2. Job(t).n \in Nat \ {0} /\ Job(t).i \in Threads /\ setup.sizes # {}
  BY <1>1, CallFacts, JobFacts DEF Sound
<1>3. ~ NoCalls'
  BY <1>1, <1>2 DEF NoCalls
<1>4. 0 \in mustSleep' => 0 \in mustSleep
  BY <1>2, ConstantFacts DEF UpdateWorker, TryWakeUp, LeaveAndSleep
<1> QED
  BY <1>1, <1>3, <1>4 DEF Awake, MainAwake, Masked, Dark

\* The main WD ends the program.
LEMMA ShutdownAwake ==
  ASSUME Base, Base', Awake, NEW t \in Threads, Shutdown(t) PROVE Awake'
<1>1. /\ jobs[t] = <<>> /\ cur[t] = Main /\ phase = "runs" /\ phase' = "ends" /\ TryWakeUp({0})
      /\ UNCHANGED <<activeMask, lock, setup, mustStop>>
  BY DEF Shutdown, MainRuns, Executes, maskVars, TryWakeUp
<1>2. lock # t /\ pc[t] = "test"
  BY <1>1, ExecFacts DEF None, Main
<1>3. /\ \A u \in Threads \ {t} : jobs'[u] = jobs[u] /\ cur'[u] = cur[u] /\ pc'[u] = pc[u]
      /\ pc'[t] = "test"
  BY <1>2 DEF Shutdown, Goto, Base, Types, TWhere
<1>4. /\ NoCalls' <=> NoCalls
      /\ NoCalls => \A c : /\ Applying(c)' <=> Applying(c)
                           /\ Dozing(c)' <=> Dozing(c)
                           /\ Updating(c)' <=> Updating(c)
      /\ NoCalls => \A u \in Threads : /\ InLoop(u, "sleep")' <=> InLoop(u, "sleep")
                                       /\ InLoop(u, "status")' <=> InLoop(u, "status")
      /\ pc'[t] \in {"sleep", "status"} => pc[t] = pc'[t]
  BY <1>1, <1>2, <1>3, SameHolders
<1>5. MainAwake'
  BY <1>1, <1>3, <1>4, ConstantFacts DEF Awake, MainAwake, TryWakeUp
<1>6. \A c : RunningThreads(c) \subseteq RunningThreads(c)'
  BY <1>1, RunningFacts
<1>7. Steady' => Steady /\ \A c : RunningThreads(c)' = RunningThreads(c)
  BY <1>1 DEF Awake, MainAwake, TryWakeUp, RunningThreads, ThreadsOf, Steady
<1>8. Masked'
  BY <1>1, <1>4, <1>6 DEF Awake, Masked
<1>9. Dark'
  BY <1>1, <1>4, <1>7 DEF Awake, Dark
<1> QED
  BY <1>5, <1>8, <1>9 DEF Awake

\* The threads are told to stop.
LEMMA StopThreadsAwake == ASSUME Base, Base', Awake, StopThreads PROVE Awake'
<1>1. /\ jobs[0] # <<>> /\ Job(0).op = "stop" /\ 0 \in Threads
      /\ UNCHANGED <<activeMask, lock, setup, phase, pc, cur>>
  BY ConstantFacts DEF StopThreads, Doing, Job, maskVars, progVars
<1>2. lock # 0
  BY <1>1, LockOfCall
<1>3. PICK X : mustStop' = mustStop \cup X /\ mustSleep' = mustSleep \ (X \cap isWaiting)
  BY DEF StopThreads
<1>4. \A u \in Threads \ {0} : jobs'[u] = jobs[u] /\ cur'[u] = cur[u] /\ pc'[u] = pc[u]
  BY <1>1 DEF StopThreads, Then, Base
<1>5. /\ NoCalls' <=> NoCalls
      /\ NoCalls => \A c : /\ Applying(c)' <=> Applying(c)
                           /\ Dozing(c)' <=> Dozing(c)
                           /\ Updating(c)' <=> Updating(c)
      /\ NoCalls => \A u \in Threads : /\ InLoop(u, "sleep")' <=> InLoop(u, "sleep")
                                       /\ InLoop(u, "status")' <=> InLoop(u, "status")
  BY <1>1, <1>2, <1>4, SameHolders
<1>6. MainAwake'
  BY <1>1, <1>3 DEF Awake, MainAwake
<1>7. \A c : RunningThreads(c)' \subseteq RunningThreads(c)
  BY <1>3 DEF RunningThreads, ThreadsOf
<1>8. mustStop' = {} => mustStop = {} /\ \A c : RunningThreads(c)' = RunningThreads(c)
  BY <1>3 DEF RunningThreads, ThreadsOf
<1>9. Masked'
  BY <1>1, <1>5, <1>8 DEF Awake, Masked
<1>10. Dark'
  BY <1>1, <1>5, <1>7 DEF Awake, Dark, Steady
<1> QED
  BY <1>6, <1>9, <1>10 DEF Awake

\* It holds in the initial states: every CPU is active and every thread awake.
LEMMA InitAwake == Init => Awake
<1> SUFFICES ASSUME Init PROVE Awake
  OBVIOUS
<1>1. Base /\ 0 \in Threads /\ CpuOf[0] \in Cpus
  BY InitBase, ConstantFacts
<1>2. \A t \in Threads : jobs[t] = <<>> /\ Top(jobs[t]) = "none" /\ pc[t] = "test"
  BY DEF Init, Top
<1>3. \A c \in Cpus : RunningThreads(c) # {}
  BY ConstantFacts DEF Init, RunningThreads
<1>4. MainAwake
  BY <1>1, <1>2 DEF Init, MainAwake
<1>5. Masked
  BY <1>1, <1>2, <1>3 DEF Init, Masked, Updating, InLoop
<1>6. Dark
  BY DEF Init, Dark
<1> QED
  BY <1>4, <1>5, <1>6 DEF Awake

\* It is kept by a step that changes nothing.
LEMMA StutterAwake == ASSUME Awake, UNCHANGED vars PROVE Awake'
<1>1. UNCHANGED <<mustSleep, mustStop, activeMask, pc, cur, jobs, setup, phase>>
  BY DEF vars, flagVars, maskVars, progVars
<1>2. \A c : /\ RunningThreads(c)' = RunningThreads(c) /\ (Applying(c)' <=> Applying(c))
             /\ (Dozing(c)' <=> Dozing(c)) /\ (Updating(c)' <=> Updating(c))
  BY <1>1 DEF RunningThreads, ThreadsOf, Applying, Dozing, Updating, Top, Job, InLoop
<1>3. \A t, w : InLoop(t, w)' <=> InLoop(t, w)
  BY <1>1 DEF InLoop
<1> QED
  BY <1>1, <1>2, <1>3 DEF Awake, MainAwake, Masked, Dark, NoCalls, Steady

\* Every step of a thread keeps it.
LEMMA StepAwake == ASSUME Base, Base', Awake, NEW t \in Threads, Step(t) PROVE Awake'
<1>1. CASE Calm(t)
  BY <1>1, CalmAwake
<1>2. CASE Calls(t)
  BY <1>1, <1>2, CalmCalls, UnblockWakeAwake, UnblockStatusAwake, AcquireAwake, ApplyAwake,
     AppliedAwake DEF Calls
<1>3. CASE IdleLoop(t)
  BY <1>1, <1>3, CalmLoop, BlockThreadAwake, BlockSleepAwake, BlockStatusAwake DEF IdleLoop
<1>4. CASE TaskEnd(t)
  BY <1>1, <1>4, CalmCalls, CalmWD DEF TaskEnd
<1>5. CASE MainWD(t)
  BY <1>1, <1>5, CalmCalls, CalmWD, SetMaskAwake, UpdateAwake, ShutdownAwake DEF MainWD
<1>6. CASE t = 0 /\ Ending
  BY <1>1, <1>6, CalmCalls, CalmWD, CalmEndMain, StopThreadsAwake DEF Ending
<1> QED
  BY <1>2, <1>3, <1>4, <1>5, <1>6 DEF Step

\* Every step keeps it.
LEMMA NextAwake == Base /\ Base' /\ Awake /\ [Next]_vars => Awake'
BY StepAwake, StutterAwake DEF Next

\* The mask and the threads.
LEMMA AlwaysAwake == Spec => []Awake
BY InitAwake, NextAwake, Bases, PTL DEF Spec

\* When the main WD is tied, or the program changes neither the mask nor the number of
\* threads, the threads are never all asleep: blockThread spares the last active CPU and
\* an active CPU has a thread that runs.
THEOREM NeverAllAsleep == Spec => [](~ setup.untied \/ NoCalls => SomeoneAwake)
<1>1. Base /\ Awake => (~ setup.untied \/ NoCalls => SomeoneAwake)
  <2> SUFFICES ASSUME Base, Awake, ~ setup.untied \/ NoCalls PROVE SomeoneAwake
    OBVIOUS
  <2>1. CASE ~ setup.untied
    BY <2>1, ConstantFacts DEF Awake, MainAwake, SomeoneAwake, Asleep, Sleeping
  <2>2. CASE mustStop # {}
    <3>1. cur[0] = Main \/ pc[0] = "ended"
      BY <2>2 DEF Base, Stopping
    <3>2. 0 \in isWaiting => pc[0] = "blocked" /\ cur[0] = None
      BY ConstantFacts DEF Base, Where
    <3> QED
      BY <3>1, <3>2, ConstantFacts DEF SomeoneAwake, Asleep, Main, None
  <2>3. CASE NoCalls /\ mustStop = {}
    <3>1. PICK c \in activeMask : RunningThreads(c) # {} \/ Applying(c) \/ Dozing(c)
      BY <2>3 DEF Awake, Masked
    <3>2. CASE RunningThreads(c) # {}
      BY <3>2 DEF RunningThreads, ThreadsOf, SomeoneAwake, Asleep, Sleeping
    <3>3. CASE Applying(c)
      <4>1. PICK t \in Threads : Top(jobs[t]) = "apply"
        BY <3>3 DEF Applying
      <4>2. jobs[t] # <<>>
        BY <4>1 DEF Top
      <4> QED
        BY <4>2, CallFacts DEF SomeoneAwake, Asleep
    <3>4. CASE Dozing(c)
      <4>1. PICK t \in Threads : InLoop(t, "status")
        BY <3>4 DEF Dozing
      <4> QED
        BY <4>1, LoopFacts DEF SomeoneAwake, Asleep
    <3> QED
      BY <3>1, <3>2, <3>3, <3>4
  <2> QED
    BY <2>1, <2>2, <2>3
<1> QED
  BY <1>1, Bases, AlwaysAwake, PTL

-----------------------------------------------------------------------------
(* Who has WDs of its own.                                                 *)

\* Where no task is tied to a thread, one that waits has no WD: a WD is given to the thread
\* that gives it, or is a tied main WD.
Own ==
  setup.ties = {} /\ Steady =>
    \A t \in Threads : t \in isWaiting /\ (t # 0 \/ setup.untied) => ~ HasNextWD(t)

\* A thread that sleeps and has one is about to be woken up by a call, the innermost one.
NextWDAwake ==
  \A t \in Threads : Asleep(t) /\ HasNextWD(t) =>
     \E u \in Threads : jobs[u] # <<>> /\ Job(u).op \in {"unblock", "wake"} /\ Job(u).to = t

\* So it is unless the program changes the team.
Woken == NoCalls /\ Steady => NextWDAwake

\* The part of the invariant that says who has WDs of its own.
Served == Own /\ Woken

\* A step that gives no WD and wakes up nobody.
LEMMA Gentle ==
  ASSUME Served, NEW t \in Threads, setup' = setup, Steady' => Steady,
         \A u \in Threads : u \in isWaiting' /\ HasNextWD(u)' => u \in isWaiting /\ HasNextWD(u),
         NoCalls /\ Steady' => \A u \in Threads : Asleep(u)' /\ HasNextWD(u)' => Asleep(u),
         \A u \in Threads \ {t} : jobs'[u] = jobs[u],
         jobs[t] # <<>> => Job(t).op \notin {"unblock", "wake"}
  PROVE  Served'
<1>1. Own'
  BY DEF Served, Own
<1>2. Woken'
  <2> SUFFICES ASSUME NoCalls, Steady', NEW u \in Threads, Asleep(u)', HasNextWD(u)'
               PROVE  \E v \in Threads : /\ jobs'[v] # <<>> /\ Job(v)'.op \in {"unblock", "wake"}
                                         /\ Job(v)'.to = u
    BY DEF Woken, NextWDAwake, NoCalls
  <2>1. Asleep(u) /\ HasNextWD(u)
    BY DEF Asleep
  <2>2. PICK v \in Threads : jobs[v] # <<>> /\ Job(v).op \in {"unblock", "wake"} /\ Job(v).to = u
    BY <2>1 DEF Served, Woken, NextWDAwake
  <2> QED
    BY <2>2 DEF Job
<1> QED
  BY <1>1, <1>2 DEF Served

\* The steps that have nothing to do with who is to sleep.
LEMMA CalmServed ==
  ASSUME Base, Served, NEW t \in Threads, Calm(t),
         \A u \in Threads : u \in isWaiting' /\ HasNextWD(u)' => u \in isWaiting /\ HasNextWD(u),
         jobs[t] # <<>> => Job(t).op \notin {"unblock", "wake"}
  PROVE  Served'
<1>1. \A u \in Threads : Asleep(u)' /\ HasNextWD(u)' => Asleep(u)
  BY DEF Calm, Asleep, Sleeping
<1> QED
  BY <1>1, Gentle DEF Calm

\* The calls that give no WD.
LEMMA CallsServed ==
  ASSUME Base, Served, NEW t \in Threads,
         \/ Submit(t) \/ Enqueue(t) \/ QueueBatch(t) \/ UnblockNext(t)
         \/ (AcquireOne(t) /\ UNCHANGED maskVars) \/ ExitWork(t) \/ AwaitStable(t)
         \/ (t = 0 /\ Join)
  PROVE  Served'
<1>1. Calm(t)
  BY CalmCalls
<1>2. UNCHANGED <<isWaiting, nextWDs>>
  BY DEF Submit, Enqueue, QueueBatch, UnblockNext, AcquireOne, ExitWork, AwaitStable, Join, flagVars, readyVars
<1>3. Job(t).op \notin {"unblock", "wake"}
  BY DEF Submit, Enqueue, QueueBatch, UnblockNext, AcquireOne, ExitWork, AwaitStable, Join, Doing, Job
<1> QED
  BY <1>1, <1>2, <1>3, CalmServed DEF HasNextWD

\* A thread takes a WD of its own.
LEMMA TakeOwn ==
  ASSUME Base, NEW t \in Threads, nextWDs' = [nextWDs EXCEPT ![t] = Tail(@)], nextWDs[t] # <<>>
  PROVE  \A u \in Threads : HasNextWD(u)' => HasNextWD(u)
BY DEF HasNextWD, Base, Types, TReady

\* The idle loop gives no WD.
LEMMA LoopServed ==
  ASSUME Base, Served, NEW t \in Threads,
         \/ SleepTest(t) \/ Wait(t) \/ Resume(t) \/ EndThread(t) \/ GetNextWD(t) \/ GetReadyWD(t)
         \/ GetNothing(t) \/ SpinAgain(t) \/ BlockTest(t)
  PROVE  Served'
<1>1. Calm(t) /\ jobs[t] = <<>>
  BY CalmLoop DEF SleepTest, Wait, Resume, EndThread, GetNextWD, GetReadyWD, GetNothing,
     SpinAgain, BlockTest,
     InLoop
<1>2. \A u \in Threads : HasNextWD(u)' => HasNextWD(u)
  <2>1. CASE GetNextWD(t)
    BY <2>1, TakeOwn DEF GetNextWD, HasNextWD
  <2>2. CASE ~ GetNextWD(t)
    BY <2>2 DEF SleepTest, Wait, Resume, EndThread, GetReadyWD, GetNothing,
     SpinAgain, BlockTest, readyVars,
       HasNextWD
  <2> QED
    BY <2>1, <2>2
<1>3. \A u \in Threads : u \in isWaiting' => u \in isWaiting \/ (u = t /\ ~ HasNextWD(t))
  BY DEF SleepTest, Wait, Resume, EndThread, GetNextWD, GetReadyWD, GetNothing,
     SpinAgain, BlockTest, flagVars,
     HasToWait
<1> QED
  BY <1>1, <1>2, <1>3, CalmServed

\* The steps of a WD that is executed give no WD by themselves.
LEMMA WDServed ==
  ASSUME Base, Served, NEW t \in Threads,
         \/ FinishWork(t) \/ LeaveTask(t) \/ CreateTask(t) \/ SetNumThreads(t) \/ TaskWait(t)
         \/ (t = 0 /\ OnMainThread)
  PROVE  Served'
<1>1. Calm(t) /\ jobs[t] = <<>>
  BY CalmWD DEF FinishWork, LeaveTask, CreateTask, SetNumThreads, TaskWait, OnMainThread, MainRuns,
     Executes
<1>2. isWaiting' = isWaiting
  BY DEF FinishWork, LeaveTask, CreateTask, SetNumThreads, TaskWait, OnMainThread, flagVars
<1>3. nextWDs' = nextWDs \/ (nextWDs' = [nextWDs EXCEPT ![t] = Tail(@)] /\ nextWDs[t] # <<>>)
  <2>1. CASE LeaveTask(t)
    <3>1. CASE nextWDs[t] = <<>>
      BY <2>1, <3>1 DEF LeaveTask, HasNextWD, Base, Types, TReady
    <3>2. CASE nextWDs[t] # <<>>
      BY <2>1, <3>2 DEF LeaveTask, HasNextWD
    <3> QED
      BY <3>1, <3>2
  <2>2. CASE ~ LeaveTask(t)
    BY <2>2 DEF FinishWork, CreateTask, SetNumThreads, TaskWait, OnMainThread, readyVars, HasNextWD,
       PopFront
  <2> QED
    BY <2>1, <2>2
<1>4. \A u \in Threads : HasNextWD(u)' => HasNextWD(u)
  BY <1>3, TakeOwn DEF HasNextWD
<1> QED
  BY <1>1, <1>2, <1>4, CalmServed

\* addNextWD gives a thread the WD.
LEMMA PushServed == ASSUME Base, Served, NEW t \in Threads, PushNextWD(t) PROVE Served'
<1>1. /\ jobs[t] # <<>> /\ Job(t).op = "push" /\ Then(t, <<Unblock(Job(t).to)>>)
      /\ nextWDs' = [nextWDs EXCEPT ![Job(t).to] = Append(@, Job(t).wd)]
      /\ UNCHANGED <<mustSleep, mustStop, isWaiting, setup, phase>>
  BY DEF PushNextWD, Doing, Job, flagVars, progVars
<1>2. PICK x \in Threads : x = Job(t).to
  BY <1>1, CallFacts, JobFacts
<1>3. \A u \in Threads \ {x} : HasNextWD(u)' <=> HasNextWD(u)
  BY <1>1, <1>2 DEF HasNextWD, Base, Types, TReady
<1>4. Own'
  <2> SUFFICES ASSUME setup.ties = {}, Steady, NEW u \in Threads, u \in isWaiting, u # 0 \/ setup.untied,
                      HasNextWD(u)'
               PROVE  FALSE
    BY <1>1 DEF Own, Steady
  <2>1. x = t \/ (x = 0 /\ ~ setup.untied)
    BY <1>1, <1>2, CallFacts DEF Sound
  <2>2. t \notin isWaiting
    BY <1>1, CallFacts
  <2> QED
    BY <1>3, <2>1, <2>2 DEF Served, Own
<1>5. PICK j \in JobSet : j = Unblock(x) /\ j.op = "unblock" /\ j.to = x
  BY JobMade DEF Unblock
<1>6. Job(t)' = j /\ jobs'[t] # <<>>
  BY <1>1, <1>2, <1>5, AfterOne
<1>7. Woken'
  <2> SUFFICES ASSUME NoCalls, Steady, NEW u \in Threads, Asleep(u), HasNextWD(u)'
               PROVE  \E v \in Threads : /\ jobs'[v] # <<>> /\ Job(v)'.op \in {"unblock", "wake"}
                                         /\ Job(v)'.to = u
    BY <1>1 DEF Woken, NextWDAwake, NoCalls, Steady, Asleep, Sleeping
  <2>1. CASE u = x
    BY <1>5, <1>6, <2>1
  <2>2. CASE u # x
    <3>1. PICK v \in Threads : jobs[v] # <<>> /\ Job(v).op \in {"unblock", "wake"} /\ Job(v).to = u
      BY <1>3, <2>2 DEF Served, Woken, NextWDAwake
    <3>2. v # t
      BY <1>1, <3>1
    <3>3. jobs'[v] = jobs[v]
      BY <1>1, <3>2 DEF Then, Base
    <3> QED
      BY <3>1, <3>3 DEF Job
  <2> QED
    BY <2>1, <2>2
<1> QED
  BY <1>4, <1>7 DEF Served

\* unblockThread tests whether the thread is to sleep.
LEMMA UnblockTestServed == ASSUME Base, Served, NEW t \in Threads, UnblockTest(t) PROVE Served'
<1>1. /\ jobs[t] # <<>> /\ Job(t).op = "unblock"
      /\ Then(t, IF Job(t).to \in Sleeping THEN <<[op |-> "wake", to |-> Job(t).to]>> ELSE <<>>)
      /\ UNCHANGED <<mustSleep, mustStop, isWaiting, nextWDs, setup, phase>>
  BY DEF UnblockTest, Doing, Job, flagVars, progVars, readyVars
<1>2. PICK x \in Threads : x = Job(t).to
  BY <1>1, CallFacts, JobFacts
<1>3. Own'
  BY <1>1 DEF Served, Own, Steady, HasNextWD
<1>4. PICK j \in JobSet : j = [op |-> "wake", to |-> x] /\ j.op = "wake" /\ j.to = x
  BY JobMade
<1>5. x \in Sleeping => Job(t)' = j /\ jobs'[t] # <<>>
  BY <1>1, <1>2, <1>4, AfterOne
<1>6. Woken'
  <2> SUFFICES ASSUME NoCalls, Steady, NEW u \in Threads, Asleep(u), HasNextWD(u)
               PROVE  \E v \in Threads : /\ jobs'[v] # <<>> /\ Job(v)'.op \in {"unblock", "wake"}
                                         /\ Job(v)'.to = u
    BY <1>1 DEF Woken, NextWDAwake, NoCalls, Steady, Asleep, Sleeping, HasNextWD
  <2>1. PICK v \in Threads : jobs[v] # <<>> /\ Job(v).op \in {"unblock", "wake"} /\ Job(v).to = u
    BY DEF Served, Woken, NextWDAwake
  <2>2. CASE v = t
    BY <1>2, <1>4, <1>5, <2>1, <2>2 DEF Asleep
  <2>3. CASE v # t
    <3>1. jobs'[v] = jobs[v]
      BY <1>1, <2>3 DEF Then, Base
    <3> QED
      BY <2>1, <3>1 DEF Job
  <2> QED
    BY <2>2, <2>3
<1> QED
  BY <1>3, <1>6 DEF Served

\* unblockThread takes the lock and wakes the thread up.
LEMMA UnblockWakeServed == ASSUME Base, Served, NEW t \in Threads, UnblockWake(t) PROVE Served'
<1>1. /\ jobs[t] # <<>> /\ TryWakeUp({Job(t).to})
      /\ \A u \in Threads \ {t} : jobs'[u] = jobs[u]
      /\ UNCHANGED <<mustStop, isWaiting, nextWDs, setup, phase>>
  BY DEF UnblockWake, Doing, Then, progVars, readyVars, TryWakeUp, Base
<1>2. Own'
  BY <1>1 DEF Served, Own, Steady, HasNextWD
<1>3. Woken'
  <2> SUFFICES ASSUME NoCalls, Steady, NEW u \in Threads, Asleep(u)', HasNextWD(u)
               PROVE  \E v \in Threads : /\ jobs'[v] # <<>> /\ Job(v)'.op \in {"unblock", "wake"}
                                         /\ Job(v)'.to = u
    BY <1>1 DEF Woken, NextWDAwake, NoCalls, Steady, HasNextWD
  <2>1. Asleep(u) /\ u # Job(t).to
    BY <1>1 DEF Asleep, Sleeping, TryWakeUp
  <2>2. PICK v \in Threads : jobs[v] # <<>> /\ Job(v).op \in {"unblock", "wake"} /\ Job(v).to = u
    BY <2>1 DEF Served, Woken, NextWDAwake
  <2> QED
    BY <1>1, <2>1, <2>2 DEF Job
<1> QED
  BY <1>2, <1>3 DEF Served

\* The steps that wake up threads, or do not change who sleeps.
LEMMA LockServed ==
  ASSUME Base, Served, NEW t \in Threads,
         \/ UnblockStatus(t) \/ AcquireOne(t) \/ MaskApplied(t) \/ BlockThread(t) \/ BlockStatus(t)
         \/ SetCpuActiveMask(t) \/ Shutdown(t) \/ (t = 0 /\ (StopThreads \/ EndMain))
  PROVE  Served'
<1>1. UNCHANGED <<isWaiting, nextWDs, setup>> /\ Sleeping' \subseteq Sleeping
  BY DEF UnblockStatus, AcquireOne, MaskApplied, BlockThread, BlockStatus, SetCpuActiveMask, Shutdown,
     StopThreads, EndMain, flagVars, readyVars, progVars, Sleeping, TryWakeUp
<1>2. phase' = phase \/ phase = "runs"
  BY DEF UnblockStatus, AcquireOne, MaskApplied, BlockThread, BlockStatus, SetCpuActiveMask, Shutdown,
     StopThreads, EndMain, progVars, MainRuns
<1>3. jobs' = jobs \/ \E r : jobs' = [jobs EXCEPT ![t] = r]
  BY DEF UnblockStatus, AcquireOne, MaskApplied, BlockThread, BlockStatus, SetCpuActiveMask, Shutdown,
     StopThreads, EndMain, Then
<1>4. \A u \in Threads \ {t} : jobs'[u] = jobs[u]
  BY <1>3 DEF Base
<1>5. jobs[t] # <<>> => Job(t).op \notin {"unblock", "wake"}
  BY DEF UnblockStatus, AcquireOne, MaskApplied, BlockThread, BlockStatus, SetCpuActiveMask, Shutdown,
     StopThreads, EndMain, Doing, Job, InLoop, MainRuns, Executes
<1>6. Steady' => Steady
  BY <1>1, <1>2 DEF Steady
<1> QED
  BY <1>1, <1>4, <1>5, <1>6, Gentle DEF Asleep, HasNextWD

\* The mask is applied to a CPU.
LEMMA ApplyServed == ASSUME Base, Awake, Served, NEW t \in Threads, ApplyMask(t) PROVE Served'
<1>1. /\ jobs[t] # <<>> /\ Job(t).op = "apply" /\ Job(t).cpus # {}
      /\ \A u \in Threads \ {t} : jobs'[u] = jobs[u]
      /\ UNCHANGED <<setup, phase, nextWDs>>
  BY DEF ApplyMask, Doing, Job, progVars, readyVars, Then, Base
<1>2. Job(t).cpus \in SUBSET Cpus
  BY <1>1, CallFacts, JobFacts
<1>3. PICK c \in Cpus : c = Min(Job(t).cpus)
  BY <1>1, <1>2, MinFact, ConstantFacts
<1>4. /\ c \in activeMask => TryWakeUp(ThreadsOf(c))
      /\ c \notin activeMask => Sleep(ThreadsOf(c))
  BY <1>3 DEF ApplyMask
<1>5. UNCHANGED <<isWaiting, mustStop>>
  BY <1>4 DEF TryWakeUp, Sleep
<1>6. NoCalls /\ Steady => Sleeping' \subseteq Sleeping
  <2> SUFFICES ASSUME NoCalls, Steady PROVE Sleeping' \subseteq Sleeping
    OBVIOUS
  <2>1. Top(jobs[t]) = "apply"
    BY <1>1, CallFacts
  <2>2. lock = t
    BY <2>1, Holders
  <2>3. ~ Updating(c)
    BY <2>1, <2>2, OnlyHolders DEF OnlyHolder
  <2>4. c \notin activeMask => ThreadsOf(c) \subseteq mustSleep \cup mustStop
    BY <2>3 DEF Awake, Dark, RunningThreads
  <2> QED
    BY <1>4, <1>5, <2>4 DEF TryWakeUp, Sleep, Sleeping
<1>7. (Steady' <=> Steady) /\ \A u \in Threads : HasNextWD(u)' <=> HasNextWD(u)
  BY <1>1 DEF Steady, HasNextWD
<1>8. NoCalls /\ Steady' => \A u \in Threads : Asleep(u)' => Asleep(u)
  BY <1>5, <1>6, <1>7 DEF Asleep
<1> QED
  BY <1>1, <1>5, <1>7, <1>8, Gentle

\* blockThread puts the thread to sleep.
LEMMA BlockSleepServed == ASSUME Base, Served, NEW t \in Threads, BlockSleep(t) PROVE Served'
<1>1. /\ InLoop(t, "sleep") /\ Sleep({t}) /\ UNCHANGED <<jobs, nextWDs, setup, phase, isWaiting>>
  BY DEF BlockSleep, progVars, readyVars, Sleep
<1>2. t \notin isWaiting /\ jobs[t] = <<>>
  BY <1>1, LoopFacts
<1>3. \A u \in Threads : Asleep(u)' => Asleep(u)
  BY <1>1, <1>2 DEF Asleep, Sleeping, Sleep
<1>4. (Steady' <=> Steady) /\ \A u \in Threads : HasNextWD(u)' <=> HasNextWD(u)
  BY <1>1 DEF Steady, HasNextWD
<1> QED
  BY <1>1, <1>2, <1>3, <1>4, Gentle

\* SetNumThreads has come to a worker.
LEMMA UpdateServed == ASSUME Base, Served, NEW t \in Threads, UpdateWorker(t) PROVE Served'
<1>1. /\ jobs[t] # <<>> /\ Job(t).op = "resize"
      /\ \A u \in Threads \ {t} : jobs'[u] = jobs[u]
      /\ UNCHANGED <<setup, phase, nextWDs, isWaiting>>
  BY DEF UpdateWorker, Doing, Job, progVars, readyVars, Then, Base, TryWakeUp, LeaveAndSleep
<1>2. ~ NoCalls
  BY <1>1, CallFacts DEF Sound, NoCalls
<1>3. (Steady' <=> Steady) /\ \A u \in Threads : HasNextWD(u)' <=> HasNextWD(u)
  BY <1>1 DEF Steady, HasNextWD
<1> QED
  BY <1>1, <1>2, <1>3, Gentle

\* Every step of a thread keeps it.
LEMMA StepServed == ASSUME Base, Awake, Served, NEW t \in Threads, Step(t) PROVE Served'
<1>1. CASE Calls(t)
  BY <1>1, CallsServed, PushServed, UnblockTestServed, UnblockWakeServed, LockServed, ApplyServed
  DEF Calls
<1>2. CASE IdleLoop(t)
  BY <1>2, LoopServed, LockServed, BlockSleepServed DEF IdleLoop
<1>3. CASE TaskEnd(t)
  BY <1>3, CallsServed, WDServed DEF TaskEnd
<1>4. CASE MainWD(t)
  BY <1>4, CallsServed, WDServed, LockServed, UpdateServed DEF MainWD
<1>5. CASE t = 0 /\ Ending
  BY <1>5, CallsServed, WDServed, LockServed DEF Ending
<1> QED
  BY <1>1, <1>2, <1>3, <1>4, <1>5 DEF Step

\* Every step keeps it.
LEMMA NextServed == Base /\ Awake /\ Served /\ [Next]_vars => Served'
<1>1. ASSUME Served, UNCHANGED vars PROVE Served'
  <2>1. UNCHANGED <<setup, phase, isWaiting, mustSleep, mustStop, nextWDs, jobs>>
    BY <1>1 DEF vars, flagVars, readyVars, progVars
  <2> QED
    BY <1>1, <2>1 DEF Served, Own, Woken, NextWDAwake, NoCalls, Steady, HasNextWD, Asleep, Sleeping, Job
<1> QED
  BY <1>1, StepServed DEF Next

\* It is an invariant of the specification.
LEMMA AlwaysServed == Spec => []Served
<1>1. Init => Served
  BY DEF Init, Served, Own, Woken, NextWDAwake, Asleep
<1> QED
  BY <1>1, NextServed, Bases, AlwaysAwake, PTL DEF Spec

\* Until an untied main WD moves to the main thread to end the program, a thread does not
\* sleep on work that only it can execute unless somebody is about to wake it up, if no task
\* is tied to a thread, or if the program changes neither the mask nor the number of threads
\* and no task has several successors.  Tied tasks that are released as a batch are left in
\* the ready queue without waking up the thread of the first one (bf_sched.cpp:107).
THEOREM NoWDSleeps ==
  Spec => []((setup.ties = {} \/ (NoCalls /\ ~ setup.forks)) /\ Steady => NoWDAsleep)
<1>1. ASSUME Base, Awake, Served, setup.ties = {} \/ (NoCalls /\ ~ setup.forks), Steady
      PROVE  NoWDAsleep
  <2> SUFFICES ASSUME NEW t \in Threads, Asleep(t), HasOwnWork(t)
               PROVE  \E u \in Threads : AboutToWake(u, t)
    BY DEF NoWDAsleep
  <2>1. \A i \in DOMAIN queue : tied[queue[i]] # t
    <3> SUFFICES ASSUME NEW i \in DOMAIN queue PROVE tied[queue[i]] = None
      BY ConstantFacts
    <3>1. CASE setup.ties = {}
      <4>1. queue[i] \in Created
        BY <1>1 DEF Base, Types, TReady
      <4> QED
        BY <1>1, <3>1, <4>1, TaskFacts DEF Base
    <3>2. CASE ~ setup.forks
      BY <1>1, <3>2 DEF Base, Types, TReady
    <3> QED
      BY <1>1, <3>1, <3>2
  <2>2. HasNextWD(t)
    BY <2>1 DEF HasOwnWork
  <2>3. PICK u \in Threads : jobs[u] # <<>> /\ Job(u).op \in {"unblock", "wake"} /\ Job(u).to = t
    <3>1. CASE setup.ties = {}
      BY <1>1, <2>2, <3>1 DEF Awake, MainAwake, Served, Own, Asleep, Sleeping
    <3>2. CASE NoCalls
      BY <1>1, <2>2, <3>2 DEF Served, Woken, NextWDAwake
    <3> QED
      BY <1>1, <3>1, <3>2
  <2>4. 1 \in DOMAIN jobs[u] /\ Job(u) = jobs[u][1]
    BY <1>1, <2>3 DEF Base, Job
  <2> QED
    BY <2>3, <2>4 DEF AboutToWake
<1> QED
  BY <1>1, Bases, AlwaysAwake, AlwaysServed, PTL
=============================================================================
