--------------------------- MODULE PlainDepsOrder ---------------------------
(***************************************************************************)
(* The dependence graph implements TaskOrder, for every program: tasks     *)
(* with conflicting accesses run in creation order, a wait returns after   *)
(* the tasks it names, and members of a commutative group exclude each     *)
(* other.                                                                  *)
(*                                                                         *)
(* The argument: an unfinished task that has entered its access to an      *)
(* address can be reached, against the edges of the graph, from whatever   *)
(* the domain holds for that address, so a later task that links itself    *)
(* behind the last writer and the readers is linked behind all of them.    *)
(* PlainDepsProofs!CInv gives the rest: an object that starts has no       *)
(* predecessor.                                                            *)
(***************************************************************************)
EXTENDS PlainDepsProofs

\* Phases of an object that has not finished.
Live == {"creating", "waiting", "held", "ready", "running"}

\* Following the edges from u one comes to t: every set that holds t and the
\* predecessors of its members holds u.
PredClosed(S) == \A s \in S : \A p \in Obj : Edge(p, s) => p \in S
Reach(u, t) == \A S \in SUBSET Obj : t \in S /\ PredClosed(S) => u \in S

\* The task or wait t has entered its access to the address a in the domain.
Settled(t, a) ==
  /\ kind[t] # "comm" /\ phase[t] # "none" /\ acc[t][a] # None
  /\ t = par.cur /\ par.pc \in Submitting =>
       a \notin par.todo /\ ~ (par.pc \in AtAccess /\ a = par.addr)

\* A wait the parent is in.
InWait == kind[par.cur] = "wait" /\ par.pc \in Submitting \cup {"release", "wait"}

\* Where the domain holds the task or wait u for the address a.
CoveredBy(u, a) ==
  \/ u \in readers[a]
  \/ lastWriter[a] # NULL /\ Reach(u, lastWriter[a])
  \/ commDO[a] # NULL /\ acc[commDO[a]][a] = acc[u][a] /\ Reach(u, commDO[a])
  \/ InWait /\ Reach(u, par.cur)
Covered ==
  \A u \in Obj : \A a \in Addr : Settled(u, a) /\ phase[u] \in Live => CoveredBy(u, a)

\* Later tasks wait for the earlier ones they conflict with.
Ordered ==
  \A u, t \in Obj : \A a \in Addr :
    u < t /\ Settled(u, a) /\ Settled(t, a) /\ phase[u] \in Live
      /\ ModesConflict(acc[u][a], acc[t][a]) => Reach(u, t)

\* The last writer of a has not finished.
LiveWriter(a) == lastWriter[a] # NULL /\ phase[lastWriter[a]] \in Live

\* The readers of an address have entered it, and no group is open behind them.
ReadersIn ==
  \A a \in Addr : /\ \A r \in readers[a] : Settled(r, a) /\ acc[r][a] = In
                  /\ commDO[a] # NULL => readers[a] = {}

\* The readers and the open group of an address are behind its last writer.
ReadersBehind ==
  \A a \in Addr : LiveWriter(a) => \A r \in readers[a] : Reach(lastWriter[a], r)
GroupBehind ==
  \A a \in Addr : LiveWriter(a) /\ commDO[a] # NULL
                  /\ ~ (par.pc \in {"lookup", "lock"} /\ par.addr = a) =>
    Reach(lastWriter[a], commDO[a])

\* What the parent knows of the address it works on.
AtAddress ==
  LET a == par.addr IN
  /\ par.pc = "drop" => Mode \in GroupModes
  /\ par.pc \in {"lookup", "lock", "drop"} /\ Mode \in GroupModes =>
       commDO[a] # NULL /\ commDO[a] \in succ[par.cur] /\ acc[commDO[a]][a] = Mode
  /\ par.pc \in AtAccess /\ Mode \notin GroupModes => commDO[a] = NULL
  /\ par.pc \in {"target", "lookup", "lock", "drop"} /\ Mode \in GroupModes =>
       readers[a] = {}
  /\ par.pc = "initReaders" => commDO[a] = NULL /\ (LiveWriter(a) => readers[a] # {})
  /\ par.pc = "lock" => lastWriter[a] \in {par.lw, NULL}
  /\ par.pc \in {"enlist", "drop"} /\ LiveWriter(a) =>
       Reach(lastWriter[a], par.cur) \/ (Mode = Out /\ readers[a] # {})

\* Identifiers grow, and objects not yet created declare nothing.
Fresher ==
  /\ \A o \in Created : kind[o] # "comm" => o <= par.cur
  /\ \A o \in Obj : phase[o] = "none" => acc[o] = NoAccess

\* Who runs owns the commutative slots it named.
Holders ==
  \A t \in Obj : \A a \in Addr :
    phase[t] \in {"running", "asked"} /\ acc[t][a] = Commutative => owner[a] = t

\* The inductive invariant, on top of IInv and CInv.
OInv == /\ Covered /\ Ordered /\ ReadersIn /\ ReadersBehind /\ GroupBehind /\ AtAddress
        /\ Fresher /\ Holders

-----------------------------------------------------------------------------
(* Reaching.                                                               *)

\* Every object reaches itself.
LEMMA ReachSelf == \A t : Reach(t, t)
BY DEF Reach

\* An edge is a way.
LEMMA ReachEdge == ASSUME NEW p \in Obj, NEW t \in Obj, Edge(p, t) PROVE Reach(p, t)
BY DEF Reach, PredClosed

\* Ways are put together.
LEMMA ReachTrans ==
  ASSUME NEW u, NEW v, NEW t, Reach(u, v), Reach(v, t) PROVE Reach(u, t)
BY DEF Reach

\* Whoever is reached by somebody else waits for a predecessor.
LEMMA ReachBlocked ==
  ASSUME IInv, CInv, NEW u \in Obj, NEW t \in Obj, Reach(u, t), u # t
  PROVE  phase[t] \in Blocked
<1>1. SUFFICES ASSUME phase[t] \notin Blocked PROVE FALSE
  OBVIOUS
<1>2. \A p \in Obj : ~ Edge(p, t)
  BY <1>1, EdgeFacts
<1>3. {t} \in SUBSET Obj /\ t \in {t} /\ PredClosed({t})
  BY <1>2 DEF PredClosed
<1> QED
  BY <1>3 DEF Reach

\* p keeps all its edges.
KeepsEdges(p) == \A s \in Obj : Edge(p, s) => Edge(p, s)'

\* Ways are lost only with the objects that finish, and those are the first of their ways.
LEMMA ReachKept ==
  ASSUME IInv, CInv,
         \A p \in Obj : KeepsEdges(p) \/ (phase[p] \notin Blocked /\ phase'[p] \notin Live)
  PROVE  \A u, t \in Obj : phase'[u] \in Live /\ Reach(u, t) => Reach(u, t)'
<1> SUFFICES ASSUME NEW u \in Obj, NEW t \in Obj, phase'[u] \in Live, Reach(u, t),
                    NEW S \in SUBSET Obj, t \in S, PredClosed(S)'
             PROVE  u \in S
  BY DEF Reach
<1> DEFINE X == {p \in Obj : phase[p] \notin Blocked /\ phase'[p] \notin Live}
<1>1. \A s \in X : \A p \in Obj : ~ Edge(p, s)
  BY EdgeFacts
<1>2. \A s \in S : \A p \in Obj : Edge(p, s) => p \in S \cup X
  BY DEF KeepsEdges, PredClosed
<1>3. PredClosed(S \cup X) /\ S \cup X \in SUBSET Obj
  BY <1>1, <1>2 DEF PredClosed
<1>4. u \in S \cup X
  BY <1>3 DEF Reach
<1> QED
  BY <1>4

-----------------------------------------------------------------------------
(* What keeps the invariant.                                               *)

\* Objects keep what they are, nobody comes back, and ways from unfinished objects stay.
Steady ==
  \A u \in Obj :
    /\ phase[u] # "none" => acc'[u] = acc[u] /\ kind'[u] = kind[u] /\ phase'[u] # "none"
    /\ phase[u] # "none" /\ phase'[u] \in Live => phase[u] \in Live
    /\ \A t \in Obj : phase'[u] \in Live /\ Reach(u, t) => Reach(u, t)'

\* Who has entered which address stays the same.
SettledSame == \A u \in Obj : \A a \in Addr : Settled(u, a)' <=> Settled(u, a)

\* The order of settled tasks stays.
LEMMA OrderKept == ASSUME OInv, Steady, SettledSame PROVE Ordered'
<1> SUFFICES ASSUME NEW u \in Obj, NEW t \in Obj, NEW a \in Addr, u < t, Settled(u, a)',
                    Settled(t, a)', phase'[u] \in Live, ModesConflict(acc'[u][a], acc'[t][a])
             PROVE  Reach(u, t)'
  BY DEF Ordered
<1>1. Settled(u, a) /\ Settled(t, a)
  BY DEF SettledSame
<1>2. phase[u] # "none" /\ phase[t] # "none"
  BY <1>1 DEF Settled
<1>3. acc'[u] = acc[u] /\ acc'[t] = acc[t] /\ phase[u] \in Live
  BY <1>2 DEF Steady
<1>4. Reach(u, t)
  BY <1>1, <1>3 DEF OInv, Ordered
<1> QED
  BY <1>4 DEF Steady

\* Coverage is checked address by address.
LEMMA CoverKept ==
  ASSUME OInv, Steady, SettledSame,
         \A u \in Obj : \A a \in Addr :
           (Settled(u, a) /\ phase[u] \in Live /\ phase'[u] \in Live /\ CoveredBy(u, a))
             => CoveredBy(u, a)'
  PROVE  Covered'
<1> SUFFICES ASSUME NEW u \in Obj, NEW a \in Addr, Settled(u, a)', phase'[u] \in Live
             PROVE  CoveredBy(u, a)'
  BY DEF Covered
<1>1. Settled(u, a)
  BY DEF SettledSame
<1>2. phase[u] \in Live
  BY <1>1 DEF Steady, Settled
<1> QED
  BY <1>1, <1>2 DEF OInv, Covered

\* Objects in the domain exist.
LEMMA DomainObj ==
  ASSUME IInv, CInv, NEW a \in Addr
  PROVE  /\ lastWriter[a] # NULL => lastWriter[a] \in Obj /\ phase[lastWriter[a]] # "none"
         /\ commDO[a] # NULL => /\ commDO[a] \in Obj /\ phase[commDO[a]] = "waiting"
                                /\ kind[commDO[a]] = "comm"
         /\ readers[a] \in SUBSET Obj
<1>1. lastWriter[a] # NULL => lastWriter[a] \in Obj /\ phase[lastWriter[a]] # "none"
  BY DEF IInv, TypeOK, WriterOK, Registered
<1>2. readers[a] \in SUBSET Obj
  BY DEF IInv, TypeOK
<1>3. ASSUME commDO[a] # NULL
      PROVE  commDO[a] \in Obj /\ phase[commDO[a]] = "waiting" /\ kind[commDO[a]] = "comm"
  <2>1. commDO[a] \in Obj /\ kind[commDO[a]] = "comm"
    BY <1>3 DEF IInv, TypeOK, GroupOK
  <2>2. IsOpen(commDO[a])
    BY DEF IsOpen
  <2>3. phase[commDO[a]] \in Blocked
    BY <2>1, <2>2, DummyFacts
  <2> QED
    BY <2>1, <2>3 DEF CInv, Lives, Blocked, Finishing
<1> QED
  BY <1>1, <1>2, <1>3

\* The domain loses only objects that have finished.
DomainShrinks ==
  /\ commDO' = commDO
  /\ \A a \in Addr : \/ lastWriter'[a] = lastWriter[a]
                     \/ lastWriter'[a] = NULL /\ ~ LiveWriter(a)
  /\ \A a \in Addr : /\ readers'[a] \subseteq readers[a]
                     /\ \A r \in readers[a] \ readers'[a] : phase[r] \notin Live

\* The wait goes on, or is over.
WaitStays == InWait => (InWait' /\ par'.cur = par.cur) \/ phase[par.cur] = "satisfied"

\* A live writer stays, and its readers with it.
LEMMA WriterStays ==
  ASSUME IInv, CInv, OInv, Steady, DomainShrinks, NEW a \in Addr, LiveWriter(a)'
  PROVE  LiveWriter(a) /\ lastWriter'[a] = lastWriter[a] /\ readers'[a] = readers[a]
<1>1. lastWriter'[a] = lastWriter[a] /\ lastWriter[a] # NULL
  BY DEF DomainShrinks, LiveWriter
<1>2. lastWriter[a] \in Obj /\ phase[lastWriter[a]] # "none"
  BY <1>1, DomainObj
<1>3. phase[lastWriter[a]] \in Live
  BY <1>1, <1>2 DEF LiveWriter, Steady
<1>4. LiveWriter(a)
  BY <1>1, <1>3 DEF LiveWriter
<1>5. \A r \in readers[a] : r \in readers'[a]
  <2>1. SUFFICES ASSUME NEW r \in readers[a], r \notin readers'[a] PROVE FALSE
    OBVIOUS
  <2>2. r \in Obj /\ phase[r] \notin Live /\ Reach(lastWriter[a], r)
    BY <1>4, <2>1, DomainObj DEF DomainShrinks, OInv, ReadersBehind
  <2>3. phase[r] \in Blocked
    BY <1>2, <1>3, <2>2, ReachBlocked
  <2> QED
    BY <2>2, <2>3 DEF Blocked, Live
<1> QED
  BY <1>1, <1>4, <1>5 DEF DomainShrinks

\* A step that leaves the domain alone, except for objects that have finished.
LEMMA Frame ==
  ASSUME IInv, CInv, OInv, Steady, SettledSame, DomainShrinks, WaitStays
  PROVE  Covered' /\ Ordered' /\ ReadersIn' /\ ReadersBehind'
<1>1. Covered'
  <2> SUFFICES ASSUME NEW u \in Obj, NEW a \in Addr, Settled(u, a), phase[u] \in Live,
                      phase'[u] \in Live, CoveredBy(u, a)
               PROVE  CoveredBy(u, a)'
    BY CoverKept
  <2>0. \A t \in Obj : Reach(u, t) => Reach(u, t)'
    BY DEF Steady
  <2>1. CASE u \in readers[a]
    BY <2>1 DEF DomainShrinks, CoveredBy
  <2>2. CASE lastWriter[a] # NULL /\ Reach(u, lastWriter[a])
    <3>1. lastWriter[a] \in Obj
      BY <2>2, DomainObj
    <3>2. phase[lastWriter[a]] \in Live
      BY <2>2, <3>1, ReachBlocked DEF Blocked, Live
    <3>3. lastWriter'[a] = lastWriter[a]
      BY <2>2, <3>2 DEF DomainShrinks, LiveWriter
    <3>4. Reach(u, lastWriter[a])'
      BY <2>0, <2>2, <3>1, <3>3
    <3> QED
      BY <2>2, <3>3, <3>4 DEF CoveredBy
  <2>3. CASE commDO[a] # NULL /\ acc[commDO[a]][a] = acc[u][a] /\ Reach(u, commDO[a])
    <3>1. commDO[a] \in Obj /\ phase[commDO[a]] # "none" /\ phase[u] # "none"
      BY <2>3, DomainObj DEF Settled
    <3>2. acc'[commDO[a]] = acc[commDO[a]] /\ acc'[u] = acc[u] /\ commDO' = commDO
      BY <3>1 DEF Steady, DomainShrinks
    <3>3. Reach(u, commDO[a])'
      BY <2>0, <2>3, <3>1, <3>2
    <3> QED
      BY <2>3, <3>2, <3>3 DEF CoveredBy
  <2>4. CASE InWait /\ Reach(u, par.cur)
    <3>1. par.cur \in Obj
      BY <2>4 DEF InWait, IInv, ParentOK
    <3>2. phase[par.cur] # "satisfied"
      BY <2>4, <3>1, ReachBlocked DEF Blocked, Live
    <3>3. InWait' /\ par'.cur = par.cur
      BY <2>4, <3>2 DEF WaitStays
    <3>4. Reach(u, par.cur)'
      BY <2>0, <2>4, <3>1, <3>3
    <3> QED
      BY <3>3, <3>4 DEF CoveredBy
  <2> QED
    BY <2>1, <2>2, <2>3, <2>4 DEF CoveredBy
<1>2. Ordered'
  BY OrderKept
<1>3. ReadersIn'
  <2> SUFFICES ASSUME NEW a \in Addr
               PROVE  /\ \A r \in readers'[a] : Settled(r, a)' /\ acc'[r][a] = In
                      /\ commDO'[a] # NULL => readers'[a] = {}
    BY DEF ReadersIn
  <2>1. readers'[a] \subseteq readers[a] /\ commDO' = commDO
    BY DEF DomainShrinks
  <2>2. ASSUME NEW r \in readers[a] PROVE Settled(r, a)' /\ acc'[r][a] = In
    <3>1. r \in Obj /\ Settled(r, a) /\ acc[r][a] = In
      BY DomainObj DEF OInv, ReadersIn
    <3>2. acc'[r] = acc[r]
      BY <3>1 DEF Steady, Settled
    <3> QED
      BY <3>1, <3>2 DEF SettledSame
  <2> QED
    BY <2>1, <2>2 DEF OInv, ReadersIn
<1>4. ReadersBehind'
  <2> SUFFICES ASSUME NEW a \in Addr, LiveWriter(a)', NEW r \in readers'[a]
               PROVE  Reach(lastWriter[a], r)'
    BY DEF ReadersBehind
  <2>1. LiveWriter(a) /\ lastWriter'[a] = lastWriter[a] /\ readers'[a] = readers[a]
    BY WriterStays
  <2>2. Reach(lastWriter[a], r) /\ r \in Obj /\ lastWriter[a] \in Obj
    BY <2>1, DomainObj DEF OInv, ReadersBehind, LiveWriter
  <2>3. phase'[lastWriter[a]] \in Live
    BY <2>1 DEF LiveWriter
  <2> QED
    BY <2>1, <2>2, <2>3 DEF Steady
<1> QED
  BY <1>1, <1>2, <1>3, <1>4

\* The open group stays behind the last writer where the parent is not at work.
LEMMA GroupKept ==
  ASSUME IInv, CInv, OInv, Steady, DomainShrinks,
         \A a \in Addr : par.pc \in {"lookup", "lock"} /\ par.addr = a =>
                           \/ par'.pc \in {"lookup", "lock"} /\ par'.addr = a
                           \/ LiveWriter(a)' /\ commDO'[a] # NULL =>
                                Reach(lastWriter[a], commDO[a])'
  PROVE  GroupBehind'
<1> SUFFICES ASSUME NEW a \in Addr, LiveWriter(a)', commDO'[a] # NULL,
                    ~ (par'.pc \in {"lookup", "lock"} /\ par'.addr = a)
             PROVE  Reach(lastWriter[a], commDO[a])'
  BY DEF GroupBehind
<1>0. SUFFICES ASSUME ~ (par.pc \in {"lookup", "lock"} /\ par.addr = a)
               PROVE  Reach(lastWriter[a], commDO[a])'
  OBVIOUS
<1>1. LiveWriter(a) /\ lastWriter'[a] = lastWriter[a] /\ commDO' = commDO
  BY WriterStays DEF DomainShrinks
<1>2. Reach(lastWriter[a], commDO[a])
  BY <1>0, <1>1 DEF OInv, GroupBehind
<1>3. lastWriter[a] \in Obj /\ commDO[a] \in Obj /\ phase'[lastWriter[a]] \in Live
  BY <1>1, DomainObj DEF LiveWriter
<1> QED
  BY <1>1, <1>2, <1>3 DEF Steady

\* Owner slots and running tasks that do not change.
LEMMA HoldersKept ==
  ASSUME OInv, owner' = owner,
         \A p \in Obj : phase'[p] \in {"running", "asked"} =>
                          phase'[p] = phase[p] /\ acc'[p] = acc[p]
  PROVE  Holders'
BY DEF OInv, Holders

\* What the parent knows stays while the workers move.
LEMMA AtAddressKept ==
  ASSUME IInv, CInv, OInv, Steady, DomainShrinks, UNCHANGED <<acc, kind, par>>,
         par.pc \in Submitting => succ'[par.cur] = succ[par.cur]
  PROVE  AtAddress'
<1>0. Mode' = Mode /\ commDO' = commDO
  BY DEF Mode, DomainShrinks
<1>1. /\ par.pc = "drop" => Mode \in GroupModes
      /\ par.pc \in {"lookup", "lock", "drop"} /\ Mode \in GroupModes =>
           commDO[par.addr] # NULL /\ commDO[par.addr] \in succ'[par.cur]
           /\ acc[commDO[par.addr]][par.addr] = Mode
      /\ par.pc \in AtAccess /\ Mode \notin GroupModes => commDO[par.addr] = NULL
  BY DEF OInv, AtAddress, AtAccess, Submitting
<1>2. SUFFICES ASSUME par.pc \in AtAccess
               PROVE  LET a == par.addr IN
      /\ par.pc \in {"target", "lookup", "lock", "drop"} /\ Mode \in GroupModes =>
           readers'[a] = {}
      /\ par.pc = "initReaders" => commDO[a] = NULL /\ (LiveWriter(a)' => readers'[a] # {})
      /\ par.pc = "lock" => lastWriter'[a] \in {par.lw, NULL}
      /\ par.pc \in {"enlist", "drop"} /\ LiveWriter(a)' =>
           Reach(lastWriter[a], par.cur)' \/ (Mode = Out /\ readers'[a] # {})
  BY <1>0, <1>1 DEF AtAddress, AtAccess, Submitting
<1>3. PICK a \in Addr : a = par.addr
  BY <1>2 DEF IInv, ParentOK
<1>4. PICK o \in Obj : o = par.cur
  BY <1>2 DEF IInv, ParentOK, AtAccess
<1>5. /\ readers'[a] \subseteq readers[a]
      /\ lastWriter'[a] \in {lastWriter[a], NULL}
  BY DEF DomainShrinks
<1>6. ASSUME LiveWriter(a)' PROVE LiveWriter(a) /\ lastWriter'[a] = lastWriter[a]
                                  /\ readers'[a] = readers[a]
  BY <1>6, WriterStays
<1>7. /\ par.pc \in {"target", "lookup", "lock", "drop"} /\ Mode \in GroupModes =>
           readers'[a] = {}
      /\ par.pc = "initReaders" => commDO[a] = NULL /\ (LiveWriter(a)' => readers'[a] # {})
      /\ par.pc = "lock" => lastWriter'[a] \in {par.lw, NULL}
  BY <1>3, <1>5, <1>6 DEF OInv, AtAddress
<1>8. ASSUME par.pc \in {"enlist", "drop"}, LiveWriter(a)'
      PROVE  Reach(lastWriter[a], o)' \/ (Mode = Out /\ readers'[a] # {})
  <2>1. Reach(lastWriter[a], o) \/ (Mode = Out /\ readers[a] # {})
    BY <1>3, <1>4, <1>6, <1>8 DEF OInv, AtAddress
  <2>2. lastWriter[a] \in Obj /\ phase'[lastWriter[a]] \in Live
    BY <1>6, <1>8, DomainObj DEF LiveWriter
  <2>3. Reach(lastWriter[a], o) => Reach(lastWriter[a], o)'
    <3>1. PICK w \in Obj : w = lastWriter[a]
      BY <2>2
    <3>2. Reach(w, o) => Reach(w, o)'
      BY <2>2, <3>1 DEF Steady
    <3> QED
      BY <1>6, <1>8, <3>1, <3>2
  <2> QED
    BY <1>6, <1>8, <2>1, <2>3
<1> QED
  BY <1>3, <1>4, <1>7, <1>8

\* A step of a worker.
LEMMA WorkerFrame ==
  ASSUME IInv, CInv, OInv, UNCHANGED <<lastDepObjId, kind, acc, par>>, DomainShrinks,
         \A p \in Obj : phase[p] = "none" <=> phase'[p] = "none",
         \A p \in Obj : phase'[p] \in Live => phase[p] \in Live,
         \A p \in Obj : KeepsEdges(p) \/ (phase[p] \notin Blocked /\ phase'[p] \notin Live),
         \A p \in Obj : phase[p] = "creating" => succ'[p] = succ[p],
         Holders'
  PROVE  OInv'
<1>1. Steady
  BY ReachKept DEF Steady
<1>2. SettledSame
  BY DEF SettledSame, Settled
<1>3. WaitStays
  BY DEF WaitStays, InWait
<1>4. Covered' /\ Ordered' /\ ReadersIn' /\ ReadersBehind'
  BY <1>1, <1>2, <1>3, Frame
<1>5. GroupBehind'
  BY <1>1, GroupKept
<1>6. AtAddress'
  <2>1. par.pc \in Submitting => succ'[par.cur] = succ[par.cur]
    BY DEF CInv, Building, IInv, ParentOK
  <2> QED
    BY <1>1, <2>1, AtAddressKept
<1>7. Fresher'
  BY CreatedObj DEF OInv, Fresher, Created
<1> QED
  BY <1>4, <1>5, <1>6, <1>7 DEF OInv

-----------------------------------------------------------------------------
(* The workers.                                                            *)

\* Whoever acquires its commutative accesses takes them from nobody.
LEMMA AcquireKeeps ==
  ASSUME IInv, OInv, NEW s \in Obj, CanAcquire(s), Acquire(s), acc' = acc,
         \A q \in Obj : phase'[q] \in {"running", "asked"} =>
                          q = s \/ phase[q] \in {"running", "asked"}
  PROVE  Holders'
<1> SUFFICES ASSUME NEW t \in Obj, NEW a \in Addr, phase'[t] \in {"running", "asked"},
                    acc[t][a] = Commutative
             PROVE  owner'[a] = t
  BY DEF Holders
<1>1. owner'[a] = IF acc[s][a] = Commutative THEN s ELSE owner[a]
  BY DEF Acquire, GroupsOf
<1>2. acc[s][a] = Commutative => owner[a] \in {NULL, s}
  BY DEF CanAcquire, GroupsOf
<1>3. t # s => owner[a] = t
  BY DEF OInv, Holders
<1>4. t # NULL
  BY DEF Obj, NULL
<1> QED
  BY <1>1, <1>2, <1>3, <1>4

\* One object moves on, and keeps its successors.
LEMMA MoveOrder ==
  ASSUME IInv, CInv, OInv, Holders', DomainShrinks, NEW o \in Obj,
         UNCHANGED <<lastDepObjId, kind, acc, succ, par>>,
         \A q \in Obj : q # o => phase'[q] = phase[q] /\ cursor'[q] = cursor[q],
         phase[o] \in {"ready", "held", "running", "asked", "satisfied", "unregister", "unread"},
         phase'[o] \in {"running", "unregister", "unread", "release"},
         phase'[o] = "running" => phase[o] \in {"ready", "held"},
         phase'[o] = "release" => cursor'[o] = succ[o]
  PROVE  OInv'
<1>1. \A p \in Obj : phase[p] = "none" <=> phase'[p] = "none"
  OBVIOUS
<1>2. \A p \in Obj : phase'[p] \in Live => phase[p] \in Live
  BY DEF Live
<1>3. \A p \in Obj : KeepsEdges(p)
  BY DEF KeepsEdges, Edge
<1> QED
  BY <1>1, <1>2, <1>3, WorkerFrame

\* A task starts.
LEMMA StartOrder == ASSUME IInv, CInv, OInv, NEW t \in Obj, Start(t) PROVE OInv'
<1>1. /\ UNCHANGED <<lastDepObjId, kind, acc, succ, par, cursor, lastWriter, readers, commDO>>
      /\ phase[t] \in {"ready", "held"}
      /\ phase'[t] = "running" /\ \A q \in Obj : q # t => phase'[q] = phase[q]
  BY DEF Start, identity, graph, domain, loops, IInv, TypeOK
<1>2. Holders'
  BY <1>1, AcquireKeeps DEF Start
<1>3. DomainShrinks
  BY <1>1 DEF DomainShrinks
<1> QED
  BY <1>1, <1>2, <1>3, MoveOrder

\* A task ends and gives its slots back.
LEMMA DoneOrder == ASSUME IInv, CInv, OInv, NEW t \in Obj, Done(t) PROVE OInv'
<1>1. /\ UNCHANGED <<lastDepObjId, kind, acc, succ, par, lastWriter, readers, commDO>>
      /\ phase[t] \in {"running", "asked"}
  BY DEF Done, identity, graph, domain
<1>2. /\ \A q \in Obj : q # t => phase'[q] = phase[q] /\ cursor'[q] = cursor[q]
      /\ phase'[t] \in {"unregister", "unread", "release"}
      /\ phase'[t] = "release" => cursor'[t] = succ[t]
  BY AdvanceEffect DEF Done
<1>3. Holders'
  <2> SUFFICES ASSUME NEW q \in Obj, NEW a \in Addr, phase'[q] \in {"running", "asked"},
                      acc[q][a] = Commutative
               PROVE  owner'[a] = q
    BY <1>1 DEF Holders
  <2>1. q # t /\ phase[q] \in {"running", "asked"}
    BY <1>2
  <2>2. owner[a] = q
    BY <2>1 DEF OInv, Holders
  <2>3. acc[t][a] # Commutative
    BY <1>1, <2>1, <2>2 DEF OInv, Holders
  <2> QED
    BY <2>2, <2>3 DEF Done, GroupsOf
<1>4. DomainShrinks
  BY <1>1 DEF DomainShrinks
<1> QED
  BY <1>1, <1>2, <1>3, <1>4, MoveOrder

\* An object leaves the domain.
LEMMA FinishOrder ==
  ASSUME IInv, CInv, OInv, NEW o \in Obj,
         RemoveCommDO(o) \/ DeleteLastWriter(o) \/ \E a \in Addr : DeleteReader(o, a)
  PROVE  OInv'
<1>1. /\ UNCHANGED <<lastDepObjId, kind, acc, succ, owner, par>>
      /\ phase[o] \in {"satisfied", "unregister", "unread"}
  BY DEF RemoveCommDO, DeleteLastWriter, DeleteReader, Moves, identity, graph, domain
<1>2. \E W, R : Advance(o, W, R)
  BY DEF RemoveCommDO, DeleteLastWriter, DeleteReader
<1>3. /\ \A q \in Obj : q # o => phase'[q] = phase[q] /\ cursor'[q] = cursor[q]
      /\ phase'[o] \in {"unregister", "unread", "release"}
      /\ phase'[o] = "release" => cursor'[o] = succ[o]
  BY <1>2, AdvanceEffect
<1>4. DomainShrinks
  <2>1. commDO' = commDO
    BY RemoveNothing DEF DeleteLastWriter, DeleteReader
  <2>2. phase[o] \notin Live
    BY <1>1 DEF Live
  <2>3. CASE RemoveCommDO(o)
    BY <2>1, <2>3 DEF RemoveCommDO, DomainShrinks
  <2>4. CASE DeleteLastWriter(o)
    BY <2>1, <2>2, <2>4 DEF DeleteLastWriter, DomainShrinks, LiveWriter
  <2>5. ASSUME NEW a \in Addr, DeleteReader(o, a) PROVE DomainShrinks
    <3>1. lastWriter' = lastWriter /\ readers' = [readers EXCEPT ![a] = @ \ {o}]
      BY <2>5 DEF DeleteReader
    <3>2. \A b \in Addr : /\ readers'[b] \subseteq readers[b]
                          /\ \A r \in readers[b] \ readers'[b] : r = o
      BY <3>1 DEF IInv, TypeOK
    <3> QED
      BY <2>1, <2>2, <3>1, <3>2 DEF DomainShrinks
  <2> QED
    BY <2>3, <2>4, <2>5
<1>5. Holders'
  BY <1>1, <1>3, HoldersKept
<1> QED
  BY <1>1, <1>3, <1>4, <1>5, MoveOrder

\* A successor is taken: its edge goes with the task that ended.
LEMMA TakeOrder ==
  ASSUME IInv, CInv, OInv, NEW t \in Obj, NEW s \in Obj, TakeImmediateSuccessor(t, s)
  PROVE  OInv'
<1>1. /\ UNCHANGED <<lastDepObjId, kind, acc, par, cursor, lastWriter, readers, commDO>>
      /\ phase[t] = "running" /\ CanAcquire(s) /\ Acquire(s)
  BY DEF TakeImmediateSuccessor, IsImmediateSuccessor, identity, domain, loops
<1>2. phase[s] = "waiting" /\ s # t
  BY <1>1, ImmediateFacts DEF TakeImmediateSuccessor
<1>3. /\ succ'[t] = succ[t] \ {s} /\ \A q \in Obj : q # t => succ'[q] = succ[q]
      /\ phase'[t] = "asked" /\ phase'[s] = "ready"
      /\ \A q \in Obj : q # t /\ q # s => phase'[q] = phase[q]
  BY <1>2 DEF TakeImmediateSuccessor, IInv, TypeOK
<1>4. Holders'
  BY <1>1, <1>2, <1>3, AcquireKeeps
<1>5. DomainShrinks
  BY <1>1 DEF DomainShrinks
<1>6. /\ \A p \in Obj : phase[p] = "none" <=> phase'[p] = "none"
      /\ \A p \in Obj : phase'[p] \in Live => phase[p] \in Live
      /\ \A p \in Obj : phase[p] = "creating" => succ'[p] = succ[p]
  BY <1>1, <1>2, <1>3 DEF Live
<1>7. \A p \in Obj : KeepsEdges(p) \/ (phase[p] \notin Blocked /\ phase'[p] \notin Live)
  <2>1. \A p \in Obj : p # t => KeepsEdges(p)
    BY <1>1, <1>2, <1>3 DEF KeepsEdges, Edge
  <2>2. phase[t] \notin Blocked /\ phase'[t] \notin Live
    BY <1>1, <1>3 DEF Blocked, Live
  <2> QED
    BY <2>1, <2>2
<1> QED
  BY <1>1, <1>4, <1>5, <1>6, <1>7, WorkerFrame

\* A successor is held, behind its edge.
LEMMA HoldOrder ==
  ASSUME IInv, CInv, OInv, NEW t \in Obj, NEW s \in Obj, HoldImmediateSuccessor(t, s)
  PROVE  OInv'
<1>1. /\ UNCHANGED <<lastDepObjId, kind, acc, succ, par, cursor, lastWriter, readers, commDO>>
      /\ phase[t] \in {"held", "running"} /\ CanAcquire(s) /\ Acquire(s)
  BY DEF HoldImmediateSuccessor, IsImmediateSuccessor, identity, graph, domain, loops
<1>2. phase[s] = "waiting"
  BY <1>1, ImmediateFacts DEF HoldImmediateSuccessor
<1>3. phase'[s] = "held" /\ \A q \in Obj : q # s => phase'[q] = phase[q]
  BY DEF HoldImmediateSuccessor, IInv, TypeOK
<1>4. Holders'
  BY <1>1, <1>2, <1>3, AcquireKeeps
<1>5. DomainShrinks
  BY <1>1 DEF DomainShrinks
<1>6. /\ \A p \in Obj : phase[p] = "none" <=> phase'[p] = "none"
      /\ \A p \in Obj : phase'[p] \in Live => phase[p] \in Live
  BY <1>2, <1>3 DEF Live
<1>7. \A p \in Obj : KeepsEdges(p)
  BY <1>1, <1>2, <1>3 DEF KeepsEdges, Edge
<1> QED
  BY <1>1, <1>4, <1>5, <1>6, <1>7, WorkerFrame

\* The release loop: edges go with an object that has finished.
LEMMA LoopOrder ==
  ASSUME IInv, CInv, OInv, NEW o \in Obj, phase[o] = "release", phase'[o] \in {"release", "gone"},
         UNCHANGED <<lastDepObjId, kind, acc, succ, owner, par, lastWriter, readers, commDO>>,
         \A q \in Obj : q # o => cursor'[q] = cursor[q],
         \A q \in Obj : q # o => \/ phase'[q] = phase[q]
                                 \/ phase[q] = "waiting" /\ phase'[q] \in {"ready", "satisfied"}
  PROVE  OInv'
<1>1. Holders'
  BY HoldersKept
<1>2. DomainShrinks
  BY DEF DomainShrinks
<1>3. /\ \A p \in Obj : phase[p] = "none" <=> phase'[p] = "none"
      /\ \A p \in Obj : phase'[p] \in Live => phase[p] \in Live
  BY DEF Live
<1>4. \A p \in Obj : KeepsEdges(p) \/ (phase[p] \notin Blocked /\ phase'[p] \notin Live)
  <2>1. \A p \in Obj : p # o => KeepsEdges(p)
    BY DEF KeepsEdges, Edge
  <2>2. phase[o] \notin Blocked /\ phase'[o] \notin Live
    BY DEF Blocked, Live
  <2> QED
    BY <2>1, <2>2
<1> QED
  BY <1>1, <1>2, <1>3, <1>4, WorkerFrame

\* The steps of the release loop.
LEMMA ReleaseOrder ==
  ASSUME IInv, CInv, OInv, NEW o \in Obj,
         \/ \E s \in Obj : CheckBatch(o, s) \/ ReleaseSuccessor(o, s)
         \/ BatchRelease(o) \/ SubmitBatch(o)
  PROVE  OInv'
<1>1. /\ UNCHANGED <<lastDepObjId, kind, acc, succ, owner, par, lastWriter, readers, commDO>>
      /\ phase[o] = "release"
  BY DEF CheckBatch, ReleaseSuccessor, BatchRelease, SubmitBatch, Moves, identity, graph,
     domain
<1>2. \A q \in Obj : q # o => cursor'[q] = cursor[q]
  BY DEF CheckBatch, ReleaseSuccessor, BatchRelease, SubmitBatch, loops, IInv, TypeOK
<1>3. ASSUME NEW s \in Obj, ReleaseSuccessor(o, s)
      PROVE  /\ \A q \in Obj : q # s => phase'[q] = phase[q]
             /\ \/ phase'[s] = phase[s]
                \/ phase'[s] \in {"ready", "satisfied"} /\ phase[s] = "waiting"
             /\ s # o
  <2>1. s \in cursor[o] /\ DecreasePredecessors(s, o)
    BY <1>3 DEF ReleaseSuccessor
  <2>2. Edge(o, s)
    BY <1>1, <2>1 DEF Edge
  <2>3. numPred[s] = CountOf(s) /\ phase[s] \in Blocked
    BY <2>2, EdgeFacts
  <2>4. numPred[s] = 1 => phase[s] # "creating"
    <3>1. SUFFICES ASSUME phase[s] = "creating" PROVE IsFake(s)
      BY <2>2, <2>3, LastEdge
    <3> QED
      BY <3>1 DEF CInv, Building, IsFake, Submitting
  <2> QED
    BY <1>1, <2>1, <2>3, <2>4, DecreaseEffect DEF Blocked
<1>4. ASSUME SubmitBatch(o)
      PROVE  /\ phase'[o] = "gone"
             /\ \A q \in Obj : q # o => \/ phase'[q] = phase[q]
                                        \/ phase[q] = "waiting" /\ phase'[q] = "ready"
  <2>1. \A q \in batch[o] : phase[q] = "waiting"
    BY <1>1 DEF CInv, Batches
  <2>2. \A q \in Obj : phase'[q] = IF q = o THEN "gone"
                                    ELSE IF q \in batch[o] THEN "ready" ELSE phase[q]
    BY <1>4 DEF SubmitBatch
  <2> QED
    BY <2>1, <2>2
<1>5. \A s \in Obj : CheckBatch(o, s) => phase' = phase
  BY DEF CheckBatch
<1>6. BatchRelease(o) => phase' = phase
  BY DEF BatchRelease
<1>7. /\ phase'[o] \in {"release", "gone"}
      /\ \A q \in Obj : q # o => \/ phase'[q] = phase[q]
                                 \/ phase[q] = "waiting" /\ phase'[q] \in {"ready", "satisfied"}
  BY <1>1, <1>3, <1>4, <1>5, <1>6
<1> QED
  BY <1>1, <1>2, <1>7, LoopOrder

-----------------------------------------------------------------------------
(* The parent, where it leaves the domain alone.                           *)

\* The parent is not at an address.
LEMMA AwayFromAddress == ASSUME par'.pc \notin AtAccess PROVE AtAddress'
BY DEF AtAddress, AtAccess, Submitting

\* A step of the parent that adds edges at most, or lets its object go on.
LEMMA ParentFrame ==
  ASSUME IInv, CInv, OInv, par'.cur = par.cur, SettledSame, WaitStays, AtAddress',
         UNCHANGED <<lastDepObjId, kind, acc, owner, lastWriter, readers, commDO>>,
         \A p \in Obj : KeepsEdges(p),
         \A p \in Obj : phase[p] = "none" <=> phase'[p] = "none",
         \A p \in Obj : phase'[p] \in Live => phase[p] \in Live,
         \A p \in Obj : phase'[p] \in {"running", "asked"} => phase'[p] = phase[p],
         \A a \in Addr : par.pc \in {"lookup", "lock"} /\ par.addr = a =>
                           \/ par'.pc \in {"lookup", "lock"} /\ par'.addr = a
                           \/ LiveWriter(a)' /\ commDO'[a] # NULL =>
                                Reach(lastWriter[a], commDO[a])'
  PROVE  OInv'
<1>1. Steady
  BY ReachKept DEF Steady
<1>2. DomainShrinks
  BY DEF DomainShrinks
<1>3. Covered' /\ Ordered' /\ ReadersIn' /\ ReadersBehind'
  BY <1>1, <1>2, Frame
<1>4. GroupBehind'
  BY <1>1, <1>2, GroupKept
<1>5. Fresher'
  BY CreatedObj DEF OInv, Fresher, Created
<1>6. Holders'
  BY HoldersKept
<1> QED
  BY <1>3, <1>4, <1>5, <1>6 DEF OInv

\* The same edges, and the same phases.
LEMMA SameGraph ==
  ASSUME UNCHANGED <<phase, succ, cursor>>
  PROVE  /\ \A p \in Obj : KeepsEdges(p)
         /\ \A p \in Obj : phase[p] = "none" <=> phase'[p] = "none"
         /\ \A p \in Obj : phase'[p] \in Live => phase[p] \in Live
         /\ \A p \in Obj : phase'[p] \in {"running", "asked"} => phase'[p] = phase[p]
BY DEF KeepsEdges, Edge

\* The last writer is read, or skipped.
LEMMA ReadLastWriterOrder == ASSUME IInv, CInv, OInv, ReadLastWriter PROVE OInv'
<1>1. /\ UNCHANGED <<lastDepObjId, kind, acc, owner, lastWriter, readers, commDO, phase, succ,
                     cursor>>
      /\ par.pc = "lookup"
  BY DEF ReadLastWriter, ParentMoves, identity, graph, domain, loops
<1>2. PICK a \in Addr : a = par.addr
  BY <1>1 DEF IInv, ParentOK, AtAccess, Submitting
<1> DEFINE skip == lastWriter[a] = NULL \/ (Mode = Out /\ readers[a] # {})
<1>3. par' = [par EXCEPT !.lw = IF skip THEN NULL ELSE lastWriter[a],
                         !.pc = IF skip THEN AfterLastWriter ELSE "lock"]
  BY <1>2 DEF ReadLastWriter
<1> HIDE DEF skip
<1>4. /\ par'.cur = par.cur /\ par'.addr = par.addr /\ par'.todo = par.todo
      /\ skip => par'.pc = AfterLastWriter
      /\ ~ skip => par'.pc = "lock" /\ par'.lw = lastWriter[a]
  BY <1>3 DEF IInv, TypeOK, ParentStates
<1>5. AfterLastWriter = (IF Mode \in GroupModes THEN "drop" ELSE "enlist") /\ Mode' = Mode
  BY <1>1, <1>4 DEF AfterLastWriter, Mode
<1>6. SettledSame
  BY <1>1, <1>4, <1>5 DEF SettledSame, Settled, Submitting, AtAccess
<1>7. WaitStays
  BY <1>1, <1>4, <1>5 DEF WaitStays, InWait, Submitting
<1>8. \A b \in Addr : LiveWriter(b)' <=> LiveWriter(b)
  BY <1>1 DEF LiveWriter
<1>9. AtAddress'
  <2>1. /\ Mode \in GroupModes => /\ commDO[a] # NULL /\ commDO[a] \in succ[par.cur]
                                  /\ acc[commDO[a]][a] = Mode /\ readers[a] = {}
        /\ Mode \notin GroupModes => commDO[a] = NULL
    BY <1>1, <1>2 DEF OInv, AtAddress, AtAccess, Submitting
  <2>2. skip /\ LiveWriter(a) => Mode = Out /\ readers[a] # {}
    BY DEF skip, LiveWriter
  <2> QED
    BY <1>1, <1>2, <1>4, <1>5, <1>8, <2>1, <2>2 DEF AtAddress
<1>10. ASSUME LiveWriter(a)', commDO'[a] # NULL PROVE par'.pc \in {"lookup", "lock"}
  <2>1. Mode \in GroupModes
    BY <1>1, <1>2, <1>10 DEF OInv, AtAddress, AtAccess, Submitting
  <2>2. ~ skip
    BY <1>8, <1>10, <2>1 DEF skip, LiveWriter, GroupModes, Out, Concurrent, Commutative
  <2> QED
    BY <1>4, <2>2
<1>11. \A p \in Obj : KeepsEdges(p)
  BY <1>1, SameGraph
<1> QED
  BY <1>1, <1>2, <1>4, <1>6, <1>7, <1>9, <1>10, <1>11, ParentFrame

\* The parent looks for readers.
LEMMA LookupReadersOrder == ASSUME IInv, CInv, OInv, LookupReaders PROVE OInv'
<1>1. /\ UNCHANGED <<lastDepObjId, kind, acc, owner, lastWriter, readers, commDO, phase, succ,
                     cursor>>
      /\ par.pc = "init"
  BY DEF LookupReaders, ParentMoves, identity, graph, domain, loops
<1>2. PICK a \in Addr : a = par.addr
  BY <1>1 DEF IInv, ParentOK, AtAccess, Submitting
<1>3. /\ par'.cur = par.cur /\ par'.addr = par.addr /\ par'.todo = par.todo
      /\ par'.pc = IF readers[a] = {} THEN "target" ELSE "initReaders"
  BY <1>2 DEF LookupReaders, Goto, IInv, TypeOK, ParentStates
<1>4. Mode' = Mode /\ Mode \in GroupModes
  BY <1>1, <1>3 DEF Mode, IInv, ParentOK, AtGroup
<1>5. SettledSame /\ WaitStays
  BY <1>1, <1>3 DEF SettledSame, Settled, WaitStays, InWait, Submitting, AtAccess
<1>6. AtAddress'
  <2>1. readers[a] # {} => commDO[a] = NULL
    BY DEF OInv, ReadersIn
  <2> QED
    BY <1>1, <1>2, <1>3, <1>4, <2>1 DEF AtAddress
<1>7. \A p \in Obj : KeepsEdges(p)
  BY <1>1, SameGraph
<1> QED
  BY <1>1, <1>3, <1>5, <1>6, <1>7, ParentFrame

\* Entering a taskwait.
LEMMA TaskWaitOrder == ASSUME IInv, CInv, OInv, TaskWait PROVE OInv'
<1>1. /\ UNCHANGED <<lastDepObjId, kind, acc, owner, lastWriter, readers, commDO, phase, succ,
                     cursor>>
      /\ par.pc = "idle"
  BY DEF TaskWait, ParentMoves, identity, graph, domain, loops
<1>2. par'.cur = par.cur /\ par'.pc = "taskwait"
  BY DEF TaskWait, Goto, IInv, TypeOK, ParentStates
<1>3. SettledSame /\ WaitStays
  BY <1>1, <1>2 DEF SettledSame, Settled, WaitStays, InWait, Submitting
<1>4. AtAddress'
  BY <1>2, AwayFromAddress DEF AtAccess, Submitting
<1>5. \A p \in Obj : KeepsEdges(p)
  BY <1>1, SameGraph
<1> QED
  BY <1>1, <1>2, <1>3, <1>4, <1>5, ParentFrame

\* The task or wait is in the graph.
LEMMA SubmitOrder == ASSUME IInv, CInv, OInv, Submit PROVE OInv'
<1>1. /\ UNCHANGED <<lastDepObjId, kind, acc, owner, lastWriter, readers, commDO, succ, cursor>>
      /\ par.pc = "next" /\ par.todo = {}
  BY DEF Submit, ParentMoves, identity, graph, domain, loops
<1>2. PICK o \in Obj : o = par.cur /\ phase[o] = "creating"
  BY <1>1 DEF IInv, ParentOK, CInv, Building, Submitting
<1>3. /\ par'.cur = par.cur /\ par'.pc = "release"
      /\ phase'[o] = "waiting" /\ \A q \in Obj : q # o => phase'[q] = phase[q]
  BY <1>2 DEF Submit, Goto, IInv, TypeOK, ParentStates
<1>4. SettledSame /\ WaitStays
  BY <1>1, <1>2, <1>3 DEF SettledSame, Settled, WaitStays, InWait, Submitting, AtAccess
<1>5. AtAddress'
  BY <1>3, AwayFromAddress DEF AtAccess, Submitting
<1>6. \A p \in Obj : KeepsEdges(p)
  BY <1>1, <1>2, <1>3 DEF KeepsEdges, Edge
<1>7. /\ \A p \in Obj : phase[p] = "none" <=> phase'[p] = "none"
      /\ \A p \in Obj : phase'[p] \in Live => phase[p] \in Live
      /\ \A p \in Obj : phase'[p] \in {"running", "asked"} => phase'[p] = phase[p]
  BY <1>2, <1>3 DEF Live
<1> QED
  BY <1>1, <1>3, <1>4, <1>5, <1>6, <1>7, ParentFrame

\* What dropping a predecessor does to the phases.
LEMMA DropPhases ==
  ASSUME IInv, CInv, NEW o \in Obj, NEW by, DecreasePredecessors(o, by), phase[o] = "waiting",
         UNCHANGED <<succ, cursor>>
  PROVE  /\ \A p \in Obj : \/ phase'[p] = phase[p]
                           \/ /\ p = o /\ phase[o] = "waiting"
                              /\ phase'[o] \in {"ready", "satisfied"}
         /\ \A p \in Obj : KeepsEdges(p)
         /\ \A p \in Obj : phase[p] = "none" <=> phase'[p] = "none"
         /\ \A p \in Obj : phase'[p] \in Live => phase[p] \in Live
         /\ \A p \in Obj : phase'[p] \in {"running", "asked"} => phase'[p] = phase[p]
<1>1. \A p \in Obj : \/ phase'[p] = phase[p]
                     \/ /\ p = o /\ phase[o] = "waiting" /\ phase'[o] \in {"ready", "satisfied"}
  BY DecreaseEffect DEF Blocked
<1>2. \A p \in Obj : KeepsEdges(p)
  BY <1>1 DEF KeepsEdges, Edge
<1> QED
  BY <1>1, <1>2 DEF Live

\* The fake predecessor is dropped.
LEMMA ReleaseFakeOrder == ASSUME IInv, CInv, OInv, ReleaseFake PROVE OInv'
<1>1. /\ UNCHANGED <<lastDepObjId, kind, acc, owner, lastWriter, readers, commDO, succ, cursor>>
      /\ par.pc = "release" /\ DecreasePredecessors(par.cur, Parent)
  BY DEF ReleaseFake, ParentMoves, identity, domain, loops
<1>2. PICK o \in Obj : o = par.cur /\ phase[o] = "waiting"
  BY <1>1 DEF IInv, ParentOK, CInv, Building
<1>3. par'.cur = par.cur /\ par'.pc = IF kind[o] = "wait" THEN "wait" ELSE "idle"
  BY <1>2 DEF ReleaseFake, Waits, Goto, IInv, TypeOK, ParentStates
<1>4. /\ \A p \in Obj : KeepsEdges(p)
      /\ \A p \in Obj : phase[p] = "none" <=> phase'[p] = "none"
      /\ \A p \in Obj : phase'[p] \in Live => phase[p] \in Live
      /\ \A p \in Obj : phase'[p] \in {"running", "asked"} => phase'[p] = phase[p]
  BY <1>1, <1>2, DropPhases
<1>5. SettledSame /\ WaitStays
  BY <1>1, <1>2, <1>3, <1>4 DEF SettledSame, Settled, WaitStays, InWait, Submitting
<1>6. AtAddress'
  BY <1>3, AwayFromAddress DEF AtAccess, Submitting
<1> QED
  BY <1>1, <1>3, <1>4, <1>5, <1>6, ParentFrame

\* A wait returns: it precedes nobody.
LEMMA WaitReturnsOrder == ASSUME IInv, CInv, OInv, WaitReturns PROVE OInv'
<1>1. /\ UNCHANGED <<lastDepObjId, kind, acc, owner, lastWriter, readers, commDO, succ, cursor>>
      /\ par.pc = "wait" /\ phase[par.cur] = "satisfied"
  BY DEF WaitReturns, ParentMoves, identity, graph, domain, loops
<1>2. PICK o \in Obj : o = par.cur /\ kind[o] = "wait"
  BY <1>1 DEF IInv, ParentOK
<1>3. /\ par'.cur = par.cur /\ par'.pc = "idle"
      /\ phase'[o] = "gone" /\ \A q \in Obj : q # o => phase'[q] = phase[q]
  BY <1>2 DEF WaitReturns, Goto, IInv, TypeOK, ParentStates
<1>4. succ[o] = {}
  BY <1>2 DEF CInv, EdgeKinds
<1>5. \A p \in Obj : KeepsEdges(p)
  BY <1>1, <1>2, <1>3, <1>4 DEF KeepsEdges, Edge
<1>6. SettledSame /\ WaitStays
  BY <1>1, <1>2, <1>3 DEF SettledSame, Settled, WaitStays, Submitting
<1>7. AtAddress'
  BY <1>3, AwayFromAddress DEF AtAccess, Submitting
<1>8. /\ \A p \in Obj : phase[p] = "none" <=> phase'[p] = "none"
      /\ \A p \in Obj : phase'[p] \in Live => phase[p] \in Live
      /\ \A p \in Obj : phase'[p] \in {"running", "asked"} => phase'[p] = phase[p]
  BY <1>1, <1>2, <1>3 DEF Live
<1> QED
  BY <1>1, <1>3, <1>5, <1>6, <1>7, <1>8, ParentFrame

\* The edge from the last writer.
LEMMA LockLastWriterOrder == ASSUME IInv, CInv, OInv, LockLastWriter PROVE OInv'
<1>1. /\ UNCHANGED <<lastDepObjId, kind, acc, owner, lastWriter, readers, commDO, phase, cursor>>
      /\ par.pc = "lock"
  BY DEF LockLastWriter, ParentMoves, identity, domain, loops
<1>2. PICK a \in Addr : a = par.addr
  BY <1>1 DEF IInv, ParentOK, AtAccess, Submitting
<1>3. PICK o \in Obj : o = par.cur /\ phase[o] = "creating"
  BY <1>1 DEF IInv, ParentOK, CInv, Building, Submitting
<1>4. PICK w \in Obj : w = par.lw
  BY <1>1 DEF IInv, ParentOK
<1>5. /\ par'.cur = par.cur /\ par'.addr = par.addr /\ par'.todo = par.todo
      /\ par'.pc = AfterLastWriter
  BY DEF LockLastWriter, IInv, TypeOK, ParentStates
<1>6. AfterLastWriter = (IF Mode \in GroupModes THEN "drop" ELSE "enlist") /\ Mode' = Mode
  BY <1>1, <1>5 DEF AfterLastWriter, Mode
<1>7. /\ \A p \in Obj : succ[p] \subseteq succ'[p]
      /\ lastWriter[a] = w => o \in succ'[w]
  <2>1. CASE StillLastWriter
    <3>1. \A p \in Obj : succ'[p] = IF p \in {w} THEN succ[p] \cup {o} ELSE succ[p]
      BY <1>3, <1>4, <2>1 DEF LockLastWriter, DependOn
    <3> QED
      BY <3>1
  <2>2. CASE ~ StillLastWriter
    BY <1>2, <1>4, <2>2 DEF LockLastWriter, StillLastWriter, graph
  <2> QED
    BY <2>1, <2>2
<1>8. \A p \in Obj : KeepsEdges(p)
  BY <1>1, <1>7 DEF KeepsEdges, Edge
<1>9. SettledSame /\ WaitStays
  BY <1>1, <1>5, <1>6 DEF SettledSame, Settled, WaitStays, InWait, Submitting, AtAccess
<1>10. /\ Mode \in GroupModes => /\ commDO[a] # NULL /\ commDO[a] \in succ[o]
                                 /\ acc[commDO[a]][a] = Mode /\ readers[a] = {}
       /\ Mode \notin GroupModes => commDO[a] = NULL
       /\ lastWriter[a] \in {w, NULL}
  BY <1>1, <1>2, <1>3, <1>4 DEF OInv, AtAddress, AtAccess, Submitting
<1>11. ASSUME LiveWriter(a)' PROVE lastWriter'[a] = w /\ Reach(w, o)'
  <2>1. lastWriter'[a] = w /\ phase'[w] \in Live
    BY <1>1, <1>10, <1>11 DEF LiveWriter
  <2>2. Edge(w, o)'
    BY <1>1, <1>7, <2>1 DEF Edge, Live
  <2> QED
    BY <2>1, <2>2 DEF Reach, PredClosed
<1>12. AtAddress'
  <2>1. LiveWriter(a)' => Reach(lastWriter[a], par.cur)'
    BY <1>3, <1>5, <1>11
  <2> QED
    BY <1>1, <1>2, <1>3, <1>5, <1>6, <1>7, <1>10, <2>1 DEF AtAddress
<1>13. ASSUME LiveWriter(a)', commDO'[a] # NULL PROVE Reach(lastWriter[a], commDO[a])'
  <2>1. PICK c \in Obj : c = commDO[a]
    BY <1>1, <1>13, DomainObj
  <2>2. c \in succ'[o]
    BY <1>1, <1>7, <1>10, <1>13, <2>1
  <2>3. Edge(o, c)'
    BY <1>1, <1>3, <2>2 DEF Edge
  <2>4. Reach(w, c)'
    BY <1>11, <1>13, <2>3 DEF Reach, PredClosed
  <2> QED
    BY <1>1, <1>11, <1>13, <2>1, <2>4
<1> QED
  BY <1>1, <1>2, <1>5, <1>8, <1>9, <1>12, <1>13, ParentFrame

\* The task joins the open group.
LEMMA JoinGroupOrder == ASSUME IInv, CInv, OInv, JoinGroup PROVE OInv'
<1>1. /\ UNCHANGED <<lastDepObjId, kind, acc, owner, lastWriter, readers, commDO, phase, cursor>>
      /\ par.pc = "target" /\ commDO[par.addr] # NULL
      /\ acc[commDO[par.addr]][par.addr] = Mode
  BY DEF JoinGroup, ParentMoves, identity, domain, loops
<1>2. PICK a \in Addr : a = par.addr
  BY <1>1 DEF IInv, ParentOK, AtAccess, Submitting
<1>3. PICK o \in Obj : o = par.cur
  BY <1>1 DEF IInv, ParentOK, Submitting
<1>4. /\ par'.cur = par.cur /\ par'.addr = par.addr /\ par'.todo = par.todo
      /\ par'.pc = "lookup"
  BY DEF JoinGroup, Goto, IInv, TypeOK, ParentStates
<1>5. Mode' = Mode /\ Mode \in GroupModes
  BY <1>1, <1>4 DEF Mode, IInv, ParentOK, AtGroup
<1>6. commDO[a] \in succ'[o] /\ \A p \in Obj : succ[p] \subseteq succ'[p]
  BY <1>2, <1>3 DEF JoinGroup, IInv, TypeOK
<1>7. \A p \in Obj : KeepsEdges(p)
  BY <1>1, <1>6 DEF KeepsEdges, Edge
<1>8. SettledSame /\ WaitStays
  BY <1>1, <1>4 DEF SettledSame, Settled, WaitStays, InWait, Submitting, AtAccess
<1>9. AtAddress'
  <2>1. readers[a] = {}
    BY <1>1, <1>2, <1>5 DEF OInv, AtAddress
  <2> QED
    BY <1>1, <1>2, <1>3, <1>4, <1>5, <1>6, <2>1 DEF AtAddress
<1> QED
  BY <1>1, <1>4, <1>7, <1>8, <1>9, ParentFrame

\* The parent turns to an address whose group it does not close.
LEMMA NextAccessStays ==
  ASSUME IInv, CInv, OInv, NEW a \in Addr, NextAccess(a),
         acc[par.cur][a] \in GroupModes \/ commDO[a] = NULL
  PROVE  OInv'
<1>1. /\ UNCHANGED <<lastDepObjId, kind, acc, owner, lastWriter, readers, commDO, phase, succ,
                     cursor>>
      /\ par.pc = "next" /\ a \in par.todo
  BY DEF NextAccess, FinalizeReduction, ParentMoves, identity, graph, domain, loops
<1>2. /\ par'.cur = par.cur /\ par'.addr = a /\ par'.todo = par.todo \ {a}
      /\ par'.pc = IF acc[par.cur][a] \in GroupModes THEN "init" ELSE "lookup"
  BY DEF NextAccess, IInv, TypeOK, ParentStates
<1>3. Mode' = acc[par.cur][a]
  BY <1>1, <1>2 DEF Mode
<1>4. SettledSame
  <2>1. \A b : b \notin par'.todo /\ b # par'.addr <=> b \notin par.todo
    BY <1>1, <1>2
  <2> QED
    BY <1>1, <1>2, <2>1 DEF SettledSame, Settled, Submitting, AtAccess
<1>5. WaitStays
  BY <1>1, <1>2 DEF WaitStays, InWait, Submitting
<1>6. AtAddress'
  BY <1>1, <1>2, <1>3 DEF AtAddress
<1>7. \A p \in Obj : KeepsEdges(p)
  BY <1>1, SameGraph
<1> QED
  BY <1>1, <1>2, <1>4, <1>5, <1>6, <1>7, ParentFrame

\* The domain is cleared once everybody in it has finished.
LEMMA ClearDomainOrder == ASSUME IInv, CInv, OInv, ClearDomain PROVE OInv'
<1>1. /\ UNCHANGED <<lastDepObjId, kind, acc, owner, commDO, phase, succ, cursor>>
      /\ par.pc = "taskwait" /\ ParentMoves("taskwait") /\ components = 0 /\ GroupsClosed
      /\ \A a \in Addr : lastWriter'[a] = NULL /\ readers'[a] = {}
  BY DEF ClearDomain, ParentMoves, identity, graph, loops
<1>2. par'.cur = par.cur /\ par'.pc \in {"idle", "end"}
  BY DEF ClearDomain, Goto, IInv, TypeOK, ParentStates
<1>3. \A o \in Obj : phase[o] \notin Live
  BY <1>1, AllGone DEF GroupsClosed, CInv, Born, Live
<1>4. DomainShrinks
  <2>1. \A a \in Addr : ~ LiveWriter(a)
    BY <1>3, DomainObj DEF LiveWriter
  <2>2. \A a \in Addr : \A r \in readers[a] : phase[r] \notin Live
    BY <1>3, DomainObj
  <2> QED
    BY <1>1, <2>1, <2>2 DEF DomainShrinks
<1>5. \A p \in Obj : KeepsEdges(p)
  BY <1>1, SameGraph
<1>6. Steady
  BY <1>1, <1>5, ReachKept DEF Steady
<1>7. SettledSame /\ WaitStays
  BY <1>1, <1>2 DEF SettledSame, Settled, WaitStays, InWait, Submitting
<1>8. Covered' /\ Ordered' /\ ReadersIn' /\ ReadersBehind'
  BY <1>4, <1>6, <1>7, Frame
<1>9. GroupBehind'
  BY <1>1, <1>4, <1>6, GroupKept
<1>10. AtAddress'
  BY <1>2, AwayFromAddress DEF AtAccess, Submitting
<1>11. Fresher' /\ Holders'
  BY <1>1, <1>2 DEF OInv, Fresher, Created, Holders
<1> QED
  BY <1>8, <1>9, <1>10, <1>11 DEF OInv

\* A new task or wait has entered nothing yet.
LEMMA CreateOrder ==
  ASSUME IInv, CInv, OInv, NEW k \in {"submit", "wait"}, NEW x \in Accesses, Create(k, x)
  PROVE  OInv'
<1>0. lastDepObjId + 1 \in Obj
  BY IdsNeededPositive, BoundsAssumption DEF IInv, TypeOK, Create, WithinBounds, Obj
<1>1. PICK o \in Obj : o = lastDepObjId + 1
  BY <1>0
<1>2. /\ lastDepObjId' = o /\ par.pc = "idle"
      /\ UNCHANGED <<succ, owner, lastWriter, readers, commDO, cursor>>
  BY <1>1 DEF Create, ParentMoves, domain, loops
<1>3. /\ kind'[o] = k /\ acc'[o] = x /\ phase'[o] = "creating"
      /\ \A q \in Obj : q # o => kind'[q] = kind[q] /\ acc'[q] = acc[q] /\ phase'[q] = phase[q]
  BY <1>1 DEF Create, IInv, TypeOK
<1>4. par'.pc = "next" /\ par'.cur = o /\ par'.todo = Touched(x)
  BY <1>1 DEF Create, IInv, TypeOK, ParentStates
<1>5. phase[o] = "none" /\ succ[o] = {}
  BY <1>1, NewbornFacts
<1>6. \A p \in Obj : KeepsEdges(p)
  BY <1>2, <1>3, <1>5 DEF KeepsEdges, Edge
<1>7. Steady
  <2>1. \A u, t \in Obj : phase'[u] \in Live /\ Reach(u, t) => Reach(u, t)'
    BY <1>6, ReachKept
  <2> QED
    BY <1>3, <1>5, <2>1 DEF Steady
<1>8. SettledSame
  <2>1. \A a \in Addr : ~ Settled(o, a) /\ ~ Settled(o, a)'
    BY <1>3, <1>4, <1>5 DEF Settled, Touched, Submitting, AtAccess
  <2>2. \A u \in Obj : u # o => \A a \in Addr : Settled(u, a)' <=> Settled(u, a)
    BY <1>2, <1>3, <1>4 DEF Settled, Submitting
  <2> QED
    BY <2>1, <2>2 DEF SettledSame
<1>9. DomainShrinks /\ WaitStays
  BY <1>2 DEF DomainShrinks, WaitStays, InWait, Submitting
<1>10. Covered' /\ Ordered' /\ ReadersIn' /\ ReadersBehind'
  BY <1>7, <1>8, <1>9, Frame
<1>11. GroupBehind'
  BY <1>2, <1>7, <1>9, GroupKept
<1>12. AtAddress'
  BY <1>4, AwayFromAddress DEF AtAccess, Submitting
<1>13. Fresher'
  <2>1. \A q \in Created' : q <= o
    BY <1>1, <1>2 DEF Created, IInv, TypeOK
  <2> QED
    BY <1>3, <1>4, <1>5, <2>1 DEF OInv, Fresher
<1>14. Holders'
  BY <1>2, <1>3, HoldersKept
<1> QED
  BY <1>10, <1>11, <1>12, <1>13, <1>14 DEF OInv

-----------------------------------------------------------------------------
(* The parent, where it changes what the domain holds for one address.     *)

\* The domain holds the same for the address b.
SameAt(b) == lastWriter'[b] = lastWriter[b] /\ readers'[b] = readers[b] /\ commDO'[b] = commDO[b]

\* A way from an object in the domain stays while that object is unfinished.
LEMMA WayStays ==
  ASSUME Steady, NEW u \in Obj, NEW t \in Obj, phase'[u] \in Live, Reach(u, t)
  PROVE  Reach(u, t)'
BY DEF Steady

\* Coverage at an address that keeps what it holds.
LEMMA SameCovered ==
  ASSUME IInv, CInv, OInv, Steady, WaitStays, NEW b \in Addr, SameAt(b), NEW u \in Obj,
         Settled(u, b), phase'[u] \in Live
  PROVE  CoveredBy(u, b)'
<1>0. phase[u] # "none" /\ phase[u] \in Live /\ acc'[u] = acc[u]
  BY DEF Settled, Steady
<1>1. CoveredBy(u, b)
  BY <1>0 DEF OInv, Covered
<1>2. CASE u \in readers[b]
  BY <1>2 DEF SameAt, CoveredBy
<1>3. CASE lastWriter[b] # NULL /\ Reach(u, lastWriter[b])
  <2>1. PICK w \in Obj : w = lastWriter[b]
    BY <1>3, DomainObj
  <2>2. Reach(u, w)'
    BY <1>3, <2>1, WayStays
  <2>3. Reach(u, lastWriter[b])' /\ lastWriter'[b] # NULL
    BY <1>3, <2>1, <2>2 DEF SameAt
  <2> QED
    BY <2>3 DEF CoveredBy
<1>4. CASE commDO[b] # NULL /\ acc[commDO[b]][b] = acc[u][b] /\ Reach(u, commDO[b])
  <2>1. PICK c \in Obj : c = commDO[b] /\ phase[c] # "none"
    BY <1>4, DomainObj
  <2>2. Reach(u, c)' /\ acc'[c] = acc[c]
    BY <1>4, <2>1, WayStays DEF Steady
  <2>3. Reach(u, commDO[b])' /\ commDO'[b] = c
    BY <2>1, <2>2 DEF SameAt
  <2> QED
    BY <1>0, <1>4, <2>1, <2>2, <2>3 DEF CoveredBy
<1>5. CASE InWait /\ Reach(u, par.cur)
  <2>1. PICK o \in Obj : o = par.cur
    BY <1>5 DEF InWait, IInv, ParentOK
  <2>2. phase[o] # "satisfied"
    BY <1>0, <1>5, <2>1, ReachBlocked DEF Blocked, Live
  <2>3. InWait' /\ par'.cur = o
    BY <1>5, <2>1, <2>2 DEF WaitStays
  <2>4. Reach(u, o)'
    BY <1>5, <2>1, WayStays
  <2>5. Reach(u, par.cur)'
    BY <2>3, <2>4
  <2> QED
    BY <2>3, <2>5 DEF CoveredBy
<1> QED
  BY <1>1, <1>2, <1>3, <1>4, <1>5 DEF CoveredBy

\* So do its readers and its group.
LEMMA SameLists ==
  ASSUME IInv, CInv, OInv, Steady, NEW b \in Addr, SameAt(b),
         \A u \in Obj : Settled(u, b) => Settled(u, b)'
  PROVE  /\ \A r \in readers'[b] : Settled(r, b)' /\ acc'[r][b] = In
         /\ commDO'[b] # NULL => readers'[b] = {}
         /\ LiveWriter(b)' => \A r \in readers'[b] : Reach(lastWriter[b], r)'
         /\ LiveWriter(b)' /\ commDO'[b] # NULL
              /\ ~ (par.pc \in {"lookup", "lock"} /\ par.addr = b) =>
              Reach(lastWriter[b], commDO[b])'
<1>1. \A r \in readers[b] : /\ r \in Obj /\ Settled(r, b)' /\ acc'[r][b] = In
  BY DomainObj DEF OInv, ReadersIn, Steady, Settled
<1>2. commDO[b] # NULL => readers[b] = {}
  BY DEF OInv, ReadersIn
<1>3. ASSUME LiveWriter(b)'
      PROVE  \E w \in Obj : w = lastWriter[b] /\ w = lastWriter'[b] /\ phase'[w] \in Live
                            /\ LiveWriter(b)
  <2>1. PICK w \in Obj : w = lastWriter[b] /\ phase[w] # "none"
    BY <1>3, DomainObj DEF LiveWriter, SameAt
  <2>2. w = lastWriter'[b] /\ phase'[w] \in Live
    BY <1>3, <2>1 DEF LiveWriter, SameAt
  <2>3. LiveWriter(b)
    BY <1>3, <2>1, <2>2 DEF LiveWriter, Steady
  <2> QED
    BY <2>1, <2>2, <2>3
<1>4. ASSUME LiveWriter(b)', NEW r \in readers[b] PROVE Reach(lastWriter[b], r)'
  <2>1. PICK w \in Obj : w = lastWriter[b] /\ w = lastWriter'[b] /\ phase'[w] \in Live
                         /\ LiveWriter(b)
    BY <1>3, <1>4
  <2>2. Reach(w, r) /\ r \in Obj
    BY <1>1, <2>1 DEF OInv, ReadersBehind
  <2>3. Reach(w, r)'
    BY <2>1, <2>2, WayStays
  <2> QED
    BY <2>1, <2>3
<1>5. ASSUME LiveWriter(b)', commDO'[b] # NULL, ~ (par.pc \in {"lookup", "lock"} /\ par.addr = b)
      PROVE  Reach(lastWriter[b], commDO[b])'
  <2>1. PICK w \in Obj : w = lastWriter[b] /\ w = lastWriter'[b] /\ phase'[w] \in Live
                         /\ LiveWriter(b)
    BY <1>3, <1>5
  <2>2. PICK c \in Obj : c = commDO[b] /\ c = commDO'[b]
    BY <1>5, DomainObj DEF SameAt
  <2>3. Reach(w, c)
    BY <1>5, <2>1, <2>2 DEF OInv, GroupBehind, SameAt
  <2>4. Reach(w, c)'
    BY <2>1, <2>3, WayStays
  <2> QED
    BY <2>1, <2>2, <2>4
<1>6. readers'[b] = readers[b] /\ commDO'[b] = commDO[b]
  BY DEF SameAt
<1> QED
  BY <1>1, <1>2, <1>4, <1>5, <1>6

\* A change at the address a.
LEMMA ChangeAt ==
  ASSUME IInv, CInv, OInv, Steady, WaitStays, NEW a \in Addr,
         \A b \in Addr : b # a => SameAt(b),
         \A u \in Obj : \A b \in Addr : b # a => (Settled(u, b)' <=> Settled(u, b)),
         par.pc \in {"lookup", "lock"} => par.addr = a,
         \A u \in Obj : Settled(u, a)' /\ phase'[u] \in Live => CoveredBy(u, a)',
         \A r \in readers'[a] : Settled(r, a)' /\ acc'[r][a] = In,
         commDO'[a] # NULL => readers'[a] = {},
         LiveWriter(a)' => \A r \in readers'[a] : Reach(lastWriter[a], r)',
         LiveWriter(a)' /\ commDO'[a] # NULL /\ ~ (par'.pc \in {"lookup", "lock"} /\ par'.addr = a)
           => Reach(lastWriter[a], commDO[a])'
  PROVE  Covered' /\ ReadersIn' /\ ReadersBehind' /\ GroupBehind'
<1>1. Covered'
  BY SameCovered DEF Covered
<1>2. \A b \in Addr : b # a =>
        /\ \A r \in readers'[b] : Settled(r, b)' /\ acc'[r][b] = In
        /\ commDO'[b] # NULL => readers'[b] = {}
        /\ LiveWriter(b)' => \A r \in readers'[b] : Reach(lastWriter[b], r)'
        /\ LiveWriter(b)' /\ commDO'[b] # NULL => Reach(lastWriter[b], commDO[b])'
  BY SameLists
<1>3. ReadersIn'
  BY <1>2 DEF ReadersIn
<1>4. ReadersBehind'
  BY <1>2 DEF ReadersBehind
<1>5. GroupBehind'
  BY <1>2 DEF GroupBehind
<1> QED
  BY <1>1, <1>3, <1>4, <1>5

\* Closing a group: its CommutationDO, behind the last writer and behind all members,
\* is the new last writer.
LEMMA CloseOrder ==
  ASSUME IInv, CInv, OInv, NEW a \in Addr, commDO[a] # NULL, FinalizeReduction(a),
         UNCHANGED <<lastDepObjId, kind, acc, owner, cursor>>, par'.cur = par.cur,
         par.pc \notin {"lookup", "lock"}, WaitStays, AtAddress',
         \A u \in Obj : \A b \in Addr :
           phase[u] # "none" /\ phase'[u] # "none" => (Settled(u, b)' <=> Settled(u, b))
  PROVE  OInv'
<1>1. PICK c \in Obj : c = commDO[a] /\ phase[c] = "waiting" /\ kind[c] = "comm"
  BY DomainObj
<1>2. DecreasePredecessors(c, Parent) /\ readers' = readers /\ succ' = succ
  BY <1>1 DEF FinalizeReduction
<1>3. /\ lastWriter'[a] = c /\ commDO'[a] = NULL
      /\ \A b \in Addr : b # a => SameAt(b)
  BY <1>1, <1>2 DEF FinalizeReduction, GroupBecomesWriter, SameAt, IInv, TypeOK
<1>4. /\ \A p \in Obj : KeepsEdges(p)
      /\ \A p \in Obj : phase[p] = "none" <=> phase'[p] = "none"
      /\ \A p \in Obj : phase'[p] \in Live => phase[p] \in Live
      /\ \A p \in Obj : phase'[p] \in {"running", "asked"} => phase'[p] = phase[p]
  BY <1>1, <1>2, DropPhases
<1>5. Steady
  BY <1>4, ReachKept DEF Steady
<1>6. SettledSame
  BY <1>4 DEF SettledSame, Settled
<1>7. readers'[a] = {}
  BY <1>2 DEF OInv, ReadersIn
<1>8. ASSUME NEW u \in Obj, Settled(u, a)', phase'[u] \in Live PROVE CoveredBy(u, a)'
  <2>1. Settled(u, a) /\ phase[u] \in Live
    BY <1>4, <1>6, <1>8 DEF SettledSame
  <2>2. CoveredBy(u, a)
    BY <2>1 DEF OInv, Covered
  <2>3. CASE Reach(u, c)
    <3>1. Reach(u, c)'
      BY <1>5, <1>8, <2>3, WayStays
    <3>2. Reach(u, lastWriter[a])' /\ lastWriter'[a] # NULL
      BY <1>1, <1>3, <3>1
    <3> QED
      BY <3>2 DEF CoveredBy
  <2>4. CASE lastWriter[a] # NULL /\ Reach(u, lastWriter[a])
    <3>1. PICK w \in Obj : w = lastWriter[a]
      BY <2>4, DomainObj
    <3>2. LiveWriter(a)
      BY <2>1, <2>4, <3>1, ReachBlocked DEF LiveWriter, Live, Blocked
    <3>3. Reach(w, c)
      BY <1>1, <3>1, <3>2 DEF OInv, GroupBehind
    <3> QED
      BY <2>3, <2>4, <3>1, <3>3, ReachTrans
  <2>5. CASE InWait /\ Reach(u, par.cur)
    <3>1. PICK o \in Obj : o = par.cur
      BY <2>5 DEF InWait, IInv, ParentOK
    <3>2. phase[o] # "satisfied"
      BY <2>1, <2>5, <3>1, ReachBlocked DEF Blocked, Live
    <3>3. InWait' /\ Reach(u, o)'
      BY <1>5, <1>8, <2>5, <3>1, <3>2, WayStays DEF WaitStays
    <3>4. Reach(u, par.cur)'
      BY <3>1, <3>3
    <3> QED
      BY <3>3, <3>4 DEF CoveredBy
  <2>6. u \notin readers[a]
    BY <1>2, <1>7
  <2> QED
    BY <1>1, <2>2, <2>3, <2>4, <2>5, <2>6 DEF CoveredBy
<1>9. Covered' /\ ReadersIn' /\ ReadersBehind' /\ GroupBehind'
  BY <1>3, <1>5, <1>6, <1>7, <1>8, ChangeAt DEF SettledSame
<1>10. Ordered'
  BY <1>5, <1>6, OrderKept
<1>11. Fresher'
  BY <1>4, CreatedObj DEF OInv, Fresher, Created
<1>12. Holders'
  BY <1>4, HoldersKept
<1> QED
  BY <1>9, <1>10, <1>11, <1>12 DEF OInv

\* The next access.
LEMMA NextAccessOrder == ASSUME IInv, CInv, OInv, NEW a \in Addr, NextAccess(a) PROVE OInv'
<1>0. CASE acc[par.cur][a] \in GroupModes \/ commDO[a] = NULL
  BY <1>0, NextAccessStays
<1>1. CASE acc[par.cur][a] \notin GroupModes /\ commDO[a] # NULL
  <2>1. /\ UNCHANGED <<lastDepObjId, kind, acc, owner, cursor>>
        /\ par.pc = "next" /\ a \in par.todo /\ FinalizeReduction(a)
    BY <1>1 DEF NextAccess, ParentMoves, identity, loops
  <2>2. /\ par'.cur = par.cur /\ par'.addr = a /\ par'.todo = par.todo \ {a}
        /\ par'.pc = "lookup"
    BY <1>1 DEF NextAccess, IInv, TypeOK, ParentStates
  <2>3. Mode' = acc[par.cur][a]
    BY <2>1, <2>2 DEF Mode
  <2>4. WaitStays
    BY <2>1, <2>2 DEF WaitStays, InWait, Submitting
  <2>5. commDO'[a] = NULL
    BY <1>1, <2>1 DEF FinalizeReduction, IInv, TypeOK
  <2>6. AtAddress'
    BY <1>1, <2>2, <2>3, <2>5 DEF AtAddress
  <2>7. \A u \in Obj : \A b \in Addr :
           phase[u] # "none" /\ phase'[u] # "none" => (Settled(u, b)' <=> Settled(u, b))
    <3>1. \A b : b \notin par'.todo /\ b # par'.addr <=> b \notin par.todo
      BY <2>1, <2>2
    <3> QED
      BY <2>1, <2>2, <3>1 DEF Settled, Submitting, AtAccess
  <2> QED
    BY <1>1, <2>1, <2>2, <2>4, <2>6, <2>7, CloseOrder
<1> QED
  BY <1>0, <1>1

\* Closing a group while the parent stays where it is.
LEMMA CloseGroupOrder ==
  ASSUME IInv, CInv, OInv, CloseOtherGroup \/ \E a \in Addr : FinalizeOneReduction(a)
  PROVE  OInv'
<1>1. PICK a \in Addr : /\ commDO[a] # NULL /\ FinalizeReduction(a)
                        /\ par.pc \in {"target", "taskwait"}
                        /\ par.pc = "target" => a = par.addr
  <2>1. CASE CloseOtherGroup
    <3>1. par.addr \in Addr
      BY <2>1 DEF CloseOtherGroup, ParentMoves, IInv, ParentOK, AtAccess, Submitting
    <3> QED
      BY <2>1, <3>1 DEF CloseOtherGroup, ParentMoves
  <2>2. CASE \E a \in Addr : FinalizeOneReduction(a)
    BY <2>2 DEF FinalizeOneReduction, ParentMoves
  <2> QED
    BY <2>1, <2>2
<1>2. UNCHANGED <<lastDepObjId, kind, acc, owner, cursor, par>>
  BY DEF CloseOtherGroup, FinalizeOneReduction, identity, loops
<1>3. readers' = readers
  BY <1>1 DEF FinalizeReduction
<1>4. AtAddress'
  <2>1. CASE par.pc = "taskwait"
    BY <1>2, <2>1, AwayFromAddress DEF AtAccess, Submitting
  <2>2. CASE par.pc = "target"
    <3>1. Mode' = Mode /\ Mode \in GroupModes
      BY <1>2, <2>2 DEF Mode, IInv, ParentOK, AtGroup
    <3> QED
      BY <1>2, <1>3, <2>2, <3>1 DEF OInv, AtAddress
  <2> QED
    BY <1>1, <2>1, <2>2
<1>5. WaitStays
  BY <1>2 DEF WaitStays, InWait
<1>6. \A u \in Obj : \A b \in Addr :
        phase[u] # "none" /\ phase'[u] # "none" => (Settled(u, b)' <=> Settled(u, b))
  BY <1>2 DEF Settled
<1> QED
  BY <1>1, <1>2, <1>4, <1>5, <1>6, CloseOrder

\* A new CommutationDO: nobody is behind it yet, and it is no task.
LEMMA NewCommKeeps ==
  ASSUME IInv, CInv, OInv, NEW c \in Obj, c = lastDepObjId + 1, NewComm(c, numPred'[c]),
         par.pc \in AtGroup, par'.pc \in AtAccess, par'.cur = par.cur,
         par'.addr = par.addr, par'.todo = par.todo, owner' = owner, cursor' = cursor,
         \A p \in Obj : succ[p] \subseteq succ'[p]
  PROVE  /\ Steady /\ SettledSame /\ WaitStays /\ Ordered' /\ Fresher' /\ Holders'
         /\ Mode' = Mode /\ phase'[c] = "waiting" /\ phase[c] = "none"
         /\ \A q \in Obj : q # c => phase'[q] = phase[q]
<1>1. /\ kind'[c] = "comm" /\ phase'[c] = "waiting" /\ lastDepObjId' = c
      /\ \A q \in Obj : q # c => kind'[q] = kind[q] /\ acc'[q] = acc[q] /\ phase'[q] = phase[q]
  BY DEF NewComm, IInv, TypeOK
<1>2. phase[c] = "none" /\ succ[c] = {} /\ c # par.cur
  BY NewbornFacts
<1>3. \A p \in Obj : KeepsEdges(p)
  BY <1>1, <1>2 DEF KeepsEdges, Edge
<1>4. Steady
  <2>1. \A u, t \in Obj : phase'[u] \in Live /\ Reach(u, t) => Reach(u, t)'
    BY <1>3, ReachKept
  <2> QED
    BY <1>1, <1>2, <2>1 DEF Steady
<1>5. SettledSame
  <2>1. \A a \in Addr : ~ Settled(c, a) /\ ~ Settled(c, a)'
    BY <1>1, <1>2 DEF Settled
  <2>2. \A u \in Obj : u # c => \A a \in Addr : Settled(u, a)' <=> Settled(u, a)
    BY <1>1 DEF Settled, Submitting, AtAccess, AtGroup
  <2> QED
    BY <2>1, <2>2 DEF SettledSame
<1>6. par.cur \in Obj
  BY DEF IInv, ParentOK, AtGroup, Submitting
<1>7. WaitStays
  BY <1>1, <1>2, <1>6 DEF WaitStays, InWait, AtAccess, Submitting
<1>8. Ordered'
  BY <1>4, <1>5, OrderKept
<1>9. Fresher'
  <2>0. lastDepObjId \in Nat
    BY DEF IInv, TypeOK
  <2>1. \A q \in Created' : q = c \/ q \in Created
    BY <1>1, <2>0 DEF Created
  <2> QED
    BY <1>1, <1>2, <2>1, CreatedObj DEF OInv, Fresher
<1>10. Holders'
  BY <1>1, HoldersKept
<1>11. Mode' = Mode
  BY <1>1, <1>2, <1>6 DEF Mode
<1> QED
  BY <1>1, <1>2, <1>4, <1>5, <1>7, <1>8, <1>9, <1>10, <1>11

\* A new group.
LEMMA OpenGroupOrder == ASSUME IInv, CInv, OInv, OpenGroup PROVE OInv'
<1>0. lastDepObjId + 1 \in Obj
  BY DEF OpenGroup, NewComm
<1>1. PICK c \in Obj : c = lastDepObjId + 1
  BY <1>0
<1>g. /\ par.pc = "target" /\ par.pc \in AtGroup /\ Mode \in GroupModes
  BY AtGroupFacts DEF AtGroup, OpenGroup, ParentMoves
<1>2. PICK a \in Addr : a = par.addr
  BY <1>g, AtGroupFacts
<1>3. PICK o \in Obj : o = par.cur
  BY <1>g, AtGroupFacts
<1>4. /\ NewComm(c, FirstPredecessors) /\ commDO[a] = NULL
      /\ UNCHANGED <<lastWriter, readers, owner, cursor>>
      /\ commDO' = [commDO EXCEPT ![a] = c] /\ succ' = [succ EXCEPT ![o] = @ \cup {c}]
  BY <1>1, <1>2, <1>3 DEF OpenGroup, loops
<1>5. /\ par'.pc = "lookup" /\ par'.cur = par.cur /\ par'.todo = par.todo
      /\ par'.addr = par.addr
  BY DEF OpenGroup, Goto, IInv, TypeOK, ParentStates
<1>6. NewComm(c, numPred'[c]) /\ acc'[c][a] = Mode
  <2>1. numPred'[c] = FirstPredecessors
    BY <1>4 DEF NewComm, IInv, TypeOK
  <2>2. acc'[c] = [NoAccess EXCEPT ![a] = Mode]
    BY <1>2, <1>4 DEF NewComm, IInv, TypeOK
  <2> QED
    BY <1>4, <2>1, <2>2 DEF NoAccess
<1>7. /\ c \in succ'[o] /\ \A p \in Obj : succ[p] \subseteq succ'[p]
      /\ commDO'[a] = c /\ \A b \in Addr : b # a => SameAt(b)
  BY <1>4 DEF SameAt, IInv, TypeOK
<1>8. par'.pc \in AtAccess
  BY <1>5 DEF AtAccess, Submitting
<1>9. /\ Steady /\ SettledSame /\ WaitStays /\ Ordered' /\ Fresher' /\ Holders'
      /\ Mode' = Mode
  BY <1>1, <1>g, <1>4, <1>5, <1>6, <1>7, <1>8, NewCommKeeps
<1>10. readers'[a] = {}
  BY <1>g, <1>2, <1>4 DEF OInv, AtAddress
<1>11. ASSUME NEW u \in Obj, Settled(u, a)', phase'[u] \in Live PROVE CoveredBy(u, a)'
  <2>1. Settled(u, a) /\ phase[u] \in Live
    BY <1>9, <1>11 DEF SettledSame, Steady, Settled
  <2>2. CoveredBy(u, a)
    BY <2>1 DEF OInv, Covered
  <2>3. CASE lastWriter[a] # NULL /\ Reach(u, lastWriter[a])
    <3>1. PICK w \in Obj : w = lastWriter[a]
      BY <2>3, DomainObj
    <3>2. Reach(u, w)'
      BY <1>9, <1>11, <2>3, <3>1, WayStays
    <3>3. Reach(u, lastWriter[a])' /\ lastWriter'[a] # NULL
      BY <1>4, <2>3, <3>1, <3>2
    <3> QED
      BY <3>3 DEF CoveredBy
  <2>4. ~ InWait
    BY <1>g, AtGroupFacts DEF InWait
  <2>5. u \notin readers[a]
    BY <1>4, <1>10
  <2> QED
    BY <1>4, <2>2, <2>3, <2>4, <2>5 DEF CoveredBy
<1>12. Covered' /\ ReadersIn' /\ ReadersBehind' /\ GroupBehind'
  BY <1>g, <1>2, <1>5, <1>7, <1>9, <1>10, <1>11, ChangeAt DEF SettledSame
<1>13. AtAddress'
  <2>1. c # NULL
    BY DEF NULL, Obj
  <2> QED
    BY <1>g, <1>2, <1>3, <1>5, <1>6, <1>7, <1>9, <1>10, <2>1 DEF AtAddress
<1> QED
  BY <1>9, <1>12, <1>13 DEF OInv

\* An initial CommutationDO takes the place of the readers.
LEMMA SetUpInitialCommOrder == ASSUME IInv, CInv, OInv, SetUpInitialComm PROVE OInv'
<1>0. lastDepObjId + 1 \in Obj
  BY DEF SetUpInitialComm, NewComm
<1>1. PICK c \in Obj : c = lastDepObjId + 1
  BY <1>0
<1>g. /\ par.pc = "initReaders" /\ par.pc \in AtGroup /\ Mode \in GroupModes
  BY AtGroupFacts DEF AtGroup, SetUpInitialComm, ParentMoves
<1>2. PICK a \in Addr : a = par.addr
  BY <1>g, AtGroupFacts
<1>3. PICK R \in SUBSET Obj : R = readers[a]
  BY DomainObj
<1>4. /\ NewComm(c, 1 + Cardinality(R))
      /\ UNCHANGED <<commDO, owner, cursor>>
      /\ readers' = [readers EXCEPT ![a] = {}] /\ lastWriter' = [lastWriter EXCEPT ![a] = c]
      /\ \A p \in Obj : succ'[p] = IF p \in R THEN succ[p] \cup {c} ELSE succ[p]
  BY <1>1, <1>2, <1>3 DEF SetUpInitialComm, loops
<1>5. /\ par'.pc = "target" /\ par'.cur = par.cur /\ par'.todo = par.todo
      /\ par'.addr = par.addr
  BY DEF SetUpInitialComm, IInv, TypeOK, ParentStates
<1>6. NewComm(c, numPred'[c])
  <2>1. numPred'[c] = 1 + Cardinality(R)
    BY <1>4 DEF NewComm, IInv, TypeOK
  <2> QED
    BY <1>4, <2>1
<1>7. /\ \A p \in Obj : succ[p] \subseteq succ'[p]
      /\ lastWriter'[a] = c /\ readers'[a] = {} /\ \A b \in Addr : b # a => SameAt(b)
  BY <1>4 DEF SameAt, IInv, TypeOK
<1>8. par'.pc \in AtAccess
  BY <1>5 DEF AtAccess, Submitting
<1>9. /\ Steady /\ SettledSame /\ WaitStays /\ Ordered' /\ Fresher' /\ Holders'
      /\ Mode' = Mode /\ phase[c] = "none" /\ \A q \in Obj : q # c => phase'[q] = phase[q]
  BY <1>1, <1>g, <1>4, <1>5, <1>6, <1>7, <1>8, NewCommKeeps
<1>10. commDO[a] = NULL /\ (LiveWriter(a) => readers[a] # {})
  BY <1>g, <1>2 DEF OInv, AtAddress
<1>11. ASSUME NEW r \in R PROVE r \in Obj /\ Reach(r, c)'
  <2>1. phase[r] \in Registered \cup {"unread"}
    BY <1>3 DEF IInv, ReaderOK
  <2>2. phase'[r] = phase[r] /\ c \in succ'[r] /\ r \in Obj
    BY <1>4, <1>9, <2>1 DEF Registered
  <2>3. Edge(r, c)'
    BY <2>1, <2>2 DEF Edge, Registered
  <2> QED
    BY <2>2, <2>3 DEF Reach, PredClosed
<1>12. ASSUME NEW u \in Obj, Settled(u, a)', phase'[u] \in Live PROVE CoveredBy(u, a)'
  <2>1. Settled(u, a) /\ phase[u] \in Live
    BY <1>9, <1>12 DEF SettledSame, Steady, Settled
  <2>2. CoveredBy(u, a)
    BY <2>1 DEF OInv, Covered
  <2>3. SUFFICES Reach(u, c)'
    <3>1. Reach(u, c)' => Reach(u, lastWriter[a])' /\ lastWriter'[a] # NULL
      BY <1>7 DEF Obj, NULL
    <3> QED
      BY <3>1 DEF CoveredBy
  <2>4. CASE u \in readers[a]
    BY <1>3, <1>11, <2>4
  <2>5. CASE lastWriter[a] # NULL /\ Reach(u, lastWriter[a])
    <3>1. PICK w \in Obj : w = lastWriter[a]
      BY <2>5, DomainObj
    <3>2. LiveWriter(a)
      BY <2>1, <2>5, <3>1, ReachBlocked DEF LiveWriter, Live, Blocked
    <3>3. PICK r \in R : Reach(w, r)
      BY <1>3, <1>10, <3>1, <3>2 DEF OInv, ReadersBehind
    <3>4. Reach(u, r) /\ r \in Obj
      BY <2>5, <3>1, <3>3, ReachTrans
    <3>5. Reach(u, r)'
      BY <1>9, <1>12, <3>4, WayStays
    <3>6. Reach(r, c)'
      BY <1>11
    <3> QED
      BY <3>5, <3>6 DEF Reach
  <2>6. ~ InWait
    BY <1>g, AtGroupFacts DEF InWait
  <2> QED
    BY <1>10, <2>2, <2>4, <2>5, <2>6 DEF CoveredBy
<1>13. commDO'[a] = NULL
  BY <1>4, <1>10
<1>14. Covered' /\ ReadersIn' /\ ReadersBehind' /\ GroupBehind'
  BY <1>g, <1>7, <1>9, <1>12, <1>13, ChangeAt DEF SettledSame
<1>15. AtAddress'
  BY <1>g, <1>2, <1>5, <1>7, <1>9 DEF AtAddress
<1> QED
  BY <1>9, <1>14, <1>15 DEF OInv

-----------------------------------------------------------------------------
(* The parent enters the access of its object to the address it works on.  *)

\* The object of the parent is the last task, and enters behind those it conflicts with.
LEMMA SettleOrder ==
  ASSUME IInv, CInv, OInv, Steady, NEW o \in Obj, NEW a \in Addr, o = par.cur,
         phase[o] = "creating",
         \A u \in Obj : \A b \in Addr :
           Settled(u, b)' <=> Settled(u, b) \/ (u = o /\ b = a),
         \A u \in Obj : u # o /\ Settled(u, a) /\ phase'[u] \in Live
                          /\ ModesConflict(acc[u][a], acc[o][a]) => Reach(u, o)'
  PROVE  Ordered'
<1> SUFFICES ASSUME NEW u \in Obj, NEW t \in Obj, NEW b \in Addr, u < t, Settled(u, b)',
                    Settled(t, b)', phase'[u] \in Live, ModesConflict(acc'[u][b], acc'[t][b])
             PROVE  Reach(u, t)'
  BY DEF Ordered
<1>0. /\ Settled(u, b) \/ (u = o /\ b = a)
      /\ Settled(t, b) \/ (t = o /\ b = a)
  OBVIOUS
<1>1. phase[u] # "none" /\ phase[t] # "none"
  BY <1>0 DEF Settled
<1>2. acc'[u] = acc[u] /\ acc'[t] = acc[t] /\ phase[u] \in Live
  BY <1>1 DEF Steady
<1>3. CASE Settled(u, b) /\ Settled(t, b)
  <2>1. Reach(u, t)
    BY <1>2, <1>3 DEF OInv, Ordered
  <2> QED
    BY <2>1, WayStays
<1>4. CASE t = o /\ b = a
  <2>1. u # o
    BY <1>4 DEF Obj
  <2> QED
    BY <1>0, <1>2, <1>4, <2>1
<1>5. CASE u = o /\ b = a /\ t # o
  <2>1. Settled(t, b)
    BY <1>0, <1>5
  <2>2. t \in Created /\ kind[t] # "comm"
    BY <1>1, <2>1 DEF CInv, Born, Settled
  <2>3. t <= o
    BY <2>2 DEF OInv, Fresher
  <2> QED
    BY <1>5, <2>3 DEF Obj
<1> QED
  BY <1>0, <1>3, <1>4, <1>5

\* An unfinished task of the address is in its list of readers, or before the last writer,
\* or before the object of the parent.
LEMMA PlacesAt ==
  ASSUME IInv, CInv, OInv, NEW u \in Obj, NEW a \in Addr, NEW o \in Obj, o = par.cur,
         Settled(u, a), phase[u] \in Live
  PROVE  \/ u \in readers[a] /\ acc[u][a] = In
         \/ \E w \in Obj : w = lastWriter[a] /\ LiveWriter(a) /\ Reach(u, w)
         \/ commDO[a] # NULL /\ acc[commDO[a]][a] = acc[u][a] /\ Reach(u, commDO[a])
         \/ InWait /\ Reach(u, o)
<1>1. CoveredBy(u, a)
  BY DEF OInv, Covered
<1>2. CASE lastWriter[a] # NULL /\ Reach(u, lastWriter[a])
  <2>1. PICK w \in Obj : w = lastWriter[a]
    BY <1>2, DomainObj
  <2>2. LiveWriter(a)
    BY <1>2, <2>1, ReachBlocked DEF LiveWriter, Live, Blocked
  <2> QED
    BY <1>2, <2>1, <2>2
<1>3. u \in readers[a] => acc[u][a] = In
  BY DEF OInv, ReadersIn
<1> QED
  BY <1>1, <1>2, <1>3 DEF CoveredBy

\* What enlisting an access changes.
LEMMA EnlistFacts ==
  ASSUME IInv, CInv, OInv, par.pc \in {"enlist", "drop"}, par'.pc = "next",
         par'.cur = par.cur, par'.todo = par.todo, UNCHANGED <<kind, acc>>,
         \A p \in Obj : phase[p] = "none" <=> phase'[p] = "none",
         NEW o \in Obj, NEW a \in Addr, o = par.cur, a = par.addr, acc[o][a] # None
  PROVE  /\ phase[o] = "creating" /\ kind[o] # "comm"
         /\ \A u \in Obj : \A b \in Addr :
              Settled(u, b)' <=> Settled(u, b) \/ (u = o /\ b = a)
         /\ ~ Settled(o, a)
         /\ WaitStays /\ AtAddress'
<1>1. phase[o] = "creating" /\ kind[o] # "comm"
  BY DEF CInv, Building, IInv, ParentOK, Submitting
<1>2. a \notin par.todo
  BY DEF CInv, Groups, AtAccess, Submitting
<1>3. \A u \in Obj : \A b \in Addr : u # o \/ b # a => (Settled(u, b)' <=> Settled(u, b))
  BY DEF Settled, Submitting, AtAccess
<1>4. ~ Settled(o, a) /\ Settled(o, a)'
  BY <1>1, <1>2 DEF Settled, Submitting, AtAccess
<1>5. WaitStays
  BY DEF WaitStays, InWait, Submitting
<1>6. AtAddress'
  BY AwayFromAddress DEF AtAccess, Submitting
<1> QED
  BY <1>1, <1>3, <1>4, <1>5, <1>6

\* A reader enters behind the last writer.
LEMMA AddAsReaderOrder == ASSUME IInv, CInv, OInv, AddAsReader PROVE OInv'
<1>1. /\ UNCHANGED <<lastDepObjId, kind, acc, owner, lastWriter, commDO, phase, succ, cursor>>
      /\ par.pc = "enlist" /\ Mode = In
  BY DEF AddAsReader, ParentMoves, identity, graph, loops
<1>2. PICK a \in Addr : a = par.addr
  BY <1>1 DEF IInv, ParentOK, AtAccess, Submitting
<1>3. PICK o \in Obj : o = par.cur
  BY <1>1 DEF IInv, ParentOK, Submitting
<1>4. par'.pc = "next" /\ par'.cur = par.cur /\ par'.todo = par.todo
  BY DEF AddAsReader, Goto, IInv, TypeOK, ParentStates
<1>5. acc[o][a] = In /\ In # None /\ In \notin GroupModes /\ In # Out
  BY <1>1, <1>2, <1>3 DEF Mode, In, None, GroupModes, Concurrent, Commutative, Out
<1>6. /\ phase[o] = "creating" /\ kind[o] # "comm"
      /\ \A u \in Obj : \A b \in Addr :
           Settled(u, b)' <=> Settled(u, b) \/ (u = o /\ b = a)
      /\ WaitStays /\ AtAddress'
  BY <1>1, <1>2, <1>3, <1>4, <1>5, EnlistFacts
<1>7. /\ commDO[a] = NULL
      /\ LiveWriter(a) => Reach(lastWriter[a], o)
  BY <1>1, <1>2, <1>3, <1>5 DEF OInv, AtAddress, AtAccess, Submitting
<1>8. \A p \in Obj : KeepsEdges(p)
  BY <1>1, SameGraph
<1>9. Steady
  BY <1>1, <1>8, ReachKept DEF Steady
<1>10. /\ \A b \in Addr : b # a => SameAt(b)
       /\ kind[o] = "wait" => readers'[a] = readers[a]
       /\ kind[o] # "wait" => readers'[a] = readers[a] \cup {o}
  BY <1>1, <1>2, <1>3 DEF AddAsReader, SetReader, Waits, SameAt, IInv, TypeOK
<1>11. ASSUME NEW u \in Obj, Settled(u, a), phase'[u] \in Live
       PROVE  (u \in readers[a] /\ acc[u][a] = In) \/ Reach(u, o)
  <2>1. phase[u] \in Live
    BY <1>1, <1>11
  <2> QED
    BY <1>3, <1>7, <1>11, <2>1, PlacesAt, ReachTrans
<1>12. Ordered'
  <2>1. \A u \in Obj : u # o /\ Settled(u, a) /\ phase'[u] \in Live
                         /\ ModesConflict(acc[u][a], acc[o][a]) => Reach(u, o)'
    BY <1>5, <1>9, <1>11, WayStays DEF ModesConflict
  <2> QED
    BY <1>3, <1>6, <1>9, <2>1, SettleOrder
<1>13. ASSUME NEW u \in Obj, Settled(u, a)', phase'[u] \in Live PROVE CoveredBy(u, a)'
  <2>1. CASE u = o /\ kind[o] # "wait"
    BY <1>10, <2>1 DEF CoveredBy
  <2>2. CASE u = o /\ kind[o] = "wait"
    <3>1. InWait' /\ Reach(u, o)'
      BY <1>1, <1>3, <1>4, <2>2 DEF InWait, Submitting, Reach
    <3>2. Reach(u, par.cur)'
      BY <1>3, <1>4, <3>1
    <3> QED
      BY <3>1, <3>2 DEF CoveredBy
  <2>3. CASE u # o
    <3>1. Settled(u, a) /\ phase[u] \in Live
      BY <1>1, <1>6, <1>13, <2>3
    <3>2. CASE u \in readers[a]
      BY <1>10, <3>2 DEF CoveredBy
    <3>3. ASSUME NEW w \in Obj, w = lastWriter[a], LiveWriter(a), Reach(u, w)
          PROVE  CoveredBy(u, a)'
      <4>1. Reach(u, w)'
        BY <1>9, <1>13, <3>3, WayStays
      <4>2. Reach(u, lastWriter[a])' /\ lastWriter'[a] # NULL
        BY <1>1, <3>3, <4>1 DEF LiveWriter
      <4> QED
        BY <4>2 DEF CoveredBy
    <3>4. CASE InWait /\ Reach(u, o)
      <4>1. InWait' /\ Reach(u, o)'
        BY <1>1, <1>3, <1>4, <1>9, <1>13, <3>4, WayStays DEF InWait, Submitting
      <4>2. Reach(u, par.cur)'
        BY <1>3, <1>4, <4>1
      <4> QED
        BY <4>1, <4>2 DEF CoveredBy
    <3> QED
      BY <1>3, <1>7, <3>1, <3>2, <3>3, <3>4, PlacesAt
  <2>4. kind[o] = "wait" \/ kind[o] # "wait"
    OBVIOUS
  <2> QED
    BY <2>1, <2>2, <2>3, <2>4
<1>14. \A r \in readers'[a] : Settled(r, a)' /\ acc'[r][a] = In
  BY <1>1, <1>5, <1>6, <1>10, DomainObj DEF OInv, ReadersIn
<1>15. ASSUME LiveWriter(a)', NEW r \in readers'[a] PROVE Reach(lastWriter[a], r)'
  <2>1. LiveWriter(a)
    BY <1>1, <1>15 DEF LiveWriter
  <2>2. PICK w \in Obj : w = lastWriter[a] /\ phase'[w] \in Live
    BY <1>1, <2>1, DomainObj DEF LiveWriter
  <2>3. r \in Obj /\ Reach(w, r)
    BY <1>7, <1>10, <2>1, <2>2, DomainObj DEF OInv, ReadersBehind
  <2>4. Reach(w, r)'
    BY <1>9, <2>2, <2>3, WayStays
  <2> QED
    BY <1>1, <2>2, <2>4
<1>16. Covered' /\ ReadersIn' /\ ReadersBehind' /\ GroupBehind'
  BY <1>1, <1>6, <1>7, <1>9, <1>10, <1>13, <1>14, <1>15, ChangeAt
<1>17. Fresher' /\ Holders'
  BY <1>1, <1>4 DEF OInv, Fresher, Created, Holders
<1> QED
  BY <1>6, <1>12, <1>16, <1>17 DEF OInv

\* A writer enters behind the readers and the last writer, and takes their place.
LEMMA SetAsWriterOrder == ASSUME IInv, CInv, OInv, SetAsWriter PROVE OInv'
<1>1. /\ UNCHANGED <<lastDepObjId, kind, acc, owner, commDO, phase, cursor>>
      /\ par.pc = "enlist" /\ Mode \in WriteModes
  BY DEF SetAsWriter, ParentMoves, identity, loops
<1>2. PICK a \in Addr : a = par.addr
  BY <1>1 DEF IInv, ParentOK, AtAccess, Submitting
<1>3. PICK o \in Obj : o = par.cur
  BY <1>1 DEF IInv, ParentOK, Submitting
<1>4. par'.pc = "next" /\ par'.cur = par.cur /\ par'.todo = par.todo
  BY DEF SetAsWriter, Goto, IInv, TypeOK, ParentStates
<1>5. acc[o][a] = Mode /\ Mode # None /\ Mode \notin GroupModes
  BY <1>1, <1>2, <1>3 DEF Mode, WriteModes, InOut, None, GroupModes, Concurrent, Commutative,
     Out
<1>6. /\ phase[o] = "creating" /\ kind[o] # "comm" /\ ~ Settled(o, a)
      /\ \A u \in Obj : \A b \in Addr :
           Settled(u, b)' <=> Settled(u, b) \/ (u = o /\ b = a)
      /\ WaitStays /\ AtAddress'
  BY <1>1, <1>2, <1>3, <1>4, <1>5, EnlistFacts
<1>7. /\ commDO[a] = NULL
      /\ LiveWriter(a) => Reach(lastWriter[a], o) \/ readers[a] # {}
  BY <1>1, <1>2, <1>3, <1>5 DEF OInv, AtAddress, AtAccess, Submitting
<1>8. o \notin readers[a]
  BY <1>6 DEF OInv, ReadersIn
<1>9. \A p \in Obj : succ'[p] = IF p \in readers[a] THEN succ[p] \cup {o} ELSE succ[p]
  BY <1>2, <1>3, <1>8 DEF SetAsWriter, DependOn, ReadersBefore
<1>10. \A p \in Obj : KeepsEdges(p)
  BY <1>1, <1>9 DEF KeepsEdges, Edge
<1>11. Steady
  BY <1>1, <1>10, ReachKept DEF Steady
<1>12. /\ \A b \in Addr : b # a => SameAt(b)
       /\ readers'[a] = {}
       /\ kind[o] # "wait" => lastWriter'[a] = o
  BY <1>1, <1>2, <1>3 DEF SetAsWriter, Waits, SameAt, IInv, TypeOK
<1>13. ASSUME NEW r \in readers[a] PROVE r \in Obj /\ Reach(r, o)'
  <2>1. r \in Obj /\ phase[r] \in Registered \cup {"unread"}
    BY DomainObj DEF IInv, ReaderOK
  <2>2. Edge(r, o)'
    BY <1>1, <1>9, <2>1 DEF Edge, Registered
  <2> QED
    BY <2>1, <2>2 DEF Reach, PredClosed
<1>14. ASSUME NEW u \in Obj, Settled(u, a), phase'[u] \in Live PROVE Reach(u, o)'
  <2>1. phase[u] \in Live
    BY <1>1, <1>14
  <2>2. CASE u \in readers[a]
    BY <1>13, <2>2
  <2>3. ASSUME NEW w \in Obj, w = lastWriter[a], LiveWriter(a), Reach(u, w)
        PROVE  Reach(u, o)'
    <3>1. CASE Reach(w, o)
      BY <1>11, <1>14, <2>3, <3>1, ReachTrans, WayStays
    <3>2. CASE readers[a] # {}
      <4>1. PICK r \in readers[a] : Reach(w, r)
        BY <2>3, <3>2 DEF OInv, ReadersBehind
      <4>2. r \in Obj /\ Reach(r, o)'
        BY <1>13
      <4>3. Reach(u, r)
        BY <2>3, <4>1, ReachTrans
      <4>4. Reach(u, r)'
        BY <1>11, <1>14, <4>2, <4>3, WayStays
      <4> QED
        BY <4>2, <4>4 DEF Reach
    <3> QED
      BY <1>7, <2>3, <3>1, <3>2
  <2>4. CASE InWait /\ Reach(u, o)
    BY <1>11, <1>14, <2>4, WayStays
  <2> QED
    BY <1>3, <1>7, <1>14, <2>1, <2>2, <2>3, <2>4, PlacesAt
<1>15. Ordered'
  BY <1>3, <1>6, <1>11, <1>14, SettleOrder
<1>16. ASSUME NEW u \in Obj, Settled(u, a)', phase'[u] \in Live PROVE CoveredBy(u, a)'
  <2>1. Reach(u, o)'
    BY <1>6, <1>14, <1>16 DEF Reach
  <2>2. CASE kind[o] # "wait"
    <3>1. Reach(u, lastWriter[a])' /\ lastWriter'[a] # NULL
      BY <1>12, <2>1, <2>2 DEF Obj, NULL
    <3> QED
      BY <3>1 DEF CoveredBy
  <2>3. CASE kind[o] = "wait"
    <3>1. InWait'
      BY <1>1, <1>3, <1>4, <2>3 DEF InWait, Submitting
    <3>2. Reach(u, par.cur)'
      BY <1>3, <1>4, <2>1
    <3> QED
      BY <3>1, <3>2 DEF CoveredBy
  <2> QED
    BY <2>2, <2>3
<1>17. commDO'[a] = NULL
  BY <1>1, <1>7
<1>18. Covered' /\ ReadersIn' /\ ReadersBehind' /\ GroupBehind'
  BY <1>1, <1>6, <1>11, <1>12, <1>16, <1>17, ChangeAt
<1>19. Fresher' /\ Holders'
  BY <1>1, <1>4 DEF OInv, Fresher, Created, Holders
<1> QED
  BY <1>6, <1>15, <1>18, <1>19 DEF OInv

\* A member of a group enters behind the last writer and before the group.
LEMMA DropInitialDummyOrder == ASSUME IInv, CInv, OInv, DropInitialDummy PROVE OInv'
<1>1. /\ UNCHANGED <<lastDepObjId, kind, acc, owner, lastWriter, readers, commDO, succ, cursor>>
      /\ par.pc = "drop" /\ Mode \in GroupModes
  BY DEF DropInitialDummy, ParentMoves, identity, domain, loops, OInv, AtAddress
<1>2. PICK a \in Addr : a = par.addr
  BY <1>1 DEF IInv, ParentOK, AtAccess, Submitting
<1>3. PICK o \in Obj : o = par.cur
  BY <1>1 DEF IInv, ParentOK, Submitting
<1>4. par'.pc = "next" /\ par'.cur = par.cur /\ par'.todo = par.todo
  BY DEF DropInitialDummy, IInv, TypeOK, ParentStates
<1>5. /\ acc[o][a] = Mode /\ Mode # None /\ Mode # Out
      /\ Mode \in {In} \cup GroupModes
  BY <1>1, <1>2, <1>3 DEF Mode, None, GroupModes, Concurrent, Commutative, Out
<1>6. /\ \A p \in Obj : KeepsEdges(p)
      /\ \A p \in Obj : phase[p] = "none" <=> phase'[p] = "none"
      /\ \A p \in Obj : phase'[p] \in Live => phase[p] \in Live
      /\ \A p \in Obj : phase'[p] \in {"running", "asked"} => phase'[p] = phase[p]
      /\ phase[o] = "creating" => phase'[o] = phase[o]
  <2>1. CASE par.init = NULL
    <3>1. phase' = phase
      BY <2>1 DEF DropInitialDummy
    <3> QED
      BY <1>1, <3>1, SameGraph
  <2>2. CASE par.init # NULL
    <3>1. PICK c \in Obj : c = par.init
      BY <2>2 DEF IInv, TypeOK, ParentStates
    <3>2. DecreasePredecessors(c, Parent)
      BY <2>2, <3>1 DEF DropInitialDummy
    <3>3. phase[c] \in Blocked /\ numPred[c] = CountOf(c)
      BY <3>1, DummyFacts
    <3>4. numPred[c] = 1 => phase[c] # "creating"
      <4> SUFFICES ASSUME numPred[c] = 1, phase[c] = "creating" PROVE FALSE
        OBVIOUS
      <4>1. IsFake(c)
        BY <1>1 DEF CInv, Building, IsFake
      <4>2. Fake(c) = 1 /\ Initial(c) = 1 /\ Open(c) \in Nat /\ Cardinality(Preds(c)) \in Nat
        BY <3>1, <4>1, PredsFinite DEF Fake, Initial, Open
      <4> QED
        BY <3>3, <4>2 DEF CountOf
    <3>5. \A p \in Obj : \/ phase'[p] = phase[p]
                         \/ /\ p = c /\ phase[c] = "waiting"
                            /\ phase'[c] \in {"ready", "satisfied"}
      BY <3>2, <3>3, <3>4, DecreaseEffect
    <3>6. \A p \in Obj : KeepsEdges(p)
      BY <1>1, <3>5 DEF KeepsEdges, Edge
    <3> QED
      BY <3>5, <3>6 DEF Live
  <2> QED
    BY <2>1, <2>2
<1>7. /\ phase[o] = "creating" /\ kind[o] # "comm"
      /\ \A u \in Obj : \A b \in Addr :
           Settled(u, b)' <=> Settled(u, b) \/ (u = o /\ b = a)
      /\ WaitStays /\ AtAddress'
  BY <1>1, <1>2, <1>3, <1>4, <1>5, <1>6, EnlistFacts
<1>8. /\ commDO[a] # NULL /\ commDO[a] \in succ[o] /\ acc[commDO[a]][a] = Mode
      /\ readers[a] = {}
      /\ LiveWriter(a) => Reach(lastWriter[a], o)
  BY <1>1, <1>2, <1>3, <1>5 DEF OInv, AtAddress
<1>9. Steady
  BY <1>1, <1>6, ReachKept DEF Steady
<1>10. ~ InWait
  BY <1>1, <1>2, <1>3, <1>5 DEF InWait, IInv, WaitOK
<1>11. Ordered'
  <2>1. ASSUME NEW u \in Obj, u # o, Settled(u, a), phase'[u] \in Live,
               ModesConflict(acc[u][a], acc[o][a])
        PROVE  Reach(u, o)'
    <3>1. phase[u] \in Live /\ acc[u][a] # Mode
      BY <1>5, <1>6, <2>1 DEF ModesConflict
    <3>2. \E w \in Obj : w = lastWriter[a] /\ LiveWriter(a) /\ Reach(u, w)
      BY <1>3, <1>8, <1>10, <2>1, <3>1, PlacesAt
    <3>3. Reach(u, o)
      BY <1>8, <3>2, ReachTrans
    <3> QED
      BY <1>9, <2>1, <3>3, WayStays
  <2> QED
    BY <1>3, <1>7, <1>9, <2>1, SettleOrder
<1>12. \A b \in Addr : SameAt(b)
  BY <1>1 DEF SameAt
<1>13. ASSUME NEW u \in Obj, Settled(u, a)', phase'[u] \in Live PROVE CoveredBy(u, a)'
  <2>1. CASE Settled(u, a)
    BY <1>7, <1>9, <1>12, <1>13, <2>1, SameCovered
  <2>2. CASE u = o
    <3>1. PICK c \in Obj : c = commDO[a]
      BY <1>8, DomainObj
    <3>2. Edge(o, c)'
      BY <1>1, <1>6, <1>7, <1>8, <3>1 DEF Edge
    <3>3. Reach(o, c)'
      BY <3>2 DEF Reach, PredClosed
    <3>4. Reach(u, commDO[a])' /\ commDO'[a] # NULL /\ acc'[commDO'[a]][a] = acc'[u][a]
      BY <1>1, <1>5, <1>8, <2>2, <3>1, <3>3
    <3> QED
      BY <3>4 DEF CoveredBy
  <2> QED
    BY <1>7, <1>13, <2>1, <2>2
<1>14. /\ \A r \in readers'[a] : Settled(r, a)' /\ acc'[r][a] = In
       /\ commDO'[a] # NULL => readers'[a] = {}
       /\ LiveWriter(a)' => \A r \in readers'[a] : Reach(lastWriter[a], r)'
       /\ LiveWriter(a)' /\ commDO'[a] # NULL => Reach(lastWriter[a], commDO[a])'
  <2>1. \A u \in Obj : Settled(u, a) => Settled(u, a)'
    BY <1>7
  <2> QED
    BY <1>1, <1>9, <1>12, <2>1, SameLists
<1>15. Covered' /\ ReadersIn' /\ ReadersBehind' /\ GroupBehind'
  BY <1>1, <1>7, <1>9, <1>12, <1>13, <1>14, ChangeAt
<1>16. Fresher' /\ Holders'
  BY <1>1, <1>4, <1>6, CreatedObj DEF OInv, Fresher, Created, Holders
<1> QED
  BY <1>7, <1>11, <1>15, <1>16 DEF OInv

-----------------------------------------------------------------------------
(* The invariant.                                                          *)

\* The initial state satisfies the invariant.
LEMMA InitOInv == Init => OInv
<1> SUFFICES ASSUME Init PROVE OInv
  OBVIOUS
<1>1. Covered /\ Ordered
  BY DEF Init, Covered, Ordered, Live
<1>2. ReadersIn /\ ReadersBehind /\ GroupBehind
  BY DEF Init, ReadersIn, ReadersBehind, GroupBehind, LiveWriter
<1>3. AtAddress
  BY DEF Init, AtAddress, ParStart, AtAccess, Submitting
<1>4. Fresher /\ Holders
  BY DEF Init, Fresher, Holders, Created
<1> QED
  BY <1>1, <1>2, <1>3, <1>4 DEF OInv

\* The parent keeps it.
LEMMA ParentStepOInv == ASSUME IInv, CInv, OInv, ParentStep PROVE OInv'
<1>1. ASSUME NEW x \in TaskMenu, Create("submit", x) PROVE OInv'
  BY <1>1, MenuAssumption, CreateOrder
<1>2. ASSUME NEW x \in WaitMenu, Create("wait", x) PROVE OInv'
  BY <1>2, MenuAssumption, CreateOrder
<1> QED
  BY <1>1, <1>2, NextAccessOrder, CloseGroupOrder, ReadLastWriterOrder, LockLastWriterOrder,
     AddAsReaderOrder, SetAsWriterOrder, LookupReadersOrder, SetUpInitialCommOrder,
     OpenGroupOrder, JoinGroupOrder, DropInitialDummyOrder, SubmitOrder, ReleaseFakeOrder,
     WaitReturnsOrder, TaskWaitOrder, ClearDomainOrder DEF ParentStep

\* So does every step.
LEMMA NextOInv == ASSUME IInv, CInv, OInv, [Next]_vars PROVE OInv'
<1>1. ASSUME NEW o \in Obj, FinishStep(o) PROVE OInv'
  BY <1>1, DoneOrder, FinishOrder, ReleaseOrder DEF FinishStep
<1>2. CASE UNCHANGED vars
  <2>1. /\ UNCHANGED <<lastDepObjId, kind, acc, phase, succ, lastWriter, readers, commDO, owner,
                       par, cursor>>
    BY <1>2 DEF vars, identity, graph, domain, loops
  <2>2. DomainShrinks /\ Holders'
    BY <2>1 DEF DomainShrinks, OInv, Holders
  <2>3. \A p \in Obj : KeepsEdges(p)
    BY <2>1, SameGraph
  <2> QED
    BY <2>1, <2>2, <2>3, WorkerFrame
<1> QED
  BY <1>1, <1>2, ParentStepOInv, StartOrder, TakeOrder, HoldOrder DEF Next, Terminated

\* The invariant holds of every program.
THEOREM OrderInvariance == Spec => [](IInv /\ CInv /\ OInv)
<1>1. Init => IInv /\ CInv /\ OInv
  BY InitIInv, InitCInv, InitOInv
<1>2. IInv /\ CInv /\ OInv /\ [Next]_vars => (IInv /\ CInv /\ OInv)'
  BY NextIInv, NextCInv, NextOInv
<1> QED
  BY <1>1, <1>2, PTL DEF Spec

-----------------------------------------------------------------------------
(* The refinement.                                                         *)

\* Phases that TaskOrder does not tell apart.
Pending == {"creating", "waiting", "held", "ready"}
Going == {"running", "satisfied"}
Over == {"asked", "unregister", "unread", "release", "gone"}

\* What TaskOrder sees of an object.
LEMMA AbstractView ==
  /\ \A o \in Obj : AbstractState[o] = IF kind[o] = "comm" \/ phase[o] = "none" THEN "none"
                                       ELSE IF phase[o] \in Pending THEN "created"
                                       ELSE IF phase[o] \in Going THEN "running" ELSE "ended"
  /\ \A o \in Obj : AbstractAcc[o] = IF kind[o] = "comm" THEN NoAccess ELSE acc[o]
  /\ AbstractState = [o \in Obj |-> AbstractState[o]]
  /\ AbstractAcc = [o \in Obj |-> AbstractAcc[o]]
<1>1. \A o \in Obj : AbstractState[o] = IF kind[o] = "comm" \/ phase[o] = "none" THEN "none"
                                       ELSE IF phase[o] \in Pending THEN "created"
                                       ELSE IF phase[o] \in Going THEN "running" ELSE "ended"
  BY DEF AbstractState, Pending, Going
<1> QED
  BY <1>1 DEF AbstractState, AbstractAcc

\* The same after a step.
LEMMA AbstractView2 ==
  /\ \A o \in Obj : AbstractState'[o] = IF kind'[o] = "comm" \/ phase'[o] = "none" THEN "none"
                                        ELSE IF phase'[o] \in Pending THEN "created"
                                        ELSE IF phase'[o] \in Going THEN "running" ELSE "ended"
  /\ \A o \in Obj : AbstractAcc'[o] = IF kind'[o] = "comm" THEN NoAccess ELSE acc'[o]
  /\ AbstractState' = [o \in Obj |-> AbstractState'[o]]
  /\ AbstractAcc' = [o \in Obj |-> AbstractAcc'[o]]
<1>1. \A o \in Obj : AbstractState'[o] = IF kind'[o] = "comm" \/ phase'[o] = "none" THEN "none"
                                        ELSE IF phase'[o] \in Pending THEN "created"
                                        ELSE IF phase'[o] \in Going THEN "running" ELSE "ended"
  BY DEF AbstractState, Pending, Going
<1> QED
  BY <1>1 DEF AbstractState, AbstractAcc

\* TaskOrder reads accesses the way the graph does.
LEMMA SameAccess ==
  \A x, y : (Order!Conflict(x, y) <=> Conflict(x, y)) /\ (Order!Excludes(x, y) <=> Excludes(x, y))
<1>1. \A m, n : Order!ModesConflict(m, n) <=> ModesConflict(m, n)
  BY DEF Order!ModesConflict, ModesConflict, Order!None, None, Order!In, In, Order!GroupModes,
     GroupModes, Order!Concurrent, Concurrent, Order!Commutative, Commutative
<1> QED
  BY <1>1 DEF Order!Conflict, Conflict, Order!Excludes, Excludes, Order!Commutative, Commutative

\* The object o does not move for TaskOrder.
Rests(o) ==
  \/ /\ kind'[o] = kind[o] /\ acc'[o] = acc[o]
     /\ \/ kind[o] = "comm" \/ phase'[o] = phase[o]
        \/ phase[o] \in Pending /\ phase'[o] \in Pending
        \/ phase[o] \in Over /\ phase'[o] \in Over
  \/ phase[o] = "none" /\ acc[o] = NoAccess /\ kind[o] # "comm" /\ kind'[o] = "comm"

\* An object that rests.
LEMMA RestView ==
  ASSUME NEW o \in Obj, Rests(o)
  PROVE  AbstractState'[o] = AbstractState[o] /\ AbstractAcc'[o] = AbstractAcc[o]
<1>1. AbstractAcc'[o] = AbstractAcc[o]
  BY AbstractView, AbstractView2 DEF Rests
<1>2. AbstractState'[o] = AbstractState[o]
  BY AbstractView, AbstractView2 DEF Rests, Pending, Going, Over
<1> QED
  BY <1>1, <1>2

\* A step in which all rest.
LEMMA RestStep ==
  ASSUME \A o \in Obj : Rests(o) PROVE UNCHANGED Order!vars
<1>1. \A o \in Obj : AbstractState'[o] = AbstractState[o] /\ AbstractAcc'[o] = AbstractAcc[o]
  BY RestView
<1>2. AbstractState' = AbstractState /\ AbstractAcc' = AbstractAcc
  BY <1>1, AbstractView, AbstractView2
<1> QED
  BY <1>2 DEF Order!vars

\* A step that moves t alone.
LEMMA MoveView ==
  ASSUME NEW t \in Obj, kind[t] # "comm", kind'[t] = kind[t], acc'[t] = acc[t],
         \A o \in Obj : o # t => Rests(o), NEW v, AbstractState'[t] = v
  PROVE  AbstractState' = [AbstractState EXCEPT ![t] = v] /\ AbstractAcc' = AbstractAcc
<1>1. \A o \in Obj : o # t =>
        AbstractState'[o] = AbstractState[o] /\ AbstractAcc'[o] = AbstractAcc[o]
  BY RestView
<1>2. AbstractAcc'[t] = AbstractAcc[t]
  BY AbstractView, AbstractView2
<1>3. AbstractState' = [AbstractState EXCEPT ![t] = v]
  BY <1>1, AbstractView, AbstractView2
<1>4. AbstractAcc' = AbstractAcc
  BY <1>1, <1>2, AbstractView, AbstractView2
<1> QED
  BY <1>3, <1>4

\* A task or a wait ends.
LEMMA EndStep ==
  ASSUME NEW t \in Obj, kind[t] # "comm", kind'[t] = kind[t], acc'[t] = acc[t],
         phase[t] \in Going, phase'[t] \in Over, \A o \in Obj : o # t => Rests(o)
  PROVE  Order!Next
<1>1. AbstractState[t] = "running"
  BY AbstractView DEF Going, Pending
<1>2. AbstractState'[t] = "ended"
  BY AbstractView2 DEF Over, Going, Pending
<1>3. AbstractState' = [AbstractState EXCEPT ![t] = "ended"] /\ AbstractAcc' = AbstractAcc
  BY <1>2, MoveView
<1>4. Order!End(t)
  BY <1>1, <1>3 DEF Order!End
<1> QED
  BY <1>4 DEF Order!Next

\* The tasks before t that it conflicts with are over when no unfinished object is left
\* before it in the graph.
LEMMA Earlier ==
  ASSUME IInv, CInv, OInv, NEW t \in Obj, kind[t] # "comm", phase[t] \notin {"none", "creating"},
         \A p \in Obj : Edge(p, t) => phase[p] = "release",
         NEW u \in Obj, u < t, kind[u] # "comm", phase[u] # "none", NEW a \in Addr,
         ModesConflict(acc[u][a], acc[t][a])
  PROVE  phase[u] \in Over
<1>1. t \in Created /\ t <= par.cur /\ par.cur \in Int
  BY DEF CInv, Born, OInv, Fresher, IInv, TypeOK, ParentStates, Obj, NULL
<1>2. u # par.cur
  BY <1>1 DEF Obj
<1>3. Settled(u, a) /\ Settled(t, a)
  BY <1>2 DEF Settled, ModesConflict, CInv, Building
<1>4. phase[u] # "satisfied"
  BY <1>2 DEF CInv, Building, Lives, IInv, TypeOK
<1>5. ASSUME phase[u] \in Live PROVE FALSE
  <2>1. Reach(u, t)
    BY <1>3, <1>5 DEF OInv, Ordered
  <2> DEFINE S == {t} \cup {p \in Obj : phase[p] = "release"}
  <2>2. \A s \in Obj : phase[s] = "release" => \A p \in Obj : ~ Edge(p, s)
    BY EdgeFacts DEF Blocked
  <2>3. S \in SUBSET Obj /\ t \in S /\ PredClosed(S)
    BY <2>2 DEF PredClosed
  <2>4. u \in S
    BY <2>1, <2>3 DEF Reach
  <2>5. u # t
    BY DEF Obj
  <2> QED
    BY <1>5, <2>4, <2>5 DEF Live
<1> QED
  BY <1>4, <1>5 DEF IInv, TypeOK, Phases, Live, Over

\* A task starts or a wait is satisfied.
LEMMA BeginStep ==
  ASSUME IInv, CInv, OInv, NEW t \in Obj, kind[t] # "comm", kind'[t] = kind[t], acc'[t] = acc[t],
         phase[t] \in Pending \ {"creating"}, phase'[t] \in Going,
         \A o \in Obj : o # t => Rests(o),
         \A p \in Obj : Edge(p, t) => phase[p] = "release",
         \A u \in Obj : kind[u] # "comm" /\ phase[u] \in Going => ~ Excludes(acc[u], acc[t])
  PROVE  Order!Next
<1>1. AbstractState[t] = "created" /\ AbstractAcc[t] = acc[t]
  BY AbstractView DEF Pending
<1>2. AbstractState'[t] = "running"
  BY AbstractView2 DEF Going, Pending
<1>3. AbstractState' = [AbstractState EXCEPT ![t] = "running"] /\ AbstractAcc' = AbstractAcc
  BY <1>2, MoveView
<1>4. ASSUME NEW u \in Obj, u < t, AbstractState[u] # "none",
             Conflict(AbstractAcc[u], AbstractAcc[t])
      PROVE  AbstractState[u] = "ended"
  <2>1. kind[u] # "comm" /\ phase[u] # "none" /\ AbstractAcc[u] = acc[u]
    BY <1>4, AbstractView
  <2>2. PICK a \in Addr : ModesConflict(acc[u][a], acc[t][a])
    BY <1>1, <1>4, <2>1 DEF Conflict
  <2>3. phase[u] \in Over
    BY <1>4, <2>1, <2>2, Earlier DEF Pending
  <2> QED
    BY <2>1, <2>3, AbstractView DEF Over, Pending, Going
<1>5. ASSUME NEW u \in Obj, AbstractState[u] = "running"
      PROVE  ~ Excludes(AbstractAcc[u], AbstractAcc[t])
  <2>1. kind[u] # "comm" /\ phase[u] \in Going /\ AbstractAcc[u] = acc[u]
    BY <1>5, AbstractView
  <2> QED
    BY <1>1, <2>1
<1>6. Order!Start(t)
  BY <1>1, <1>3, <1>4, <1>5, SameAccess DEF Order!Start, Order!Eligible
<1> QED
  BY <1>6 DEF Order!Next

\* A new task is a new task of TaskOrder.
LEMMA CreateRefines ==
  ASSUME IInv, CInv, OInv, NEW k \in {"submit", "wait"}, NEW x \in TaskMenu \cup WaitMenu,
         Create(k, x)
  PROVE  Order!Next
<1>0. x \in Accesses
  BY MenuAssumption
<1>1. lastDepObjId + 1 \in Obj
  BY <1>0, IdsNeededPositive, BoundsAssumption DEF IInv, TypeOK, Create, WithinBounds, Obj
<1>2. PICK o \in Obj : o = lastDepObjId + 1
  BY <1>1
<1>3. /\ kind'[o] = k /\ acc'[o] = x /\ phase'[o] = "creating"
      /\ \A q \in Obj : q # o => kind'[q] = kind[q] /\ acc'[q] = acc[q] /\ phase'[q] = phase[q]
  BY <1>2 DEF Create, IInv, TypeOK
<1>4. phase[o] = "none"
  BY <1>2, NewbornFacts
<1>5. \A q \in Obj : q # o =>
        AbstractState'[q] = AbstractState[q] /\ AbstractAcc'[q] = AbstractAcc[q]
  BY <1>3, RestView DEF Rests
<1>6. AbstractState[o] = "none" /\ AbstractState'[o] = "created" /\ AbstractAcc'[o] = x
  BY <1>3, <1>4, AbstractView, AbstractView2 DEF Pending
<1>7. \A u \in Obj : u > o => AbstractState[u] = "none"
  <2>1. \A u \in Obj : u > o => u \notin Created
    BY <1>2 DEF Created, Obj, IInv, TypeOK
  <2> QED
    BY <2>1, AbstractView DEF CInv, Born
<1>8. /\ AbstractState' = [AbstractState EXCEPT ![o] = "created"]
      /\ AbstractAcc' = [AbstractAcc EXCEPT ![o] = x]
  BY <1>5, <1>6, AbstractView, AbstractView2
<1>9. Order!Create(o)
  BY <1>6, <1>7, <1>8 DEF Order!Create
<1> QED
  BY <1>9 DEF Order!Next

\* A CommutationDO is no task.
LEMMA NewCommRests ==
  ASSUME IInv, CInv, OInv, NEW c \in Obj, c = lastDepObjId + 1, NEW n, NewComm(c, n)
  PROVE  UNCHANGED Order!vars
<1>1. /\ kind'[c] = "comm"
      /\ \A q \in Obj : q # c => kind'[q] = kind[q] /\ acc'[q] = acc[q] /\ phase'[q] = phase[q]
  BY DEF NewComm, IInv, TypeOK
<1>2. phase[c] = "none" /\ kind[c] = "submit" /\ acc[c] = NoAccess
  BY NewbornFacts DEF OInv, Fresher
<1>3. \A o \in Obj : Rests(o)
  BY <1>1, <1>2 DEF Rests
<1> QED
  BY <1>3, RestStep

\* The last predecessor of an object is dropped: a task is ready, a wait is over.
LEMMA DropRefines ==
  ASSUME IInv, CInv, OInv, NEW o \in Obj, NEW by, DecreasePredecessors(o, by),
         phase[o] \in Blocked, numPred[o] = 1 => phase[o] # "creating",
         numPred[o] = 1 => \A p \in Obj : Edge(p, o) => phase[p] = "release",
         UNCHANGED <<kind, acc>>
  PROVE  Order!Next \/ UNCHANGED Order!vars
<1>1. /\ \A q \in Obj : q # o => phase'[q] = phase[q]
      /\ numPred[o] = 1 /\ phase[o] = "waiting" =>
           phase'[o] = IF kind[o] = "submit" THEN "ready" ELSE "satisfied"
      /\ ~ (numPred[o] = 1 /\ phase[o] = "waiting") => phase'[o] = phase[o]
  BY DecreaseEffect
<1>2. \A q \in Obj : q # o => Rests(q)
  BY <1>1 DEF Rests
<1>3. CASE numPred[o] = 1 /\ phase[o] = "waiting" /\ kind[o] = "wait"
  <2>1. phase'[o] = "satisfied"
    BY <1>1, <1>3
  <2>2. \A u \in Obj : ~ Excludes(acc[u], acc[o])
    BY <1>3 DEF IInv, WaitOK, Excludes, GroupModes
  <2>3. phase[o] \in Pending \ {"creating"} /\ phase'[o] \in Going /\ kind[o] # "comm"
    BY <1>3, <2>1 DEF Pending, Going
  <2> QED
    BY <1>2, <1>3, <2>2, <2>3, BeginStep
<1>4. CASE ~ (numPred[o] = 1 /\ phase[o] = "waiting" /\ kind[o] = "wait")
  <2>1. kind[o] \in {"submit", "wait", "comm"}
    BY DEF IInv, TypeOK
  <2>2. Rests(o)
    BY <1>1, <1>4, <2>1 DEF Rests, Pending
  <2> QED
    BY <1>2, <2>2, RestStep
<1> QED
  BY <1>3, <1>4

\* A closed group is no task.
LEMMA CloseRests ==
  ASSUME IInv, CInv, NEW a \in Addr, FinalizeReduction(a), UNCHANGED <<kind, acc>>
  PROVE  UNCHANGED Order!vars
<1>1. CASE commDO[a] = NULL
  <2>1. phase' = phase
    BY <1>1 DEF FinalizeReduction
  <2>2. \A o \in Obj : Rests(o)
    BY <2>1 DEF Rests
  <2> QED
    BY <2>2, RestStep
<1>2. CASE commDO[a] # NULL
  <2>1. PICK c \in Obj : c = commDO[a] /\ phase[c] = "waiting" /\ kind[c] = "comm"
    BY <1>2, DomainObj
  <2>2. DecreasePredecessors(c, Parent)
    BY <1>2, <2>1 DEF FinalizeReduction
  <2>3. \A q \in Obj : q # c => phase'[q] = phase[q]
    BY <2>1, <2>2, DecreaseEffect DEF Blocked
  <2>4. \A o \in Obj : Rests(o)
    BY <2>1, <2>3 DEF Rests
  <2> QED
    BY <2>4, RestStep
<1> QED
  BY <1>1, <1>2

\* The parent.
LEMMA ParentRefines ==
  ASSUME IInv, CInv, OInv, ParentStep PROVE Order!Next \/ UNCHANGED Order!vars
<1>1. ASSUME NEW x \in TaskMenu, Create("submit", x) PROVE Order!Next
  BY <1>1, CreateRefines
<1>2. ASSUME NEW x \in WaitMenu, Create("wait", x) PROVE Order!Next
  BY <1>2, CreateRefines
<1>3. ASSUME UNCHANGED <<kind, acc, phase>> PROVE UNCHANGED Order!vars
  <2>1. \A o \in Obj : Rests(o)
    BY <1>3 DEF Rests
  <2> QED
    BY <2>1, RestStep
<1>4. ASSUME NEW a \in Addr, NextAccess(a) PROVE UNCHANGED Order!vars
  <2>1. UNCHANGED <<kind, acc>> /\ (FinalizeReduction(a) \/ phase' = phase)
    BY <1>4 DEF NextAccess, identity
  <2> QED
    BY <1>3, <2>1, CloseRests
<1>5. ASSUME NEW a \in Addr, FinalizeOneReduction(a) PROVE UNCHANGED Order!vars
  BY <1>5, CloseRests DEF FinalizeOneReduction, identity
<1>6. ASSUME CloseOtherGroup PROVE UNCHANGED Order!vars
  <2>1. par.addr \in Addr
    BY <1>6 DEF CloseOtherGroup, ParentMoves, IInv, ParentOK, AtAccess, Submitting
  <2> QED
    BY <1>6, <2>1, CloseRests DEF CloseOtherGroup, identity
<1>7. ASSUME SetUpInitialComm \/ OpenGroup PROVE UNCHANGED Order!vars
  <2>1. \E n : NewComm(lastDepObjId + 1, n)
    BY <1>7 DEF SetUpInitialComm, OpenGroup
  <2>2. PICK c \in Obj : c = lastDepObjId + 1
    BY <2>1 DEF NewComm
  <2> QED
    BY <2>1, <2>2, NewCommRests
<1>8. ASSUME ReadLastWriter \/ LockLastWriter \/ AddAsReader \/ SetAsWriter \/ LookupReaders
             \/ JoinGroup \/ TaskWait \/ ClearDomain
      PROVE  UNCHANGED Order!vars
  <2>1. UNCHANGED <<kind, acc, phase>>
    BY <1>8 DEF ReadLastWriter, LockLastWriter, AddAsReader, SetAsWriter, LookupReaders,
       JoinGroup, TaskWait, ClearDomain, identity
  <2> QED
    BY <1>3, <2>1
<1>9. ASSUME DropInitialDummy PROVE Order!Next \/ UNCHANGED Order!vars
  <2>1. UNCHANGED <<kind, acc>>
    BY <1>9 DEF DropInitialDummy, identity
  <2>2. CASE par.init = NULL
    BY <1>3, <1>9, <2>1, <2>2 DEF DropInitialDummy
  <2>3. CASE par.init # NULL
    <3>1. PICK c \in Obj : c = par.init
      BY <2>3 DEF IInv, TypeOK, ParentStates
    <3>2. DecreasePredecessors(c, Parent)
      BY <1>9, <2>3, <3>1 DEF DropInitialDummy
    <3>3. phase[c] \in Blocked /\ numPred[c] = CountOf(c)
      BY <3>1, DummyFacts
    <3>4. numPred[c] = 1 => \A p \in Obj : ~ Edge(p, c)
      BY <3>1, <3>3, DummyCounts
    <3>5. numPred[c] = 1 => phase[c] # "creating"
      <4> SUFFICES ASSUME numPred[c] = 1, phase[c] = "creating" PROVE FALSE
        OBVIOUS
      <4>1. IsFake(c)
        BY <1>9 DEF CInv, Building, IsFake, DropInitialDummy, ParentMoves
      <4>2. Fake(c) = 1 /\ Initial(c) = 1 /\ Open(c) \in Nat /\ Cardinality(Preds(c)) \in Nat
        BY <3>1, <4>1, PredsFinite DEF Fake, Initial, Open
      <4> QED
        BY <3>3, <4>2 DEF CountOf
    <3> QED
      BY <2>1, <3>2, <3>3, <3>4, <3>5, DropRefines
  <2> QED
    BY <2>2, <2>3
<1>10. ASSUME Submit PROVE UNCHANGED Order!vars
  <2>1. PICK o \in Obj : o = par.cur /\ phase[o] = "creating"
    BY <1>10 DEF Submit, ParentMoves, IInv, ParentOK, CInv, Building, Submitting
  <2>2. /\ phase'[o] = "waiting" /\ \A q \in Obj : q # o => phase'[q] = phase[q]
        /\ UNCHANGED <<kind, acc>>
    BY <1>10, <2>1 DEF Submit, identity, IInv, TypeOK
  <2>3. \A q \in Obj : Rests(q)
    BY <2>1, <2>2 DEF Rests, Pending
  <2> QED
    BY <2>3, RestStep
<1>11. ASSUME ReleaseFake PROVE Order!Next \/ UNCHANGED Order!vars
  <2>1. UNCHANGED <<kind, acc>> /\ par.pc = "release"
    BY <1>11 DEF ReleaseFake, ParentMoves, identity
  <2>2. PICK o \in Obj : o = par.cur /\ phase[o] = "waiting"
    BY <2>1 DEF IInv, ParentOK, CInv, Building
  <2>3. IsFake(o) /\ DecreasePredecessors(o, Parent)
    BY <1>11, <2>1, <2>2 DEF IsFake, ReleaseFake
  <2>4. numPred[o] = 1 => \A p \in Obj : ~ Edge(p, o)
    BY <2>3, DummyFacts, DummyCounts
  <2> QED
    BY <2>1, <2>2, <2>3, <2>4, DropRefines DEF Blocked
<1>12. ASSUME WaitReturns PROVE Order!Next
  <2>1. PICK o \in Obj : o = par.cur /\ kind[o] = "wait" /\ phase[o] = "satisfied"
    BY <1>12 DEF WaitReturns, ParentMoves, IInv, ParentOK
  <2>2. /\ phase'[o] = "gone" /\ \A q \in Obj : q # o => phase'[q] = phase[q]
        /\ UNCHANGED <<kind, acc>>
    BY <1>12, <2>1 DEF WaitReturns, identity, IInv, TypeOK
  <2>3. \A q \in Obj : q # o => Rests(q)
    BY <2>2 DEF Rests
  <2>4. phase[o] \in Going /\ phase'[o] \in Over /\ kind[o] # "comm"
    BY <2>1, <2>2 DEF Going, Over
  <2> QED
    BY <2>2, <2>3, <2>4, EndStep
<1> QED
  BY <1>1, <1>2, <1>4, <1>5, <1>6, <1>7, <1>8, <1>9, <1>10, <1>11, <1>12 DEF ParentStep

\* A task starts: nobody it conflicts with is left before it, and no member of its
\* commutative groups runs.
LEMMA StartRefines ==
  ASSUME IInv, CInv, OInv, NEW t \in Obj, Start(t) PROVE Order!Next
<1>1. /\ UNCHANGED <<kind, acc>> /\ CanAcquire(t)
      /\ phase[t] = "ready" \/ (phase[t] = "held" /\ numPred[t] = 0)
      /\ phase'[t] = "running" /\ \A q \in Obj : q # t => phase'[q] = phase[q]
  BY DEF Start, identity, IInv, TypeOK
<1>2. kind[t] = "submit"
  BY <1>1 DEF CInv, Lives, Finishing, IInv, TypeOK
<1>3. \A p \in Obj : ~ Edge(p, t)
  BY <1>1, EdgeFacts DEF Blocked
<1>4. ASSUME NEW u \in Obj, kind[u] # "comm", phase[u] \in Going, Excludes(acc[u], acc[t])
      PROVE  FALSE
  <2>1. PICK a \in Addr : acc[u][a] = Commutative /\ acc[t][a] = Commutative
    BY <1>4 DEF Excludes
  <2>2. kind[u] # "wait"
    BY <2>1 DEF IInv, WaitOK, GroupModes
  <2>3. phase[u] = "running"
    BY <1>4, <2>2 DEF Going, CInv, Lives, IInv, TypeOK
  <2>4. owner[a] = u
    BY <2>1, <2>3 DEF OInv, Holders
  <2>5. owner[a] \in {NULL, t}
    BY <1>1, <2>1 DEF CanAcquire, GroupsOf
  <2> QED
    BY <1>1, <2>3, <2>4, <2>5 DEF Obj, NULL
<1>5. \A q \in Obj : q # t => Rests(q)
  BY <1>1 DEF Rests
<1>6. phase[t] \in Pending \ {"creating"} /\ phase'[t] \in Going /\ kind[t] # "comm"
  BY <1>1, <1>2 DEF Pending, Going
<1> QED
  BY <1>1, <1>3, <1>4, <1>5, <1>6, BeginStep

\* A task ends, and its release is no step of TaskOrder.
LEMMA FinishRefines ==
  ASSUME IInv, CInv, OInv, NEW o \in Obj, FinishStep(o)
  PROVE  Order!Next \/ UNCHANGED Order!vars
<1>0. UNCHANGED <<kind, acc>>
  BY DEF FinishStep, Done, RemoveCommDO, DeleteLastWriter, DeleteReader, CheckBatch,
     ReleaseSuccessor, BatchRelease, SubmitBatch, identity
<1>1. ASSUME Done(o) PROVE Order!Next \/ UNCHANGED Order!vars
  <2>1. /\ \A q \in Obj : q # o => phase'[q] = phase[q]
        /\ phase'[o] \in {"unregister", "unread", "release"}
        /\ phase[o] \in {"running", "asked"}
    BY <1>1, AdvanceEffect DEF Done
  <2>2. kind[o] # "comm"
    BY <2>1 DEF CInv, Lives, Finishing
  <2>3. \A q \in Obj : q # o => Rests(q)
    BY <1>0, <2>1 DEF Rests
  <2>4. CASE phase[o] = "running"
    BY <1>0, <2>1, <2>2, <2>3, <2>4, EndStep DEF Going, Over
  <2>5. CASE phase[o] = "asked"
    <3>1. Rests(o)
      BY <1>0, <2>1, <2>5 DEF Rests, Over
    <3> QED
      BY <2>3, <3>1, RestStep
  <2> QED
    BY <2>1, <2>4, <2>5
<1>2. ASSUME RemoveCommDO(o) \/ DeleteLastWriter(o) \/ \E a \in Addr : DeleteReader(o, a)
      PROVE  UNCHANGED Order!vars
  <2>1. \E W, R : Advance(o, W, R)
    BY <1>2 DEF RemoveCommDO, DeleteLastWriter, DeleteReader
  <2>2. /\ \A q \in Obj : q # o => phase'[q] = phase[q]
        /\ phase'[o] \in {"unregister", "unread", "release"}
    BY <2>1, AdvanceEffect
  <2>3. kind[o] = "comm" \/ phase[o] \in {"unregister", "unread"}
    BY <1>2 DEF RemoveCommDO, DeleteLastWriter, DeleteReader, Moves
  <2>4. \A q \in Obj : Rests(q)
    BY <1>0, <2>2, <2>3 DEF Rests, Over
  <2> QED
    BY <2>4, RestStep
<1>3. ASSUME BatchRelease(o) \/ \E s \in Obj : CheckBatch(o, s) PROVE UNCHANGED Order!vars
  <2>1. phase' = phase
    BY <1>3 DEF BatchRelease, CheckBatch
  <2>2. \A q \in Obj : Rests(q)
    BY <1>0, <2>1 DEF Rests
  <2> QED
    BY <2>2, RestStep
<1>4. ASSUME SubmitBatch(o) PROVE UNCHANGED Order!vars
  <2>1. phase[o] = "release"
    BY <1>4 DEF SubmitBatch, Moves
  <2>2. \A q \in batch[o] : phase[q] = "waiting"
    BY <2>1 DEF CInv, Batches
  <2>3. \A q \in Obj : phase'[q] = IF q = o THEN "gone"
                                   ELSE IF q \in batch[o] THEN "ready" ELSE phase[q]
    BY <1>4 DEF SubmitBatch
  <2>4. \A q \in Obj : Rests(q)
    BY <1>0, <2>1, <2>2, <2>3 DEF Rests, Over, Pending
  <2> QED
    BY <2>4, RestStep
<1>5. ASSUME NEW s \in Obj, ReleaseSuccessor(o, s) PROVE Order!Next \/ UNCHANGED Order!vars
  <2>1. phase[o] = "release" /\ s \in cursor[o] /\ DecreasePredecessors(s, o)
    BY <1>5 DEF ReleaseSuccessor, Moves
  <2>2. Edge(o, s)
    BY <2>1 DEF Edge
  <2>3. numPred[s] = CountOf(s) /\ phase[s] \in Blocked
    BY <2>2, EdgeFacts
  <2>4. numPred[s] = 1 => ~ IsFake(s) /\ \A p \in Obj : Edge(p, s) => p = o
    BY <2>2, <2>3, LastEdge
  <2>5. numPred[s] = 1 => phase[s] # "creating"
    BY <2>4 DEF CInv, Building, IsFake, Submitting
  <2> QED
    BY <1>0, <2>1, <2>3, <2>4, <2>5, DropRefines
<1> QED
  BY <1>1, <1>2, <1>3, <1>4, <1>5 DEF FinishStep

\* Taking a successor ends the task, holding one moves nobody.
LEMMA ImmediateRefines ==
  ASSUME IInv, CInv, OInv, NEW t \in Obj, NEW s \in Obj,
         TakeImmediateSuccessor(t, s) \/ HoldImmediateSuccessor(t, s)
  PROVE  Order!Next \/ UNCHANGED Order!vars
<1>0. UNCHANGED <<kind, acc>>
  BY DEF TakeImmediateSuccessor, HoldImmediateSuccessor, identity
<1>1. phase[s] = "waiting" /\ s # t
  BY ImmediateFacts DEF TakeImmediateSuccessor, HoldImmediateSuccessor
<1>2. CASE TakeImmediateSuccessor(t, s)
  <2>1. /\ phase[t] = "running" /\ phase'[t] = "asked" /\ phase'[s] = "ready"
        /\ \A q \in Obj : q # t /\ q # s => phase'[q] = phase[q]
    BY <1>1, <1>2 DEF TakeImmediateSuccessor, IInv, TypeOK
  <2>2. kind[t] # "comm"
    BY <2>1 DEF CInv, Lives, Finishing
  <2>3. \A q \in Obj : q # t => Rests(q)
    BY <1>0, <1>1, <2>1 DEF Rests, Pending
  <2> QED
    BY <1>0, <2>1, <2>2, <2>3, EndStep DEF Going, Over
<1>3. CASE HoldImmediateSuccessor(t, s)
  <2>1. phase'[s] = "held" /\ \A q \in Obj : q # s => phase'[q] = phase[q]
    BY <1>3 DEF HoldImmediateSuccessor, IInv, TypeOK
  <2>2. \A q \in Obj : Rests(q)
    BY <1>0, <1>1, <2>1 DEF Rests, Pending
  <2> QED
    BY <2>2, RestStep
<1> QED
  BY <1>2, <1>3

\* Every step of the graph is a step of TaskOrder or leaves it unchanged.
LEMMA NextRefines ==
  ASSUME IInv, CInv, OInv, [Next]_vars PROVE [Order!Next]_(Order!vars)
<1>1. CASE UNCHANGED vars
  <2>1. UNCHANGED <<kind, acc, phase>>
    BY <1>1 DEF vars, identity
  <2>2. \A o \in Obj : Rests(o)
    BY <2>1 DEF Rests
  <2> QED
    BY <2>2, RestStep
<1> QED
  BY <1>1, ParentRefines, StartRefines, FinishRefines, ImmediateRefines DEF Next, Terminated

\* The graph implements TaskOrder: tasks with conflicting accesses run in creation order, a
\* "taskwait on" returns only after the tasks it names, and members of a commutative group
\* exclude each other, for every program and every interleaving of the parent with finished().
THEOREM Refinement == Spec => ImplementsTaskOrder
<1>1. Init => Order!Init
  <2> SUFFICES ASSUME Init PROVE Order!Init
    OBVIOUS
  <2>1. \A o \in Obj : AbstractState[o] = "none" /\ AbstractAcc[o] = NoAccess
    BY AbstractView DEF Init
  <2>2. Order!NoAccess = NoAccess
    BY DEF Order!NoAccess, NoAccess, Order!None, None
  <2> QED
    BY <2>1, <2>2, AbstractView DEF Order!Init
<1>2. IInv /\ CInv /\ OInv /\ [Next]_vars => [Order!Next]_(Order!vars)
  BY NextRefines
<1> QED
  BY <1>1, <1>2, OrderInvariance, PTL DEF Spec, ImplementsTaskOrder, Order!Spec

=============================================================================
