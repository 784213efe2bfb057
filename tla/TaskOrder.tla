----------------------------- MODULE TaskOrder ------------------------------
(***************************************************************************)
(* What the dependence system promises to the program: the tasks one       *)
(* parent creates run as if the conflicting ones ran in creation order.    *)
(*                                                                         *)
(* A task is created with its accesses, starts once every earlier task     *)
(* with a conflicting access has ended and no member of one of its         *)
(* commutative groups is running, and ends.  A "wait on" of the parent is  *)
(* a pseudo task: it starts when the wait may return.                      *)
(***************************************************************************)
EXTENDS Access, Naturals

CONSTANTS Id,      \* task identifiers, numbers given in creation order
          Menu     \* the accesses a task may declare

VARIABLES acc,     \* acc[t]: the accesses task t declared
          state    \* state[t]: "none", "created", "running" or "ended"

vars == <<acc, state>>

Init ==
  /\ acc = [t \in Id |-> NoAccess]
  /\ state = [t \in Id |-> "none"]

Create(t) ==
  /\ state[t] = "none"
  /\ \A u \in Id : u > t => state[u] = "none"
  /\ \E x \in Menu : acc' = [acc EXCEPT ![t] = x]
  /\ state' = [state EXCEPT ![t] = "created"]

\* Every conflicting task created before t has ended.
Eligible(t) ==
  \A u \in Id :
    (u < t /\ state[u] # "none" /\ Conflict(acc[u], acc[t])) => state[u] = "ended"

Start(t) ==
  /\ state[t] = "created"
  /\ Eligible(t)
  /\ \A u \in Id : state[u] = "running" => ~ Excludes(acc[u], acc[t])
  /\ state' = [state EXCEPT ![t] = "running"]
  /\ UNCHANGED acc

End(t) ==
  /\ state[t] = "running"
  /\ state' = [state EXCEPT ![t] = "ended"]
  /\ UNCHANGED acc

Next == \E t \in Id : Create(t) \/ Start(t) \/ End(t)

Spec == Init /\ [][Next]_vars
=============================================================================
