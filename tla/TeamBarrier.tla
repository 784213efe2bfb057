----------------------------- MODULE TeamBarrier ----------------------------
(***************************************************************************)
(* What a barrier of a team promises (core/barrier_decl.hpp): "When it     *)
(* returns it guarantees that all participants have reached the barrier".  *)
(* A participant calls barrier() again and again; the counters tell its    *)
(* calls and its returns apart.                                            *)
(***************************************************************************)
EXTENDS Naturals

CONSTANTS Participants, Episodes   \* Episodes bounds the calls of each participant

VARIABLES arrived, left            \* calls and returns of each participant

Init ==
  /\ arrived = [p \in Participants |-> 0]
  /\ left = [p \in Participants |-> 0]

Arrive(p) ==
  /\ arrived[p] = left[p] /\ arrived[p] < Episodes
  /\ arrived' = [arrived EXCEPT ![p] = @ + 1]
  /\ UNCHANGED left

Leave(p) ==
  /\ left[p] < arrived[p]
  /\ \A q \in Participants : arrived[q] >= arrived[p]
  /\ left' = [left EXCEPT ![p] = @ + 1]
  /\ UNCHANGED arrived

Next == \E p \in Participants : Arrive(p) \/ Leave(p)

Spec == Init /\ [][Next]_<<arrived, left>>
=============================================================================
