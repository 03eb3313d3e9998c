----------------------------- MODULE Semaphore -----------------------------
(***************************************************************************)
(* What pkg/limiter promises its callers: at most Max of them are inside   *)
(* at once, and one is turned away only at a moment when Max are inside.   *)
(* Limiter (compare-and-swap steps) and HlsSessions (slots handed from a   *)
(* request handler to a watcher goroutine) are both shown to implement it. *)
(***************************************************************************)
EXTENDS Naturals, FiniteSets

CONSTANTS Procs,  \* the goroutines that ask
          Max     \* the limiter's max

VARIABLE place    \* place[p] is "out", "in" or "refused"

Inside == {p \in Procs : place[p] = "in"}

Init == place = [p \in Procs |-> "out"]

Enter(p) ==
  /\ place[p] = "out"
  /\ Cardinality(Inside) < Max
  /\ place' = [place EXCEPT ![p] = "in"]

Refuse(p) ==
  /\ place[p] = "out"
  /\ Cardinality(Inside) >= Max
  /\ place' = [place EXCEPT ![p] = "refused"]

\* An "in" goroutine gives its slot back, a "refused" one goes away.
Leave(p) ==
  /\ place[p] \in {"in", "refused"}
  /\ place' = [place EXCEPT ![p] = "out"]

Next == \E p \in Procs : Enter(p) \/ Refuse(p) \/ Leave(p)

Spec == Init /\ [][Next]_place
=============================================================================
