------------------------------ MODULE Limiter ------------------------------
(***************************************************************************)
(* pkg/limiter/limiter.go at the grain of its atomic operations.  Acquire  *)
(* is a loop of an atomic load, a test against max and a compare-and-swap; *)
(* Release is an atomic add of -1.  Any number of goroutines interleave    *)
(* between those operations.  The same code is the HLSDownload limiter     *)
(* (max 3), DirectStream (max 10) and one limiter of max 1 per CDN host.   *)
(***************************************************************************)
EXTENDS Integers, FiniteSets

CONSTANTS Procs,  \* the goroutines that call Acquire
          Max     \* the argument of New

ASSUME LimiterAssumption == IsFiniteSet(Procs) /\ Max \in Nat

VARIABLES
  current,  \* Limiter.current
  seen,     \* seen[p]: p's local copy of current inside Acquire
  pc        \* pc[p]: where p is

vars == <<current, seen, pc>>

PcStates == {"idle", "load", "cas", "holding", "refused"}

\* The counter stays between 0 and max: it neither overshoots when several
\* goroutines race for the last slot nor goes negative.
TypeOK ==
  /\ current \in 0 .. Max
  /\ seen \in [Procs -> 0 .. Max]
  /\ pc \in [Procs -> PcStates]

Init ==
  /\ current = 0
  /\ seen = [p \in Procs |-> 0]
  /\ pc = [p \in Procs |-> "idle"]

-----------------------------------------------------------------------------
(* Faulty variants of the actions below: each is a slip the code could     *)
(* contain, and a property must notice it.                                 *)

\* Retry the swap with the old copy instead of loading again.
StaleRetry(p) ==
  /\ pc[p] = "cas"
  /\ \/ /\ current = seen[p]
        /\ current' = seen[p] + 1
        /\ pc' = [pc EXCEPT ![p] = "holding"]
     \/ /\ current # seen[p]
        /\ UNCHANGED <<current, pc>>
  /\ UNCHANGED seen

\* Release deferred before the result of Acquire is looked at.
ReleaseWhenRefused(p) ==
  /\ pc[p] = "refused"
  /\ current' = current - 1
  /\ pc' = [pc EXCEPT ![p] = "idle"]
  /\ UNCHANGED seen

\* Give up one slot too early.
LoadOffByOne(p) ==
  /\ pc[p] = "load"
  /\ seen' = [seen EXCEPT ![p] = current]
  /\ pc' = [pc EXCEPT ![p] = IF current >= Max - 1 THEN "refused" ELSE "cas"]
  /\ UNCHANGED current

-----------------------------------------------------------------------------
\* A caller enters Acquire.
Call(p) ==
  /\ pc[p] = "idle"
  /\ pc' = [pc EXCEPT ![p] = "load"]
  /\ UNCHANGED <<current, seen>>

\* Load the counter; give up when it has reached max.
Load(p) ==
  /\ pc[p] = "load"
  /\ seen' = [seen EXCEPT ![p] = current]
  /\ pc' = [pc EXCEPT ![p] = IF current >= Max THEN "refused" ELSE "cas"]
  /\ UNCHANGED current

\* Swap in current+1 if nobody moved the counter, else go round the loop.
CompareAndSwap(p) ==
  /\ pc[p] = "cas"
  /\ \/ /\ current = seen[p]
        /\ current' = seen[p] + 1
        /\ pc' = [pc EXCEPT ![p] = "holding"]
     \/ /\ current # seen[p]
        /\ pc' = [pc EXCEPT ![p] = "load"]
        /\ UNCHANGED current
  /\ UNCHANGED seen

\* Every caller releases only what it acquired: streamDirect and
\* runDirectHLS defer it after a successful Acquire, and a watcher exists
\* only for an acquired slot (HlsSessions checks that discipline).
Release(p) ==
  /\ pc[p] = "holding"
  /\ current' = current - 1
  /\ pc' = [pc EXCEPT ![p] = "idle"]
  /\ UNCHANGED seen

\* A refused caller answers SERVER_BUSY (or falls back to yt-dlp) and may
\* come back with another request.
GiveUp(p) ==
  /\ pc[p] = "refused"
  /\ pc' = [pc EXCEPT ![p] = "idle"]
  /\ UNCHANGED <<current, seen>>

Next ==
  \E p \in Procs :
     Call(p) \/ Load(p) \/ CompareAndSwap(p) \/ Release(p) \/ GiveUp(p)

Spec == Init /\ [][Next]_vars

\* A goroutine inside Acquire keeps running; nothing obliges a holder to
\* release or a refused caller to retry.
FairSpec == Spec /\ \A p \in Procs : WF_vars(Load(p) \/ CompareAndSwap(p))

-----------------------------------------------------------------------------
Holders == {p \in Procs : pc[p] = "holding"}

\* The counter is exactly the number of acquired slots, so no interleaving
\* of loads and swaps loses or invents one.
CountsHolders == current = Cardinality(Holders)

\* Strengthening used by the proof: a caller about to swap saw a free slot.
SawRoom == \A p \in Procs : pc[p] = "cas" => seen[p] \in 0 .. Max - 1

Inside == {p \in Procs : pc[p] \in {"load", "cas"}}

\* A call of Acquire returns.
Returns == \E p \in Inside : pc'[p] \in {"holding", "refused"}

\* Acquire is lock free: while callers are inside Acquire, calls return again and
\* again, that of one or of another, however the swaps collide and whoever holds
\* slots meanwhile.  The retry must therefore reload the counter.
LockFree == []<>(Inside = {}) \/ []<><<Returns>>_vars

\* The atomic semaphore a caller sees: a slot is taken at the swap, a
\* refusal happens at the load.
Sem == INSTANCE Semaphore
         WITH place <- [p \in Procs |->
                          CASE pc[p] = "holding" -> "in"
                            [] pc[p] = "refused" -> "refused"
                            [] OTHER             -> "out"]

\* The swap loop implements the semaphore: in particular a caller is turned
\* away only when max others really are inside.
ImplementsSemaphore == Sem!Spec
=============================================================================
