---------------------------- MODULE BlockBarrier ----------------------------
(***************************************************************************)
(* The reusable barrier of app/context/block_context.h (class              *)
(* BlockBarrier) and the warps that call it: one thread per warp, each     *)
(* calling sync() any number of times and warp_done() once, at the end     *)
(* (rt_stream.cpp).  Every method runs under mutex_, so a critical section *)
(* is one step; what interleaves is the sections themselves and the        *)
(* return of the threads cv_.notify_all() woke.                            *)
(***************************************************************************)
EXTENDS Integers, FiniteSets

CONSTANTS
  Warps,     \* the warps the barrier was constructed for
  MaxSyncs   \* bound: the most calls of sync() one warp makes

ASSUME BarrierAssumption == IsFiniteSet(Warps) /\ MaxSyncs \in Nat

VARIABLES
  total_active,  \* total_active_: warps that have not called warp_done()
  arrived,       \* arrived_: calls of sync() counted in this generation
  generation,    \* generation_
  gen,           \* the local variable gen of each warp's last sync()
  place,         \* where each warp's thread is, see Places
  entered        \* calls of sync() each warp has made (history)

vars == <<total_active, arrived, generation, gen, place, entered>>

(***************************************************************************)
(* "run":     outside the barrier                                          *)
(* "blocked": in the wait set of cv_                                       *)
(* "woken":   out of the wait set, about to retake mutex_ and test the     *)
(*            predicate of cv_.wait                                        *)
(* "leaving": was the last to arrive, about to unlock and return           *)
(* "done":    warp_done() has returned                                     *)
(***************************************************************************)
Places == {"run", "blocked", "woken", "leaving", "done"}

Init ==
  /\ total_active = Cardinality(Warps)
  /\ arrived = 0
  /\ generation = 0
  /\ gen = [w \in Warps |-> 0]
  /\ place = [w \in Warps |-> "run"]
  /\ entered = [w \in Warps |-> 0]

\* Mutant: notify_one() in its place.
NotifyAll_One(p) ==
  IF \E w \in Warps : p[w] = "blocked"
  THEN [p EXCEPT ![CHOOSE w \in Warps : p[w] = "blocked"] = "woken"]
  ELSE p

\* cv_.notify_all()
NotifyAll(p) == [w \in Warps |-> IF p[w] = "blocked" THEN "woken" ELSE p[w]]

\* Mutant: the counter is not reset.
Release_KeepsCount(p) ==
  /\ generation' = generation + 1
  /\ place' = NotifyAll(p)
  /\ UNCHANGED arrived

\* A generation ends: the counter restarts and every waiter is woken.
Release(p) ==
  /\ arrived' = 0
  /\ generation' = generation + 1
  /\ place' = NotifyAll(p)

\* Mutant: off by one in the comparison with total_active_.
SyncLast_OneEarly(w) ==
  /\ place[w] = "run"
  /\ entered[w] < MaxSyncs
  /\ arrived + 2 >= total_active
  /\ Release([place EXCEPT ![w] = "leaving"])
  /\ gen' = [gen EXCEPT ![w] = generation]
  /\ entered' = [entered EXCEPT ![w] = @ + 1]
  /\ UNCHANGED total_active

\* sync(), by the warp whose arrival completes the generation.
SyncLast(w) ==
  /\ place[w] = "run"
  /\ entered[w] < MaxSyncs
  /\ arrived + 1 >= total_active
  /\ Release([place EXCEPT ![w] = "leaving"])
  /\ gen' = [gen EXCEPT ![w] = generation]
  /\ entered' = [entered EXCEPT ![w] = @ + 1]
  /\ UNCHANGED total_active

\* sync(), by any other warp: the predicate is false, so wait() blocks.
SyncWait(w) ==
  /\ place[w] = "run"
  /\ entered[w] < MaxSyncs
  /\ arrived + 1 < total_active
  /\ arrived' = arrived + 1
  /\ place' = [place EXCEPT ![w] = "blocked"]
  /\ gen' = [gen EXCEPT ![w] = generation]
  /\ entered' = [entered EXCEPT ![w] = @ + 1]
  /\ UNCHANGED <<total_active, generation>>

\* A condition variable may wake a thread nobody notified.
SpuriousWake(w) ==
  /\ place[w] = "blocked"
  /\ place' = [place EXCEPT ![w] = "woken"]
  /\ UNCHANGED <<total_active, arrived, generation, gen, entered>>

\* Mutant: cv_.wait(lock) without a predicate.
Recheck_NoPredicate(w) ==
  /\ place[w] = "woken"
  /\ place' = [place EXCEPT ![w] = "run"]
  /\ UNCHANGED <<total_active, arrived, generation, gen, entered>>

\* The woken thread tests generation_ != gen: it returns or blocks again.
Recheck(w) ==
  /\ place[w] = "woken"
  /\ place' = [place EXCEPT ![w] = IF generation # gen[w] THEN "run" ELSE "blocked"]
  /\ UNCHANGED <<total_active, arrived, generation, gen, entered>>

\* The last to arrive unlocks mutex_ and returns.
Return(w) ==
  /\ place[w] = "leaving"
  /\ place' = [place EXCEPT ![w] = "run"]
  /\ UNCHANGED <<total_active, arrived, generation, gen, entered>>

\* Mutant: the last departure releases an empty barrier.
WarpDone_ReleasesEmpty(w) ==
  /\ place[w] = "run"
  /\ total_active' = total_active - 1
  /\ IF arrived >= total_active'
     THEN Release([place EXCEPT ![w] = "done"])
     ELSE /\ place' = [place EXCEPT ![w] = "done"]
          /\ UNCHANGED <<arrived, generation>>
  /\ UNCHANGED <<gen, entered>>

\* Mutant: the waiters are left to a later arrival.
WarpDone_NoRelease(w) ==
  /\ place[w] = "run"
  /\ total_active' = total_active - 1
  /\ place' = [place EXCEPT ![w] = "done"]
  /\ UNCHANGED <<arrived, generation, gen, entered>>

\* warp_done(): the departure may be what the waiters were waiting for.
WarpDone(w) ==
  /\ place[w] = "run"
  /\ total_active' = total_active - 1
  /\ IF total_active' > 0 /\ arrived >= total_active'
     THEN Release([place EXCEPT ![w] = "done"])
     ELSE /\ place' = [place EXCEPT ![w] = "done"]
          /\ UNCHANGED <<arrived, generation>>
  /\ UNCHANGED <<gen, entered>>

\* All threads have left the parallel region: the only place to stop.
Joined == (\A w \in Warps : place[w] = "done") /\ UNCHANGED vars

Step(w) == SyncLast(w) \/ SyncWait(w) \/ Recheck(w) \/ Return(w) \/ WarpDone(w)

Next == Joined \/ \E w \in Warps : Step(w) \/ SpuriousWake(w)

\* Each warp has an operating-system thread of its own; a thread that can
\* take its next step eventually takes it.  Spurious wakeups owe nothing.
Spec == Init /\ [][Next]_vars /\ \A w \in Warps : WF_vars(Step(w))

-----------------------------------------------------------------------------
TypeOK ==
  /\ total_active \in 0..Cardinality(Warps)
  /\ arrived \in 0..Cardinality(Warps)
  /\ generation \in 0..MaxSyncs
  /\ gen \in [Warps -> 0..MaxSyncs]
  /\ place \in [Warps -> Places]
  /\ entered \in [Warps -> 0..MaxSyncs]

Active == {w \in Warps : place[w] # "done"}

\* The warps counted in arrived: inside sync() in the current generation.
Waiters == {w \in Warps : place[w] \in {"blocked", "woken"} /\ gen[w] = generation}

(***************************************************************************)
(* The counters mean what their names say at every instant, whatever warps *)
(* have come, gone or are still on their way out of an older generation,   *)
(* and the barrier is never full without having been released: so a waiter *)
(* always has a warp to wait for.                                          *)
(***************************************************************************)
CountersExact ==
  /\ total_active = Cardinality(Active)
  /\ arrived = Cardinality(Waiters)
  /\ arrived < total_active \/ arrived = 0

(***************************************************************************)
(* No wakeup is lost: a thread in the wait set of cv_ waits for the        *)
(* generation in progress, never for one that has already been released.   *)
(***************************************************************************)
NoLostWakeup == \A w \in Warps : place[w] = "blocked" => gen[w] = generation

(***************************************************************************)
(* The running warps are in lockstep: each has entered as many             *)
(* synchronisations as there were generations, plus the one it waits in.   *)
(* In particular a waiter is at most one generation behind generation_,    *)
(* so comparing for inequality is enough to tell them apart.               *)
(***************************************************************************)
Lockstep ==
  \A w \in Active :
    /\ entered[w] = generation + (IF w \in Waiters THEN 1 ELSE 0)
    /\ place[w] \in {"blocked", "woken", "leaving"} => gen[w] + 1 = entered[w]

\* The barrier keeps the promise of PhaseBarrier: a thread is in the
\* synchronisation until it has returned from sync().
Phase == INSTANCE PhaseBarrier WITH
  where <- [w \in Warps |->
              CASE place[w] = "run"  -> "out"
                [] place[w] = "done" -> "done"
                [] OTHER             -> "in"]

PhaseSpec == Phase!Spec

\* Nobody waits for a warp that is gone: all threads reach the end of the
\* parallel region, in whatever order they synchronise and finish.
AllFinish == <>(\A w \in Warps : place[w] = "done")
=============================================================================
