------------------------- MODULE BlockBarrierProofs -------------------------
(***************************************************************************)
(* Proofs about BlockBarrier, for every finite set of warps and every      *)
(* bound MaxSyncs.  The inductive invariant is the conjunction of the four *)
(* invariants TLC checks: the counters can be exact only because no waiter *)
(* of an older generation is counted (Lockstep), and a release empties the *)
(* wait set only if nobody in it waits for an older one (NoLostWakeup).    *)
(***************************************************************************)
EXTENDS BlockBarrier, FiniteSetTheorems, TLAPS

IInv == TypeOK /\ CountersExact /\ NoLostWakeup /\ Lockstep

\* The sets the counters count are finite, so that counting them means something.
LEMMA CountedSets ==
  ASSUME TypeOK
  PROVE  /\ IsFiniteSet(Warps) /\ Cardinality(Warps) \in Nat
         /\ IsFiniteSet(Active) /\ Cardinality(Active) \in 0..Cardinality(Warps)
         /\ IsFiniteSet(Waiters) /\ Cardinality(Waiters) \in 0..Cardinality(Warps)
         /\ Waiters \subseteq Active
<1>1. IsFiniteSet(Warps) /\ Cardinality(Warps) \in Nat
  BY BarrierAssumption, FS_CardinalityType
<1>2. Active \in SUBSET Warps /\ Waiters \in SUBSET Warps
  BY DEF Active, Waiters
<1>3. IsFiniteSet(Active) /\ Cardinality(Active) <= Cardinality(Warps)
  BY <1>1, <1>2, FS_Subset
<1>4. IsFiniteSet(Waiters) /\ Cardinality(Waiters) <= Cardinality(Warps)
  BY <1>1, <1>2, FS_Subset
<1>5. Cardinality(Active) \in Nat /\ Cardinality(Waiters) \in Nat
  BY <1>3, <1>4, FS_CardinalityType
<1>6. Waiters \subseteq Active
  BY DEF Active, Waiters
<1> QED
  BY <1>1, <1>3, <1>4, <1>5, <1>6

\* If one warp is running and the arrivals, with it, reach total_active,
\* then every other active warp is waiting: the release finds all of them.
LEMMA EverybodyElseWaits ==
  ASSUME IInv, NEW w \in Warps, place[w] = "run", arrived + 1 >= total_active
  PROVE  Waiters = Active \ {w}
<1>1. w \in Active /\ w \notin Waiters
  BY DEF Active, Waiters
<1>2. Waiters \in SUBSET (Active \ {w})
  BY <1>1, CountedSets DEF IInv
<1>3. IsFiniteSet(Active \ {w}) /\ Cardinality(Active \ {w}) = Cardinality(Active) - 1
  BY <1>1, CountedSets, FS_RemoveElement DEF IInv
<1>4. Cardinality(Waiters) <= Cardinality(Active \ {w})
  BY <1>2, <1>3, FS_Subset
<1>5. Cardinality(Waiters) + 1 >= Cardinality(Active)
  BY DEF IInv, CountersExact
<1>6. Cardinality(Waiters) = Cardinality(Active \ {w})
  BY <1>3, <1>4, <1>5, CountedSets DEF IInv
<1> QED
  BY <1>2, <1>3, <1>6, FS_Subset

LEMMA InitIInv == Init => IInv
<1> SUFFICES ASSUME Init PROVE IInv
  OBVIOUS
<1>1. IsFiniteSet(Warps) /\ Cardinality(Warps) \in Nat
  BY BarrierAssumption, FS_CardinalityType
<1>2. TypeOK
  BY <1>1, BarrierAssumption DEF Init, TypeOK, Places
<1>3. Active = Warps /\ Waiters = {}
  BY DEF Init, Active, Waiters
<1>4. CountersExact
  BY <1>3, FS_EmptySet DEF Init, CountersExact
<1>5. NoLostWakeup /\ Lockstep
  BY <1>3 DEF Init, NoLostWakeup, Lockstep
<1> QED
  BY <1>2, <1>4, <1>5 DEF IInv

\* A release by a running warp w, seen from the sets: nobody waits any more.
LEMMA ReleaseStep ==
  ASSUME IInv, NEW w \in Warps, place[w] = "run", Waiters = Active \ {w},
         NEW q \in {"leaving", "done"}, generation < MaxSyncs,
         Release([place EXCEPT ![w] = q])
  PROVE  /\ arrived' = 0
         /\ generation' = generation + 1 /\ generation' \in 0..MaxSyncs
         /\ place' \in [Warps -> Places]
         /\ place'[w] = q
         /\ \A v \in Warps \ {w} : /\ place[v] = "done" => place'[v] = "done"
                                   /\ place[v] # "done" => place'[v] = "woken"
<1>1. place' = NotifyAll([place EXCEPT ![w] = q])
  BY DEF Release
<1>2. place \in [Warps -> Places] /\ generation \in 0..MaxSyncs
  BY DEF IInv, TypeOK
<1>3. \A v \in Warps \ {w} : place[v] # "done" => place[v] \in {"blocked", "woken"}
  BY DEF Active, Waiters
<1>4. \A v \in Warps \ {w} : place'[v] = IF place[v] = "blocked" THEN "woken" ELSE place[v]
  BY <1>1, <1>2 DEF NotifyAll
<1>5. place'[w] = q
  BY <1>1, <1>2 DEF NotifyAll
<1>6. place' \in [Warps -> Places]
  BY <1>1, <1>2 DEF NotifyAll, Places
<1>7. arrived' = 0 /\ generation' = generation + 1
  BY DEF Release
<1>8. generation' \in 0..MaxSyncs
  BY <1>2, <1>7, BarrierAssumption
<1>9. \A v \in Warps \ {w} : /\ place[v] = "done" => place'[v] = "done"
                             /\ place[v] # "done" => place'[v] = "woken"
  BY <1>3, <1>4
<1> QED
  BY <1>5, <1>6, <1>7, <1>8, <1>9

LEMMA SyncLastIInv ==
  ASSUME IInv, NEW w \in Warps, SyncLast(w)
  PROVE  IInv'
<1>. USE DEF IInv
<1>1. Waiters = Active \ {w}
  BY EverybodyElseWaits DEF SyncLast
<1>2. w \in Active /\ w \notin Waiters /\ entered[w] = generation
  BY DEF SyncLast, Active, Waiters, Lockstep, TypeOK
<1>3. generation < MaxSyncs /\ place[w] = "run"
  BY <1>2 DEF SyncLast
<1>4. /\ arrived' = 0
      /\ generation' = generation + 1 /\ generation' \in 0..MaxSyncs
      /\ place' \in [Warps -> Places]
      /\ place'[w] = "leaving"
      /\ \A v \in Warps \ {w} : /\ place[v] = "done" => place'[v] = "done"
                                /\ place[v] # "done" => place'[v] = "woken"
  BY <1>1, <1>3, ReleaseStep DEF SyncLast
<1>5. /\ gen' \in [Warps -> 0..MaxSyncs] /\ gen'[w] = generation
      /\ entered' \in [Warps -> 0..MaxSyncs] /\ entered'[w] = generation + 1
      /\ \A v \in Warps \ {w} : gen'[v] = gen[v] /\ entered'[v] = entered[v]
      /\ total_active' = total_active
  BY <1>2, <1>3, BarrierAssumption DEF SyncLast, TypeOK
<1>6. TypeOK'
  BY <1>4, <1>5, CountedSets DEF TypeOK
<1>7. Active' = Active
  BY <1>2, <1>4 DEF Active
<1>8. \A v \in Warps \ {w} : place'[v] # "done" => gen'[v] = generation /\ entered'[v] = generation + 1
  BY <1>1, <1>4, <1>5 DEF Active, Waiters, Lockstep
<1>9. Waiters' = {}
  BY <1>4, <1>5, <1>8, generation \in Nat DEF Waiters, TypeOK
<1>10. CountersExact'
  BY <1>4, <1>5, <1>7, <1>9, FS_EmptySet DEF CountersExact
<1>11. NoLostWakeup'
  BY <1>4 DEF NoLostWakeup, TypeOK
<1>12. Lockstep'
  BY <1>4, <1>5, <1>8, <1>9 DEF Lockstep, Active, TypeOK
<1> QED
  BY <1>6, <1>10, <1>11, <1>12

LEMMA SyncWaitIInv ==
  ASSUME IInv, NEW w \in Warps, SyncWait(w)
  PROVE  IInv'
<1>. USE DEF IInv
<1>1. w \in Active /\ w \notin Waiters /\ entered[w] = generation
  BY DEF SyncWait, Active, Waiters, Lockstep, TypeOK
<1>2. /\ place' \in [Warps -> Places] /\ place'[w] = "blocked"
      /\ gen' \in [Warps -> 0..MaxSyncs] /\ gen'[w] = generation
      /\ entered' \in [Warps -> 0..MaxSyncs] /\ entered'[w] = generation + 1
      /\ \A v \in Warps \ {w} :
            gen'[v] = gen[v] /\ entered'[v] = entered[v] /\ place'[v] = place[v]
  BY <1>1, BarrierAssumption DEF SyncWait, TypeOK, Places
<1>3. Active' = Active /\ Waiters' = Waiters \cup {w}
  BY <1>1, <1>2 DEF SyncWait, Active, Waiters
<1>4. Cardinality(Waiters') = arrived + 1
  BY <1>1, <1>3, CountedSets, FS_AddElement DEF CountersExact
<1>5. TypeOK'
  BY <1>2, CountedSets DEF SyncWait, TypeOK
<1>6. CountersExact'
  BY <1>3, <1>4 DEF SyncWait, CountersExact
<1>7. NoLostWakeup'
  BY <1>2 DEF SyncWait, NoLostWakeup
<1>8. Lockstep'
  BY <1>1, <1>2, <1>3 DEF SyncWait, Lockstep, TypeOK
<1> QED
  BY <1>5, <1>6, <1>7, <1>8

\* The steps of a thread inside sync() that touch nothing but its place.
LEMMA InsideIInv ==
  ASSUME IInv, NEW w \in Warps, SpuriousWake(w) \/ Recheck(w) \/ Return(w)
  PROVE  IInv'
<1>. USE DEF IInv
<1>1. /\ UNCHANGED <<total_active, arrived, generation, gen, entered>>
      /\ place' \in [Warps -> Places]
      /\ place[w] \in {"blocked", "woken", "leaving"}
      /\ \/ place'[w] = "woken" /\ place[w] = "blocked"
         \/ place'[w] = "blocked" /\ place[w] = "woken" /\ gen[w] = generation
         \/ place'[w] = "run" /\ w \notin Waiters
      /\ \A v \in Warps \ {w} : place'[v] = place[v]
  BY DEF SpuriousWake, Recheck, Return, TypeOK, Places, Waiters
<1>2. Active' = Active
  BY <1>1 DEF Active
<1>3. Waiters' = Waiters
  BY <1>1 DEF Waiters
<1>4. TypeOK'
  BY <1>1 DEF TypeOK
<1>5. CountersExact'
  BY <1>1, <1>2, <1>3 DEF CountersExact
<1>6. NoLostWakeup'
  BY <1>1 DEF NoLostWakeup
<1>7. Lockstep'
  BY <1>1, <1>2, <1>3 DEF Lockstep, Active
<1> QED
  BY <1>4, <1>5, <1>6, <1>7

LEMMA WarpDoneIInv ==
  ASSUME IInv, NEW w \in Warps, WarpDone(w)
  PROVE  IInv'
<1>. USE DEF IInv
<1>1. w \in Active /\ w \notin Waiters /\ entered[w] = generation
  BY DEF WarpDone, Active, Waiters, Lockstep, TypeOK
<1>2. /\ total_active' = total_active - 1 /\ place[w] = "run"
      /\ UNCHANGED <<gen, entered>>
  BY DEF WarpDone
<1>3. Cardinality(Active \ {w}) = total_active - 1 /\ total_active - 1 \in 0..Cardinality(Warps)
  <2>1. IsFiniteSet(Active \ {w}) /\ Cardinality(Active \ {w}) = Cardinality(Active) - 1
    BY <1>1, CountedSets, FS_RemoveElement
  <2>2. Cardinality(Active \ {w}) \in Nat
    BY <2>1, FS_CardinalityType
  <2> QED
    BY <2>1, <2>2, CountedSets DEF CountersExact
<1>4. CASE total_active' > 0 /\ arrived >= total_active'
  <2>1. Waiters = Active \ {w}
    BY <1>2, <1>4, EverybodyElseWaits DEF TypeOK
  <2>2. generation < MaxSyncs
    <3>1. PICK v \in Waiters : TRUE
      BY <1>2, <1>3, <1>4, <2>1, FS_EmptySet
    <3>2. entered[v] = generation + 1 /\ entered[v] \in 0..MaxSyncs
      BY <3>1, <2>1 DEF Lockstep, TypeOK, Waiters
    <3> QED
      BY <3>2, BarrierAssumption DEF TypeOK
  <2>3. Release([place EXCEPT ![w] = "done"])
    BY <1>4 DEF WarpDone
  <2>4. /\ arrived' = 0
        /\ generation' = generation + 1 /\ generation' \in 0..MaxSyncs
        /\ place' \in [Warps -> Places]
        /\ place'[w] = "done"
        /\ \A v \in Warps \ {w} : /\ place[v] = "done" => place'[v] = "done"
                                  /\ place[v] # "done" => place'[v] = "woken"
    BY <1>2, <2>1, <2>2, <2>3, ReleaseStep
  <2>5. Active' = Active \ {w}
    BY <2>4 DEF Active
  <2>6. \A v \in Active' : gen'[v] = generation /\ entered'[v] = generation + 1 /\ v \in Warps
    BY <1>2, <2>1, <2>5 DEF Waiters, Active, Lockstep
  <2>7. Waiters' = {}
    BY <2>4, <2>6 DEF Waiters, Active, TypeOK
  <2>8. TypeOK'
    BY <1>2, <1>3, <2>4, CountedSets DEF TypeOK
  <2>9. CountersExact'
    BY <1>2, <1>3, <2>4, <2>5, <2>7, FS_EmptySet DEF CountersExact
  <2>10. NoLostWakeup'
    BY <2>4 DEF NoLostWakeup
  <2>11. Lockstep'
    BY <2>4, <2>6, <2>7 DEF Lockstep, TypeOK
  <2> QED
    BY <2>8, <2>9, <2>10, <2>11
<1>5. CASE ~(total_active' > 0 /\ arrived >= total_active')
  <2>1. /\ place' = [place EXCEPT ![w] = "done"]
        /\ UNCHANGED <<arrived, generation>>
    BY <1>5 DEF WarpDone
  <2>2. /\ place' \in [Warps -> Places] /\ place'[w] = "done"
        /\ \A v \in Warps \ {w} : place'[v] = place[v]
    BY <2>1 DEF TypeOK, Places
  <2>3. Active' = Active \ {w}
    BY <2>2 DEF Active
  <2>4. Waiters' = Waiters
    BY <1>1, <1>2, <2>1, <2>2 DEF Waiters
  <2>5. TypeOK'
    BY <1>2, <1>3, <2>1, <2>2 DEF TypeOK
  <2>6. arrived' < total_active' \/ arrived' = 0
    <3>1. CASE total_active' > 0
      BY <1>5, <2>1, <2>5, <3>1 DEF TypeOK
    <3>2. CASE total_active' = 0
      <4>1. Active \ {w} = {}
        BY <1>2, <1>3, <3>2, CountedSets, FS_RemoveElement, FS_EmptySet
      <4>2. Waiters = {}
        BY <1>1, <4>1, CountedSets
      <4> QED
        BY <4>2, <2>1, FS_EmptySet DEF CountersExact
    <3> QED
      BY <3>1, <3>2, <2>5, CountedSets DEF TypeOK
  <2>7. CountersExact'
    BY <1>2, <1>3, <2>1, <2>3, <2>4, <2>6 DEF CountersExact
  <2>8. NoLostWakeup'
    BY <1>2, <2>1, <2>2 DEF NoLostWakeup
  <2>9. Lockstep'
    BY <1>2, <2>1, <2>2, <2>3, <2>4 DEF Lockstep, Active
  <2> QED
    BY <2>5, <2>7, <2>8, <2>9
<1> QED
  BY <1>4, <1>5

LEMMA NextIInv ==
  ASSUME IInv, [Next]_vars
  PROVE  IInv'
<1>1. CASE UNCHANGED vars
  BY <1>1 DEF vars, IInv, TypeOK, CountersExact, NoLostWakeup, Lockstep, Active, Waiters
<1>2. CASE Joined
  BY <1>1, <1>2 DEF Joined
<1>3. ASSUME NEW w \in Warps, Step(w) \/ SpuriousWake(w)
      PROVE  IInv'
  BY <1>3, SyncLastIInv, SyncWaitIInv, InsideIInv, WarpDoneIInv DEF Step
<1> QED
  BY <1>1, <1>2, <1>3 DEF Next

\* The inductive invariant holds throughout every execution of the barrier.
THEOREM Invariance == Spec => []IInv
<1>1. Init => IInv
  BY InitIInv
<1>2. IInv /\ [Next]_vars => IInv'
  BY NextIInv
<1> QED
  BY <1>1, <1>2, PTL DEF Spec

\* The counters stay in range; generation_ counts at most MaxSyncs releases.
THEOREM TypeCorrect == Spec => []TypeOK
<1>1. IInv => TypeOK
  BY DEF IInv
<1> QED
  BY <1>1, Invariance, PTL

\* arrived_ and total_active_ count the waiting and the running warps of
\* block_context.h exactly, and a full barrier never stays closed.
THEOREM CountersCorrect == Spec => []CountersExact
<1>1. IInv => CountersExact
  BY DEF IInv
<1> QED
  BY <1>1, Invariance, PTL

\* notify_all() reaches everyone it must: no thread sleeps through a release.
THEOREM WakeupsCorrect == Spec => []NoLostWakeup
<1>1. IInv => NoLostWakeup
  BY DEF IInv
<1> QED
  BY <1>1, Invariance, PTL

\* The running warps never differ by more than the synchronisation in progress.
THEOREM LockstepCorrect == Spec => []Lockstep
<1>1. IInv => Lockstep
  BY DEF IInv
<1> QED
  BY <1>1, Invariance, PTL

-----------------------------------------------------------------------------
\* The state of PhaseBarrier that a state of the barrier stands for.
WhereOf(p) == CASE p = "run" -> "out" [] p = "done" -> "done" [] OTHER -> "in"

\* A thread that returns from sync() leaves a synchronisation that every
\* running warp has entered.
LEMMA LeaveIsAllowed ==
  ASSUME IInv, NEW w \in Warps, place[w] \in {"woken", "leaving"}, w \notin Waiters
  PROVE  \A v \in Active : entered[v] >= entered[w]
<1>1. w \in Active
  BY DEF Active
<1>2. entered[w] = generation /\ generation \in Nat
  BY <1>1 DEF IInv, Lockstep, TypeOK
<1>3. \A v \in Active : entered[v] = generation \/ entered[v] = generation + 1
  BY <1>2 DEF IInv, Lockstep
<1> QED
  BY <1>2, <1>3

\* Every step of the barrier is a step of PhaseBarrier or changes nothing there.
LEMMA StepRefines ==
  ASSUME IInv, [Next]_vars
  PROVE  [Phase!Next]_Phase!vars
<1> DEFINE W == [v \in Warps |-> WhereOf(place[v])]
<1> DEFINE WN == [v \in Warps |-> WhereOf(place'[v])]
<1>0. /\ place \in [Warps -> Places] /\ entered \in [Warps -> 0..MaxSyncs]
      /\ \A v \in Warps : W[v] = WhereOf(place[v]) /\ WN[v] = WhereOf(place'[v])
  BY DEF IInv, TypeOK
<1>1. ASSUME NEW w \in Warps, SyncLast(w) \/ SyncWait(w)
      PROVE  Phase!Enter(w)
  <2>1. /\ place[w] = "run" /\ entered[w] < MaxSyncs
        /\ entered' = [entered EXCEPT ![w] = @ + 1]
    BY <1>1 DEF SyncLast, SyncWait
  <2>2. place'[w] \in {"leaving", "blocked"}
    BY <1>0, <1>1 DEF SyncLast, SyncWait, Release, NotifyAll
  <2>3. \A v \in Warps \ {w} : \/ place'[v] = place[v]
                               \/ place[v] = "blocked" /\ place'[v] = "woken"
    BY <1>0, <1>1 DEF SyncLast, SyncWait, Release, NotifyAll
  <2>4. W[w] = "out" /\ WN = [W EXCEPT ![w] = "in"]
    BY <1>0, <2>1, <2>2, <2>3 DEF WhereOf
  <2> QED
    BY <2>1, <2>4 DEF Phase!Enter, WhereOf
<1>2. ASSUME NEW w \in Warps, WarpDone(w)
      PROVE  Phase!Finish(w)
  <2>1. place[w] = "run" /\ entered' = entered
    BY <1>2 DEF WarpDone
  <2>2. place'[w] = "done"
    BY <1>0, <1>2 DEF WarpDone, Release, NotifyAll
  <2>3. \A v \in Warps \ {w} : \/ place'[v] = place[v]
                               \/ place[v] = "blocked" /\ place'[v] = "woken"
    BY <1>0, <1>2 DEF WarpDone, Release, NotifyAll
  <2>4. W[w] = "out" /\ WN = [W EXCEPT ![w] = "done"]
    BY <1>0, <2>1, <2>2, <2>3 DEF WhereOf
  <2> QED
    BY <2>1, <2>4 DEF Phase!Finish, WhereOf
<1>3. ASSUME NEW w \in Warps, Return(w) \/ (Recheck(w) /\ generation # gen[w])
      PROVE  Phase!Leave(w)
  <2>1. /\ place[w] \in {"woken", "leaving"} /\ w \notin Waiters
        /\ place' = [place EXCEPT ![w] = "run"] /\ entered' = entered
    BY <1>3 DEF Return, Recheck, Waiters
  <2>2. \A v \in Warps : place[v] # "done" => entered[v] >= entered[w]
    BY <2>1, LeaveIsAllowed DEF Active
  <2>3. \A v \in Warps : W[v] # "done" => place[v] # "done"
    BY <1>0 DEF WhereOf
  <2>4. W[w] = "in" /\ WN = [W EXCEPT ![w] = "out"]
    BY <1>0, <2>1 DEF WhereOf
  <2> QED
    BY <2>1, <2>2, <2>3, <2>4 DEF Phase!Leave, WhereOf
<1>4. ASSUME NEW w \in Warps, SpuriousWake(w) \/ (Recheck(w) /\ generation = gen[w])
      PROVE  UNCHANGED Phase!vars
  <2>1. /\ place[w] \in {"blocked", "woken"} /\ place'[w] \in {"blocked", "woken"}
        /\ \A v \in Warps \ {w} : place'[v] = place[v]
        /\ entered' = entered
    BY <1>0, <1>4 DEF SpuriousWake, Recheck
  <2>2. WN = W
    BY <1>0, <2>1 DEF WhereOf
  <2> QED
    BY <2>1, <2>2 DEF Phase!vars, WhereOf
<1>5. CASE UNCHANGED vars
  BY <1>5 DEF vars, Phase!vars
<1> QED
  BY <1>1, <1>2, <1>3, <1>4, <1>5 DEF Next, Joined, Step, Phase!Next

\* The cyclic barrier of block_context.h implements __syncthreads(): a warp
\* leaves a synchronisation only when every running warp has entered it.
THEOREM ImplementsPhaseBarrier == Spec => Phase!Safety
<1>1. Init => Phase!Init
  BY DEF Init, Phase!Init
<1>2. IInv /\ [Next]_vars => [Phase!Next]_Phase!vars
  BY StepRefines
<1> QED
  BY <1>1, <1>2, Invariance, PTL DEF Spec, Phase!Safety
=============================================================================
