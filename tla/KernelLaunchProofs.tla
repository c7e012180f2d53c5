------------------------- MODULE KernelLaunchProofs -------------------------
(***************************************************************************)
(* Proofs about module KernelLaunch, for any number of warps, blocks and   *)
(* threads of the team.  The barrier is a component: each of its steps     *)
(* keeps the invariant that module BlockBarrierProofs proves inductive, and *)
(* StartBlock establishes it anew.  Around it, the launch's own invariant  *)
(* says that a warp's iteration is over exactly when the barrier counts    *)
(* it as gone, that first_ex is the first that threw, and that the buffers *)
(* flushed so far are those of the blocks before this one.                 *)
(***************************************************************************)
EXTENDS KernelLaunch, FiniteSetTheorems, SequenceTheorems, TLAPS

USE LaunchAssumption

BP == INSTANCE BlockBarrierProofs

-----------------------------------------------------------------------------
\* The barrier as a component.  The operators of FiniteSets that its instances
\* bring with them are those of this module.

LEMMA BarrierAssumed ==
  /\ Cardinality(Warps) = NWarps
  /\ BP!Cardinality(Warps) = Cardinality(Warps)
  /\ Barrier!Cardinality(Warps) = Cardinality(Warps)
  /\ BP!BarrierAssumption
<1>1. IsFiniteSet(Warps) /\ Cardinality(Warps) = NWarps
  BY FS_Interval DEF Warps
<1>2. BP!Cardinality(Warps) = Cardinality(Warps)
  BY DEF BP!Cardinality, Cardinality
<1>3. Barrier!Cardinality(Warps) = Cardinality(Warps)
  BY DEF Barrier!Cardinality, Cardinality
<1>4. BP!IsFiniteSet(Warps) <=> IsFiniteSet(Warps)
  BY DEF BP!IsFiniteSet, IsFiniteSet
<1> QED
  BY <1>1, <1>2, <1>3, <1>4 DEF BP!BarrierAssumption

LEMMA BarrierInit == Barrier!Init => BP!IInv
<1>1. Barrier!Init => BP!Init
  BY BarrierAssumed DEF Barrier!Init, BP!Init
<1> QED
  BY <1>1, BP!InitIInv, BarrierAssumed

\* The barrier that is constructed for a block is like the first one.
LEMMA BarrierAnew == InitBarrier(NWarps) => BP!IInv'
<1>1. InitBarrier(NWarps) => BP!Init'
  BY BarrierAssumed DEF InitBarrier, BP!Init
<1>2. BP!Init => BP!IInv
  BY BP!InitIInv, BarrierAssumed
<1>3. BP!Init' => BP!IInv'
  BY <1>2, PTL
<1> QED
  BY <1>1, <1>3

LEMMA BarrierStep ==
  ASSUME BP!IInv, NEW w \in Warps,
         \/ Barrier!SyncLast(w) \/ Barrier!SyncWait(w) \/ Barrier!Recheck(w)
         \/ Barrier!Return(w) \/ Barrier!WarpDone(w) \/ Barrier!SpuriousWake(w)
  PROVE  BP!IInv'
<1>1. BP!SyncLast(w) \/ BP!SyncWait(w) \/ BP!Recheck(w) \/ BP!Return(w)
        \/ BP!WarpDone(w) \/ BP!SpuriousWake(w)
  BY DEF Barrier!SyncLast, Barrier!SyncWait, Barrier!Recheck, Barrier!Return,
         Barrier!WarpDone, Barrier!SpuriousWake, Barrier!Release, Barrier!NotifyAll,
         BP!SyncLast, BP!SyncWait, BP!Recheck, BP!Return,
         BP!WarpDone, BP!SpuriousWake, BP!Release, BP!NotifyAll
<1> QED
  BY <1>1, BP!SyncLastIInv, BP!SyncWaitIInv, BP!InsideIInv, BP!WarpDoneIInv, BarrierAssumed

LEMMA BarrierStutter ==
  ASSUME BP!IInv, UNCHANGED barrier
  PROVE  BP!IInv'
<1>1. UNCHANGED BP!vars
  BY DEF barrier, BP!vars
<1> QED
  BY <1>1, BP!NextIInv, BarrierAssumed

LEMMA PlaceTyped == BP!IInv => place \in [Warps -> {"run", "blocked", "woken", "leaving", "done"}]
BY DEF BP!IInv, BP!TypeOK, BP!Places

\* A thread's step moves the others at most out of the wait set.
OthersWake(w) ==
  \A v \in Warps \ {w} :
    \/ place'[v] = place[v]
    \/ place[v] = "blocked" /\ place'[v] = "woken"

LEMMA SyncPlaces ==
  ASSUME BP!IInv, NEW w \in Warps,
         \/ Barrier!SyncLast(w) \/ Barrier!SyncWait(w) \/ Barrier!Recheck(w)
         \/ Barrier!Return(w) \/ Barrier!SpuriousWake(w)
  PROVE  place[w] # "done" /\ place'[w] # "done" /\ OthersWake(w)
<1>1. CASE Barrier!SyncLast(w)
  BY <1>1, PlaceTyped DEF OthersWake, Barrier!SyncLast, Barrier!Release, Barrier!NotifyAll
<1>2. CASE Barrier!SyncWait(w)
  BY <1>2, PlaceTyped DEF OthersWake, Barrier!SyncWait
<1>3. CASE Barrier!Recheck(w) \/ Barrier!Return(w) \/ Barrier!SpuriousWake(w)
  BY <1>3, PlaceTyped DEF OthersWake, Barrier!Recheck, Barrier!Return, Barrier!SpuriousWake
<1> QED
  BY <1>1, <1>2, <1>3

LEMMA WarpDonePlaces ==
  ASSUME BP!IInv, NEW w \in Warps, Barrier!WarpDone(w)
  PROVE  place[w] = "run" /\ place'[w] = "done" /\ OthersWake(w)
<1>1. CASE place' = [place EXCEPT ![w] = "done"]
  BY <1>1, PlaceTyped DEF OthersWake, Barrier!WarpDone
<1>2. CASE place' = Barrier!NotifyAll([place EXCEPT ![w] = "done"])
  BY <1>2, PlaceTyped DEF OthersWake, Barrier!WarpDone, Barrier!NotifyAll
<1> QED
  BY <1>1, <1>2 DEF Barrier!WarpDone, Barrier!Release

-----------------------------------------------------------------------------
\* Numbers: the r-th of the warps of block b.
LEMMA DivMod ==
  ASSUME NEW n \in Nat \ {0}, NEW b \in Nat, NEW r \in 0..n - 1
  PROVE  (b * n + r) \div n = b /\ (b * n + r) % n = r
<1> DEFINE x == b * n + r
<1>1. x \in Nat
  OBVIOUS
<1> HIDE DEF x
<1> DEFINE q == x \div n
           m == x % n
<1>2. q \in Int /\ m \in 0..n - 1 /\ x = n * q + m
  BY <1>1
<1> HIDE DEF q, m
<1>3. n * (b - q) = m - r
  BY <1>2 DEF x
<1>4. ~(b - q >= 1)
  <2> DEFINE d == b - q - 1
  <2>1. SUFFICES ASSUME d \in Nat PROVE FALSE
    BY <1>2
  <2>2. n * d >= 0
    BY <2>1
  <2>3. n * (b - q) = n * d + n
    BY <1>2
  <2> QED
    BY <2>2, <2>3, <1>2, <1>3
<1>5. ~(q - b >= 1)
  <2> DEFINE d == q - b - 1
  <2>1. SUFFICES ASSUME d \in Nat PROVE FALSE
    BY <1>2
  <2>2. n * d >= 0
    BY <2>1
  <2>3. n * (b - q) = -(n * d) - n
    BY <1>2
  <2> QED
    BY <2>2, <2>3, <1>2, <1>3
<1>6. q = b
  BY <1>2, <1>4, <1>5
<1>7. m = r
  BY <1>2, <1>6 DEF x
<1> QED
  BY <1>6, <1>7 DEF q, m, x

-----------------------------------------------------------------------------
\* The launch.

Types ==
  /\ phase \in {"serial", "parallel", "returned", "thrown"}
  /\ block \in 0..NBlocks
  /\ stage \in [Warps -> {"queued", "running", "unwinding", "over"}]
  /\ threw \in Seq(Warps)

\* Outside the region all iterations are over and nobody is at the barrier;
\* inside, the barrier counts as gone the warps whose iterations are over, and
\* only running ones synchronise.
Stages ==
  /\ phase # "parallel" => \A w \in Warps : stage[w] = "over" /\ place[w] \in {"run", "done"}
  /\ phase = "parallel" => \A w \in Warps :
       /\ stage[w] = "over" <=> place[w] = "done"
       /\ stage[w] \in {"queued", "unwinding"} => place[w] = "run"
  /\ phase = "thrown" => \A w \in Warps : place[w] = "done"

FirstException ==
  /\ threw = <<>> => first_ex = None
  /\ threw # <<>> => first_ex \in Warps /\ first_ex = Head(threw)

Phases ==
  /\ phase \in {"serial", "returned"} => threw = <<>>
  /\ phase = "thrown" => threw # <<>>
  /\ phase = "parallel" => block < NBlocks
  /\ phase = "returned" => block = NBlocks

Profile == flushed \in Seq(Nat \X Nat) /\ FlushedInOrder

Inv == BP!IInv /\ Types /\ Stages /\ FirstException /\ Phases /\ Profile

LEMMA FlushRight ==
  ASSUME Profile, block \in Nat, FlushBlock, block' = block + 1
  PROVE  Profile'
<1> DEFINE f == [i \in 1..NWarps |-> <<block, i - 1>>]
<1>1. f \in Seq(Nat \X Nat) /\ Len(f) = NWarps /\ \A i \in 1..NWarps : f[i] = <<block, i - 1>>
  <2>1. f \in [1..NWarps -> Nat \X Nat]
    OBVIOUS
  <2> QED
    BY <2>1
<1>2. flushed' = flushed \o f /\ flushed \in Seq(Nat \X Nat)
  BY DEF FlushBlock, Profile
<1> HIDE DEF f
<1>3. /\ flushed' \in Seq(Nat \X Nat)
      /\ Len(flushed') = Len(flushed) + NWarps
      /\ \A i \in 1..Len(flushed) + NWarps :
           flushed'[i] = IF i <= Len(flushed) THEN flushed[i] ELSE f[i - Len(flushed)]
  BY <1>1, <1>2, ConcatProperties
<1>4. /\ Len(flushed) = block * NWarps /\ Len(flushed) \in Nat
      /\ \A i \in 1..Len(flushed) : flushed[i] = <<(i - 1) \div NWarps, (i - 1) % NWarps>>
  BY <1>2 DEF Profile, FlushedInOrder
<1>5. Len(flushed') = block' * NWarps
  <2>1. (block + 1) * NWarps = block * NWarps + NWarps
    OBVIOUS
  <2> QED
    BY <2>1, <1>3, <1>4
<1>6. ASSUME NEW i \in 1..Len(flushed')
      PROVE  flushed'[i] = <<(i - 1) \div NWarps, (i - 1) % NWarps>>
  <2>1. CASE i <= Len(flushed)
    <3>1. i \in 1..Len(flushed) /\ i \in 1..Len(flushed) + NWarps
      BY <1>3, <1>4, <2>1
    <3>2. flushed'[i] = flushed[i]
      BY <1>3, <2>1, <3>1
    <3> QED
      BY <1>4, <3>1, <3>2
  <2>2. CASE i > Len(flushed)
    <3> DEFINE r == i - 1 - Len(flushed)
    <3>1. r \in 0..NWarps - 1 /\ i - Len(flushed) = r + 1 /\ r + 1 \in 1..NWarps
      BY <1>3, <1>4, <2>2
    <3>2. flushed'[i] = f[r + 1]
      BY <1>3, <1>4, <2>2, <3>1
    <3>3. i - 1 = block * NWarps + r
      BY <1>4
    <3> HIDE DEF r
    <3>4. flushed'[i] = <<block, r>>
      BY <1>1, <3>1, <3>2
    <3>5. (i - 1) \div NWarps = block /\ (i - 1) % NWarps = r
      BY <3>1, <3>3, DivMod
    <3> QED
      BY <3>4, <3>5
  <2> QED
    BY <1>3, <1>4, <2>1, <2>2
<1> QED
  BY <1>3, <1>5, <1>6 DEF Profile, FlushedInOrder

LEMMA InitInv == Init => Inv
<1> SUFFICES ASSUME Init PROVE Inv
  OBVIOUS
<1>1. BP!IInv
  BY BarrierInit DEF Init
<1>2. Types /\ FirstException /\ Phases
  BY DEF Init, Types, FirstException, Phases
<1>3. Stages
  BY DEF Init, Stages, Barrier!Init
<1>4. Profile
  <2>1. flushed = <<>> /\ block = 0
    BY DEF Init
  <2>2. flushed \in Seq(Nat \X Nat) /\ Len(flushed) = 0
    BY <2>1
  <2>3. block * NWarps = 0
    BY <2>1
  <2> QED
    BY <2>2, <2>3 DEF Profile, FlushedInOrder
<1> QED
  BY <1>1, <1>2, <1>3, <1>4 DEF Inv

LEMMA StartBlockInv ==
  ASSUME Inv, StartBlock
  PROVE  Inv'
<1>1. BP!IInv'
  BY BarrierAnew DEF StartBlock
<1>2. Types'
  BY DEF Inv, Types, StartBlock
<1>3. Stages'
  BY DEF StartBlock, InitBarrier, Stages
<1>4. FirstException' /\ Phases'
  BY DEF Inv, Types, StartBlock, FirstException, Phases
<1>5. Profile'
  BY DEF Inv, StartBlock, Profile, FlushedInOrder
<1> QED
  BY <1>1, <1>2, <1>3, <1>4, <1>5 DEF Inv

LEMMA StartWarpInv ==
  ASSUME Inv, NEW w \in Warps, StartWarp(w)
  PROVE  Inv'
<1>1. BP!IInv'
  BY BarrierStutter DEF Inv, StartWarp
<1>2. Types' /\ FirstException' /\ Phases' /\ Profile'
  BY DEF Inv, StartWarp, Types, FirstException, Phases, Profile, FlushedInOrder
<1>3. Stages'
  BY DEF Inv, StartWarp, Types, Stages, barrier
<1> QED
  BY <1>1, <1>2, <1>3 DEF Inv

\* A warp is in the barrier only while its iteration runs.
LEMMA SyncInv ==
  ASSUME Inv, NEW w \in Warps, Sync(w) \/ SpuriousWake(w)
  PROVE  Inv'
<1>0. UNCHANGED <<phase, block, stage, first_ex, threw, flushed>>
  BY DEF Sync, SpuriousWake
<1>1. BP!IInv'
  BY BarrierStep DEF Inv, Sync, SpuriousWake
<1>2. Types' /\ FirstException' /\ Phases' /\ Profile'
  BY <1>0 DEF Inv, Types, FirstException, Phases, Profile, FlushedInOrder
<1>3. phase = "parallel" /\ stage[w] = "running"
  <2>1. CASE Sync(w)
    BY <2>1 DEF Inv, Sync, Types, Stages
  <2>2. CASE SpuriousWake(w)
    <3>1. place[w] = "blocked"
      BY <2>2 DEF SpuriousWake, Barrier!SpuriousWake
    <3> QED
      BY <3>1 DEF Inv, Types, Stages
  <2> QED
    BY <2>1, <2>2
<1>4. /\ place[w] # "done" /\ place'[w] # "done"
      /\ OthersWake(w)
  BY SyncPlaces DEF Inv, Sync, SpuriousWake
<1>5. Stages'
  BY <1>0, <1>3, <1>4 DEF Inv, Stages, Types, OthersWake
<1> QED
  BY <1>1, <1>2, <1>5 DEF Inv

LEMMA ThrowInv ==
  ASSUME Inv, NEW w \in Warps, Throw(w)
  PROVE  Inv'
<1>1. BP!IInv'
  BY BarrierStutter DEF Inv, Throw
<1>2. /\ threw \in Seq(Warps) /\ threw' = Append(threw, w)
      /\ threw' \in Seq(Warps) /\ threw' # <<>>
  BY AppendProperties DEF Inv, Types, Throw
<1>3. Types' /\ Profile'
  BY <1>2 DEF Inv, Throw, Types, Profile, FlushedInOrder
<1>4. FirstException'
  <2>1. CASE threw = <<>>
    <3>1. first_ex' = w
      BY <2>1 DEF Inv, Throw, FirstException
    <3>2. Head(threw') = w
      BY <1>2, <2>1
    <3> QED
      BY <1>2, <3>1, <3>2 DEF FirstException
  <2>2. CASE threw # <<>>
    <3>1. first_ex \in Warps /\ first_ex = Head(threw)
      BY <2>2 DEF Inv, FirstException
    <3>2. first_ex # None
      BY <3>1 DEF Warps, None
    <3>3. first_ex' = first_ex
      BY <3>2 DEF Throw
    <3>4. Head(threw') = Head(threw)
      BY <1>2, <2>2
    <3> QED
      BY <1>2, <3>1, <3>3, <3>4 DEF FirstException
  <2> QED
    BY <2>1, <2>2
<1>5. phase = "parallel"
  BY DEF Inv, Types, Stages, Throw
<1>6. Phases'
  BY <1>5 DEF Inv, Phases, Throw
<1>7. Stages'
  BY <1>5 DEF Inv, Types, Stages, Throw, barrier
<1> QED
  BY <1>1, <1>3, <1>4, <1>6, <1>7 DEF Inv

LEMMA WarpDoneInv ==
  ASSUME Inv, NEW w \in Warps, WarpDone(w)
  PROVE  Inv'
<1>0. /\ UNCHANGED <<phase, block, first_ex, threw, flushed>>
      /\ stage' = [stage EXCEPT ![w] = "over"]
      /\ stage[w] \in {"running", "unwinding"}
  BY DEF WarpDone
<1>1. BP!IInv'
  BY BarrierStep DEF Inv, WarpDone
<1>2. Types' /\ FirstException' /\ Phases' /\ Profile'
  BY <1>0 DEF Inv, Types, FirstException, Phases, Profile, FlushedInOrder
<1>3. phase = "parallel"
  BY <1>0 DEF Inv, Types, Stages
<1>4. /\ place'[w] = "done"
      /\ OthersWake(w)
  BY WarpDonePlaces DEF Inv, WarpDone
<1>5. Stages'
  BY <1>0, <1>3, <1>4 DEF Inv, Stages, Types, OthersWake
<1> QED
  BY <1>1, <1>2, <1>5 DEF Inv

LEMMA EndRegionInv ==
  ASSUME Inv, EndRegion
  PROVE  Inv'
<1>0. /\ phase = "parallel" /\ \A w \in Warps : stage[w] = "over" /\ place[w] = "done"
      /\ UNCHANGED <<barrier, stage, first_ex, threw>>
      /\ block \in Nat /\ block < NBlocks
  BY DEF Inv, EndRegion, Stages, Types, Phases
<1>1. BP!IInv'
  BY <1>0, BarrierStutter DEF Inv
<1>2. UNCHANGED place
  BY <1>0 DEF barrier
<1>3. first_ex = None <=> threw = <<>>
  BY DEF Inv, FirstException, Warps, None
<1>4. CASE first_ex # None
  <2>1. phase' = "thrown" /\ UNCHANGED <<block, flushed>>
    BY <1>4 DEF EndRegion
  <2>2. Types' /\ FirstException' /\ Phases' /\ Profile'
    BY <1>0, <1>3, <1>4, <2>1
       DEF Inv, Types, FirstException, Phases, Profile, FlushedInOrder
  <2>3. Stages'
    BY <1>0, <1>2, <2>1 DEF Stages
  <2> QED
    BY <1>1, <2>2, <2>3 DEF Inv
<1>5. CASE first_ex = None
  <2>1. phase' = "serial" /\ block' = block + 1 /\ FlushBlock
    BY <1>5 DEF EndRegion
  <2>2. Types' /\ FirstException' /\ Phases'
    BY <1>0, <1>3, <1>5, <2>1 DEF Inv, Types, FirstException, Phases
  <2>3. Stages'
    BY <1>0, <1>2, <2>1 DEF Stages
  <2>4. Profile'
    BY <1>0, <2>1, FlushRight DEF Inv
  <2> QED
    BY <1>1, <2>2, <2>3, <2>4 DEF Inv
<1> QED
  BY <1>4, <1>5

LEMMA ReturnNormallyInv ==
  ASSUME Inv, ReturnNormally
  PROVE  Inv'
<1>1. BP!IInv'
  BY BarrierStutter DEF Inv, ReturnNormally
<1>2. Types' /\ FirstException' /\ Phases' /\ Profile'
  BY DEF Inv, ReturnNormally, Types, FirstException, Phases, Profile, FlushedInOrder
<1>3. Stages'
  BY DEF Inv, ReturnNormally, Stages, barrier
<1> QED
  BY <1>1, <1>2, <1>3 DEF Inv

LEMMA StutterInv ==
  ASSUME Inv, UNCHANGED vars
  PROVE  Inv'
<1>1. UNCHANGED <<barrier, place, phase, block, stage, first_ex, threw, flushed>>
  BY DEF vars, barrier
<1>2. BP!IInv'
  BY <1>1, BarrierStutter DEF Inv
<1>3. Types' /\ Stages' /\ FirstException' /\ Phases' /\ Profile'
  BY <1>1 DEF Inv, Types, Stages, FirstException, Phases, Profile, FlushedInOrder
<1> QED
  BY <1>2, <1>3 DEF Inv

LEMMA NextInv == Inv /\ [Next]_vars => Inv'
<1> SUFFICES ASSUME Inv, [Next]_vars PROVE Inv'
  OBVIOUS
<1>1. CASE MainStep
  BY <1>1, StartBlockInv, EndRegionInv, ReturnNormallyInv DEF MainStep
<1>2. ASSUME NEW w \in Warps, WarpStep(w) \/ Throw(w) \/ SpuriousWake(w) PROVE Inv'
  BY <1>2, StartWarpInv, SyncInv, WarpDoneInv, ThrowInv DEF WarpStep
<1>3. CASE Stopped \/ UNCHANGED vars
  BY <1>3, StutterInv DEF Stopped
<1> QED
  BY <1>1, <1>2, <1>3 DEF Next

\* Every reachable state satisfies the invariant.
THEOREM SpecInv == Spec => []Inv
<1> QED
  BY InitInv, NextInv, PTL DEF Spec

\* The profile has every warp of every finished block, in grid order.
THEOREM SpecFlushedInOrder == Spec => []FlushedInOrder
<1>1. Inv => FlushedInOrder
  BY DEF Inv, Profile
<1> QED
  BY <1>1, SpecInv, PTL

\* A launch returns only if no warp threw, and else throws what was thrown
\* first, when no warp is running any more.
THEOREM SpecOutcome == Spec => []Outcome
<1>1. Inv => Outcome
  BY DEF Inv, Stages, Phases, FirstException, Outcome
<1> QED
  BY <1>1, SpecInv, PTL

-----------------------------------------------------------------------------
\* Only the waiter itself leaves the barrier, and only when it may.
LEMMA PassStep ==
  ASSUME Inv, Next, NEW w \in Warps, phase = "parallel",
         place[w] \in {"woken", "leaving"}, place'[w] = "run"
  PROVE  \A v \in Warps : place[v] = "done" \/ entered[v] >= entered[w]
<1>0. BP!IInv /\ place \in [Warps -> {"run", "blocked", "woken", "leaving", "done"}]
  BY PlaceTyped DEF Inv
<1>1. place' # place
  OBVIOUS
<1>2. PICK u \in Warps : Sync(u) \/ SpuriousWake(u) \/ WarpDone(u)
  BY <1>1 DEF Next, MainStep, StartBlock, EndRegion, ReturnNormally, Stopped, vars,
              WarpStep, StartWarp, Throw, barrier
<1>3. u = w
  BY <1>0, <1>2, SyncPlaces, WarpDonePlaces DEF Sync, SpuriousWake, WarpDone, OthersWake
<1>4. Barrier!Recheck(w) \/ Barrier!Return(w)
  BY <1>0, <1>2, <1>3 DEF Sync, SpuriousWake, WarpDone, Barrier!SyncLast, Barrier!SyncWait,
     Barrier!SpuriousWake, Barrier!WarpDone
<1>5. w \notin BP!Waiters
  BY <1>0, <1>4 DEF Barrier!Recheck, Barrier!Return, BP!Waiters
<1>6. \A v \in BP!Active : entered[v] >= entered[w]
  BY <1>0, <1>5, BP!LeaveIsAllowed, BarrierAssumed
<1> QED
  BY <1>6 DEF BP!Active

\* bar is a barrier even when warps throw, or have not been started.
THEOREM SpecPassTogether == Spec => PassTogether
<1> DEFINE Pass ==
      \A w \in Warps :
        phase = "parallel" /\ place[w] \in {"woken", "leaving"} /\ place'[w] = "run" =>
          \A v \in Warps : place[v] = "done" \/ entered[v] >= entered[w]
<1>1. Inv /\ [Next]_vars => [Pass]_vars
  BY PassStep
<1> QED
  BY <1>1, SpecInv, PTL DEF Spec, PassTogether
=============================================================================
