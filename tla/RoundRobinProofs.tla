-------------------------- MODULE RoundRobinProofs --------------------------
(***************************************************************************)
(* Proofs about RoundRobin, for every number of warps and every bound      *)
(* MaxSyncs: the sweep invariant is inductive, and it is what makes the    *)
(* order of the passes a barrier.                                          *)
(***************************************************************************)
EXTENDS RoundRobin, TLAPS

IInv ==
  /\ TypeOK
  /\ phase = "returned" => cursor = NWarps /\ ~any_active
  /\ Sweep
  /\ \A w \in Warps : state[w] = "atbar" => entered[w] > 0

USE RoundRobinAssumption DEF Warps

LEMMA InitIInv == Init => IInv
<1> SUFFICES ASSUME Init PROVE IInv
  OBVIOUS
<1>1. TypeOK
  <2>1. any_active \in BOOLEAN /\ inside \in BOOLEAN
    BY DEF Init
  <2> QED
    BY <2>1 DEF Init, TypeOK
<1>2. Sweep
  BY DEF Init, Sweep, Running
<1> QED
  BY <1>1, <1>2 DEF Init, IInv

\* What the two steps that end a warp's turn do to the other variables.
LEMMA TurnEnds ==
  ASSUME IInv, NEW w \in Warps, AtWarp(w), inside,
         cursor' = cursor + 1, inside' = FALSE, UNCHANGED <<phase, any_active>>,
         NEW s \in {"atbar", "over"}, state' = [state EXCEPT ![w] = s],
         \/ s = "over" /\ UNCHANGED entered
         \/ /\ s = "atbar" /\ entered[w] < MaxSyncs
            /\ entered' = [entered EXCEPT ![w] = @ + 1]
  PROVE  IInv'
<1>. USE DEF IInv
<1>1. /\ cursor = w /\ phase = "running" /\ any_active
      /\ state \in [Warps -> {"ready", "atbar", "over"}] /\ entered \in [Warps -> 0..MaxSyncs]
  BY DEF AtWarp, Sweep, TypeOK
<1>2. TypeOK'
  <2>1. any_active' \in BOOLEAN /\ inside' \in BOOLEAN
    BY DEF TypeOK
  <2> QED
    BY <1>1, <2>1 DEF TypeOK
<1>3. /\ \A v \in Warps \ {w} : state'[v] = state[v] /\ entered'[v] = entered[v]
      /\ state'[w] = s
      /\ s = "atbar" => entered'[w] = entered[w] + 1
      /\ \A v \in Warps : entered[v] \in Int /\ entered'[v] \in Int
  BY <1>1, <1>2 DEF TypeOK
<1>4. Running' = {v \in Running : v # w \/ s = "atbar"} /\ w \in Running
  BY <1>1, <1>3 DEF Running, Sweep
<1>5. \A v, u \in Running :
        /\ v < w /\ u >= w => entered[v] = entered[u] + 1
        /\ (v < w <=> u < w) => entered[v] = entered[u]
  BY <1>1 DEF Sweep
<1>6. ASSUME NEW v \in Running', NEW u \in Running'
      PROVE  /\ v < w + 1 /\ u >= w + 1 => entered'[v] = entered'[u] + 1
             /\ (v < w + 1 <=> u < w + 1) => entered'[v] = entered'[u]
  <2>1. v \in Running /\ u \in Running /\ v \in Warps /\ u \in Warps
    BY <1>4, <1>6 DEF Running
  <2>2. CASE v = w /\ u = w
    BY <2>2
  <2>3. CASE v = w /\ u # w
    BY <1>3, <1>4, <1>5, <2>1, <2>3
  <2>4. CASE v # w /\ u = w
    BY <1>3, <1>4, <1>5, <2>1, <2>4
  <2>5. CASE v # w /\ u # w
    BY <1>3, <1>4, <1>5, <2>1, <2>5
  <2> QED
    BY <2>2, <2>3, <2>4, <2>5
<1>7. \A v \in Running' : v < w + 1 => state'[v] = "atbar"
  BY <1>1, <1>3, <1>4 DEF Sweep, Running
<1>8. \A v \in Running' : v > w + 1 => (state'[v] = "ready" <=> entered'[v] = 0)
  BY <1>1, <1>3, <1>4 DEF Sweep, Running
<1>9. Sweep'
  BY <1>1, <1>6, <1>7, <1>8 DEF Sweep
<1>10. \A v \in Warps : state'[v] = "atbar" => entered'[v] > 0
  BY <1>1, <1>3
<1> QED
  BY <1>1, <1>2, <1>9, <1>10

LEMMA EndPassIInv ==
  ASSUME IInv, EndPass
  PROVE  IInv'
<1>. USE DEF IInv
<1>1. CASE ~any_active
  BY <1>1 DEF EndPass, TypeOK, Sweep, Running
<1>2. CASE any_active
  <2>1. /\ cursor = NWarps /\ cursor' = 0 /\ any_active' = FALSE
        /\ UNCHANGED <<phase, inside, state, entered>> /\ phase = "running"
    BY <1>2 DEF EndPass
  <2>2. Running' = Running /\ \A w \in Running : w \in Warps /\ w < NWarps
    BY <2>1 DEF Running, Warps
  <2>3. ~inside
    BY <2>1 DEF Sweep
  <2>4. \A v, u \in Running : entered[v] = entered[u]
    BY <2>1, <2>2 DEF Sweep
  <2>5. \A w \in Running : state[w] = "atbar"
    BY <2>1, <2>2 DEF Sweep
  <2>6. \A w \in Running : entered[w] # 0
    BY <2>2, <2>5
  <2>7. Sweep'
    BY <2>1, <2>2, <2>3, <2>4, <2>5, <2>6 DEF Sweep
  <2>8. any_active' \in BOOLEAN
    BY <2>1
  <2>9. TypeOK'
    BY <2>1, <2>8 DEF TypeOK
  <2> QED
    BY <2>1, <2>7, <2>9
<1> QED
  BY <1>1, <1>2

LEMMA NextIInv ==
  ASSUME IInv, [Next]_vars
  PROVE  IInv'
<1>. USE DEF IInv
<1>1. CASE UNCHANGED vars
  BY <1>1 DEF vars, TypeOK, Sweep, Running
<1>2. ASSUME NEW w \in Warps, Skip(w)
      PROVE  IInv'
  BY <1>2 DEF Skip, AtWarp, TypeOK, Sweep, Running
<1>3. ASSUME NEW w \in Warps, Resume(w)
      PROVE  IInv'
  BY <1>3 DEF Resume, AtWarp, TypeOK, Sweep, Running
<1>4. ASSUME NEW w \in Warps, Bar(w)
      PROVE  IInv'
  BY <1>4, TurnEnds DEF Bar
<1>5. ASSUME NEW w \in Warps, End(w)
      PROVE  IInv'
  BY <1>5, TurnEnds DEF End
<1>6. ASSUME NEW w \in Warps, Throw(w)
      PROVE  IInv'
  BY <1>6 DEF Throw, AtWarp, TypeOK, Sweep, Running
<1>7. CASE EndPass
  BY <1>7, EndPassIInv
<1> QED
  BY <1>1, <1>2, <1>3, <1>4, <1>5, <1>6, <1>7 DEF Next, Step, Stopped

\* The sweep holds throughout every execution of a block.
THEOREM Invariance == Spec => []IInv
<1>1. Init => IInv
  BY InitIInv
<1>2. IInv /\ [Next]_vars => IInv'
  BY NextIInv
<1> QED
  BY <1>1, <1>2, PTL DEF Spec

\* The cursor stays within the list of warps.
THEOREM TypeCorrect == Spec => []TypeOK
<1>1. IInv => TypeOK
  BY DEF IInv
<1> QED
  BY <1>1, Invariance, PTL

\* Warps the pass of rt_stream.cpp has reached are one bar ahead of the rest.
THEOREM SweepCorrect == Spec => []Sweep
<1>1. IInv => Sweep
  BY DEF IInv
<1> QED
  BY <1>1, Invariance, PTL

\* The loop on any_active of rt_stream.cpp does not return too early.
THEOREM ReturnsCompleteCorrect == Spec => []ReturnsComplete
<1>1. IInv => ReturnsComplete
  BY DEF IInv, ReturnsComplete, Sweep, Running, TypeOK
<1> QED
  BY <1>1, Invariance, PTL

-----------------------------------------------------------------------------
\* The place in PhaseBarrier of a warp in state s.
WhereOf(s) == CASE s = "ready" -> "out" [] s = "atbar" -> "in" [] OTHER -> "done"

LEMMA StepRefines ==
  ASSUME IInv, [Next]_vars
  PROVE  [Phase!Next]_Phase!vars
<1> DEFINE W == [v \in Warps |-> WhereOf(state[v])]
<1> DEFINE WN == [v \in Warps |-> WhereOf(state'[v])]
<1>0. state \in [Warps -> {"ready", "atbar", "over"}] /\ entered \in [Warps -> 0..MaxSyncs]
  BY DEF IInv, TypeOK
<1>. HIDE DEF Warps
<1>1. CASE state' = state /\ entered' = entered
  BY <1>1 DEF Phase!vars
<1>2. ASSUME NEW w \in Warps, Resume(w)
      PROVE  [Phase!Next]_Phase!vars
  <2>1. CASE state[w] = "ready"
    BY <1>0, <1>1, <1>2, <2>1 DEF Resume
  <2>2. CASE state[w] = "atbar"
    <3>1. \A v \in Warps : W[v] # "done" => v \in Running
      BY <1>0 DEF WhereOf, Running
    <3>2. \A v \in Running : entered[v] >= entered[w]
      <4>1. w \in Running /\ w = cursor
        BY <1>2, <2>2 DEF Running, Resume, AtWarp
      <4>2. \A v \in Running : entered[v] = entered[w] + 1 \/ entered[v] = entered[w]
        BY <4>1 DEF IInv, Sweep, Running, Warps
      <4> QED
        BY <1>0, <1>2, <4>2
    <3>3. W[w] = "in" /\ WN = [W EXCEPT ![w] = "out"] /\ entered' = entered
      BY <1>0, <1>2, <2>2 DEF Resume, WhereOf
    <3>4. Phase!Leave(w)
      BY <3>1, <3>2, <3>3 DEF Phase!Leave, WhereOf
    <3> QED
      BY <3>4 DEF Phase!Next
  <2> QED
    BY <1>0, <1>2, <2>1, <2>2 DEF Resume
<1>3. ASSUME NEW w \in Warps, Bar(w)
      PROVE  Phase!Enter(w)
  <2>1. state[w] = "ready"
    BY <1>3 DEF Bar, AtWarp, IInv, Sweep
  <2>2. W[w] = "out" /\ WN = [W EXCEPT ![w] = "in"]
    BY <1>0, <1>3, <2>1 DEF Bar, WhereOf
  <2> QED
    BY <1>3, <2>2 DEF Phase!Enter, WhereOf, Bar
<1>4. ASSUME NEW w \in Warps, End(w)
      PROVE  Phase!Finish(w)
  <2>1. state[w] = "ready"
    BY <1>4 DEF End, AtWarp, IInv, Sweep
  <2>2. W[w] = "out" /\ WN = [W EXCEPT ![w] = "done"]
    BY <1>0, <1>4, <2>1 DEF End, WhereOf
  <2> QED
    BY <1>4, <2>2 DEF Phase!Finish, WhereOf, End
<1>5. ASSUME EndPass \/ Stopped \/ UNCHANGED vars \/ \E w \in Warps : Skip(w) \/ Throw(w)
      PROVE  state' = state /\ entered' = entered
  BY <1>5 DEF EndPass, Stopped, vars, Skip, Throw
<1> QED
  BY <1>1, <1>2, <1>3, <1>4, <1>5 DEF Next, Step, Phase!Next

\* Running the warps of a block in passes, each up to its next bar, implements
\* __syncthreads() with no barrier object at all.
THEOREM ImplementsPhaseBarrier == Spec => PhaseSafety
<1>1. Init => Phase!Init
  BY DEF Init, Phase!Init
<1>2. IInv /\ [Next]_vars => [Phase!Next]_Phase!vars
  BY StepRefines
<1> QED
  BY <1>1, <1>2, Invariance, PTL DEF Spec, PhaseSafety, Phase!Safety
=============================================================================
