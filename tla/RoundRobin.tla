----------------------------- MODULE RoundRobin -----------------------------
(***************************************************************************)
(* The scheduler of RtStream::KernelLaunch (app/runtime/rt_stream.cpp) as  *)
(* built without EMULATOR_OPENMP_ENABLED, for one block: a single thread   *)
(* passes over the warps again and again, and runs each until it executes  *)
(* bar or ends.  There is no BlockBarrier, so bar itself does nothing; the *)
(* order of the passes has to make it a barrier.                           *)
(***************************************************************************)
EXTENDS Integers

CONSTANTS
  NWarps,    \* warps of the block, in the order of GetWarps()
  MaxSyncs   \* bound: the most barriers one warp executes

Warps == 0..NWarps - 1

ASSUME RoundRobinAssumption == NWarps \in Nat \ {0} /\ MaxSyncs \in Nat

VARIABLES
  phase,       \* "running", "returned" or "thrown"
  any_active,  \* any_active
  cursor,      \* position of the loop over the warps, NWarps at its end
  inside,      \* the loop is inside the warp at cursor
  state,       \* each warp: "ready" to run, "atbar" after a bar, "over"
  entered      \* bars each warp has executed (history)

vars == <<phase, any_active, cursor, inside, state, entered>>

Init ==
  /\ phase = "running"
  /\ any_active = FALSE
  /\ cursor = 0
  /\ inside = FALSE
  /\ state = [w \in Warps |-> "ready"]
  /\ entered = [w \in Warps |-> 0]

AtWarp(w) == phase = "running" /\ cursor = w

\* Mutant: the loop variable advances twice.
Skip_Twice(w) ==
  /\ AtWarp(w) /\ ~inside
  /\ state[w] = "over"
  /\ cursor' = cursor + 2
  /\ UNCHANGED <<phase, any_active, inside, state, entered>>

\* if (!warp->isActive()) continue;
Skip(w) ==
  /\ AtWarp(w) /\ ~inside
  /\ state[w] = "over"
  /\ cursor' = cursor + 1
  /\ UNCHANGED <<phase, any_active, inside, state, entered>>

\* Mutant: any_active is not set for a warp that continues after a bar.
Resume_NotActive(w) ==
  /\ AtWarp(w) /\ ~inside
  /\ state[w] # "over"
  /\ any_active' = (any_active \/ state[w] = "ready")
  /\ inside' = TRUE
  /\ state' = [state EXCEPT ![w] = "ready"]
  /\ UNCHANGED <<phase, cursor, entered>>

\* The warp is entered: it goes on after the bar it stopped at, if any.
Resume(w) ==
  /\ AtWarp(w) /\ ~inside
  /\ state[w] # "over"
  /\ any_active' = TRUE
  /\ inside' = TRUE
  /\ state' = [state EXCEPT ![w] = "ready"]
  /\ UNCHANGED <<phase, cursor, entered>>

\* Mutant: the break after a bar is missing, so the warp runs on.
Bar_NoBreak(w) ==
  /\ AtWarp(w) /\ inside
  /\ entered[w] < MaxSyncs
  /\ entered' = [entered EXCEPT ![w] = @ + 1]
  /\ UNCHANGED <<phase, any_active, cursor, inside, state>>

\* Mutant: the break leaves the loop over the warps.
Bar_BreaksOuter(w) ==
  /\ AtWarp(w) /\ inside
  /\ entered[w] < MaxSyncs
  /\ state' = [state EXCEPT ![w] = "atbar"]
  /\ entered' = [entered EXCEPT ![w] = @ + 1]
  /\ inside' = FALSE
  /\ cursor' = NWarps
  /\ UNCHANGED <<phase, any_active>>

\* The warp executes bar: break, next warp.
Bar(w) ==
  /\ AtWarp(w) /\ inside
  /\ entered[w] < MaxSyncs
  /\ state' = [state EXCEPT ![w] = "atbar"]
  /\ entered' = [entered EXCEPT ![w] = @ + 1]
  /\ inside' = FALSE
  /\ cursor' = cursor + 1
  /\ UNCHANGED <<phase, any_active>>

\* The warp is no longer active: next warp.
End(w) ==
  /\ AtWarp(w) /\ inside
  /\ state' = [state EXCEPT ![w] = "over"]
  /\ inside' = FALSE
  /\ cursor' = cursor + 1
  /\ UNCHANGED <<phase, any_active, entered>>

\* An instruction throws: nothing catches it before KernelLaunch's caller.
Throw(w) ==
  /\ AtWarp(w) /\ inside
  /\ phase' = "thrown"
  /\ UNCHANGED <<any_active, cursor, inside, state, entered>>

\* Mutant: any_active is not cleared at the start of a pass.
EndPass_Stale ==
  /\ phase = "running" /\ cursor = NWarps
  /\ IF any_active
     THEN cursor' = 0 /\ UNCHANGED <<phase, any_active>>
     ELSE phase' = "returned" /\ UNCHANGED <<cursor, any_active>>
  /\ UNCHANGED <<inside, state, entered>>

\* while (any_active)
EndPass ==
  /\ phase = "running" /\ cursor = NWarps
  /\ IF any_active
     THEN cursor' = 0 /\ any_active' = FALSE /\ UNCHANGED phase
     ELSE phase' = "returned" /\ UNCHANGED <<cursor, any_active>>
  /\ UNCHANGED <<inside, state, entered>>

\* The block is over: the only place to stop.
Stopped == phase # "running" /\ UNCHANGED vars

Step == EndPass \/ \E w \in Warps : Skip(w) \/ Resume(w) \/ Bar(w) \/ End(w)

Next == Stopped \/ Step \/ \E w \in Warps : Throw(w)

\* One thread, which goes on as long as it can.
Spec == Init /\ [][Next]_vars /\ WF_vars(Step)

-----------------------------------------------------------------------------
TypeOK ==
  /\ phase \in {"running", "returned", "thrown"}
  /\ any_active \in BOOLEAN
  /\ cursor \in 0..NWarps
  /\ inside \in BOOLEAN
  /\ state \in [Warps -> {"ready", "atbar", "over"}]
  /\ entered \in [Warps -> 0..MaxSyncs]

(***************************************************************************)
(* The pass is a sweep: of any two warps that have not ended, the one the  *)
(* cursor has passed is exactly one bar ahead of the one it has not, and   *)
(* two on the same side of it are level.  any_active tells whether the     *)
(* pass has met a warp that had not ended.                                 *)
(***************************************************************************)
Running == {w \in Warps : state[w] # "over"}

Sweep ==
  /\ \A v, w \in Running :
       /\ v < cursor /\ w >= cursor => entered[v] = entered[w] + 1
       /\ (v < cursor <=> w < cursor) => entered[v] = entered[w]
  /\ \A w \in Running : w < cursor => state[w] = "atbar"
  /\ \A w \in Running : w > cursor => (state[w] = "ready" <=> entered[w] = 0)
  /\ inside => cursor \in Warps /\ state[cursor] = "ready"
  /\ ~any_active => ~inside /\ \A w \in Running : w >= cursor

\* A block that returns has run every warp to its end.
ReturnsComplete == phase = "returned" => Running = {}

\* A block ends, whatever bars its warps execute and wherever they end.
BlockEnds == <>(phase # "running")

Phase == INSTANCE PhaseBarrier WITH
  where <- [w \in Warps |->
              CASE state[w] = "ready" -> "out"
                [] state[w] = "atbar" -> "in"
                [] OTHER              -> "done"]

\* Running the warps in passes makes bar a barrier for the block.
PhaseSafety == Phase!Safety
=============================================================================
