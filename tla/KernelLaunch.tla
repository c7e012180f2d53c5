---------------------------- MODULE KernelLaunch ----------------------------
(***************************************************************************)
(* RtStream::KernelLaunch of app/runtime/rt_stream.cpp, as built with      *)
(* EMULATOR_OPENMP_ENABLED: the blocks of the grid run one after another;  *)
(* the warps of a block run in a parallel region, each with a barrier of   *)
(* module BlockBarrier that is constructed anew for the block.  A warp may *)
(* throw at any instruction; the first exception is rethrown after the     *)
(* region, which skips the block's profiling flush and the later blocks.   *)
(***************************************************************************)
EXTENDS Integers, FiniteSets, Sequences

CONSTANTS
  NWarps,    \* warps of a block, numbered from 0 as in GetWarps()
  NBlocks,   \* blocks of the grid
  Team,      \* threads the OpenMP runtime gives the parallel region
  MaxSyncs   \* bound: the most barriers one warp executes in a block

Warps == 0..NWarps - 1

ASSUME LaunchAssumption ==
  /\ NWarps \in Nat \ {0} /\ NBlocks \in Nat
  /\ Team \in 1..NWarps
  /\ MaxSyncs \in Nat

None == NWarps   \* no warp: first_ex is null

VARIABLES
  total_active, arrived, generation, gen, place, entered,  \* the barrier
  phase,     \* "serial", inside the "parallel" region, "returned" or "thrown"
  block,     \* index of the current block
  stage,     \* each warp's loop iteration: "queued", "running", "unwinding", "over"
  first_ex,  \* the warp whose exception first_ex holds, or None
  threw,     \* warps that threw in any block, in order (history)
  flushed    \* the profiling buffers flushed so far, as <<block, warp>>

barrier == <<total_active, arrived, generation, gen, place, entered>>
vars == <<barrier, phase, block, stage, first_ex, threw, flushed>>

Barrier == INSTANCE BlockBarrier

Init ==
  /\ Barrier!Init
  /\ phase = "serial"
  /\ block = 0
  /\ stage = [w \in Warps |-> "over"]
  /\ first_ex = None
  /\ threw = <<>>
  /\ flushed = <<>>

\* Mutant: one warp is not counted.
InitBarrier_OneShort(n) ==
  /\ total_active' = n - 1
  /\ arrived' = 0
  /\ generation' = 0
  /\ gen' = [w \in Warps |-> 0]
  /\ place' = [w \in Warps |-> "run"]
  /\ entered' = [w \in Warps |-> 0]

\* BlockContext::InitBarrier: a new barrier for n warps.
InitBarrier(n) ==
  /\ total_active' = n
  /\ arrived' = 0
  /\ generation' = 0
  /\ gen' = [w \in Warps |-> 0]
  /\ place' = [w \in Warps |-> "run"]
  /\ entered' = [w \in Warps |-> 0]

\* The serial part before the parallel region of the next block.
StartBlock ==
  /\ phase = "serial"
  /\ block < NBlocks
  /\ InitBarrier(NWarps)
  /\ phase' = "parallel"
  /\ stage' = [w \in Warps |-> "queued"]
  /\ first_ex' = None
  /\ UNCHANGED <<block, threw, flushed>>

\* schedule(static, 1): thread t runs the iterations t, t + Team, ... in order.
StartWarp(w) ==
  /\ phase = "parallel"
  /\ stage[w] = "queued"
  /\ \A v \in Warps : v < w /\ v % Team = w % Team => stage[v] = "over"
  /\ stage' = [stage EXCEPT ![w] = "running"]
  /\ UNCHANGED <<barrier, phase, block, first_ex, threw, flushed>>

\* A running warp executes bar, up to its return from BlockContext::SyncBarrier.
Sync(w) ==
  /\ stage[w] = "running"
  /\ \/ Barrier!SyncLast(w)
     \/ Barrier!SyncWait(w)
     \/ Barrier!Recheck(w)
     \/ Barrier!Return(w)
  /\ UNCHANGED <<phase, block, stage, first_ex, threw, flushed>>

SpuriousWake(w) ==
  /\ Barrier!SpuriousWake(w)
  /\ UNCHANGED <<phase, block, stage, first_ex, threw, flushed>>

\* Mutant: a later exception replaces the first.
Throw_KeepsLast(w) ==
  /\ stage[w] = "running" /\ place[w] = "run"
  /\ stage' = [stage EXCEPT ![w] = "unwinding"]
  /\ first_ex' = w
  /\ threw' = Append(threw, w)
  /\ UNCHANGED <<barrier, phase, block, flushed>>

\* An instruction of the warp throws; catch (...) keeps the first exception.
\* Throwing and entering the critical section are one step, so the order of the
\* exceptions is that of entering.
Throw(w) ==
  /\ stage[w] = "running" /\ place[w] = "run"
  /\ stage' = [stage EXCEPT ![w] = "unwinding"]
  /\ first_ex' = IF first_ex = None THEN w ELSE first_ex
  /\ threw' = Append(threw, w)
  /\ UNCHANGED <<barrier, phase, block, flushed>>

\* Mutant: warp_done() is called only by the warps that did not throw.
WarpDone_NotAfterThrow(w) ==
  /\ stage[w] \in {"running", "unwinding"}
  /\ IF stage[w] = "running"
     THEN Barrier!WarpDone(w)
     ELSE /\ place' = [place EXCEPT ![w] = "done"]
          /\ UNCHANGED <<total_active, arrived, generation, gen, entered>>
  /\ stage' = [stage EXCEPT ![w] = "over"]
  /\ UNCHANGED <<phase, block, first_ex, threw, flushed>>

\* The warp is no longer active, or has thrown: block->WarpDone() either way.
WarpDone(w) ==
  /\ stage[w] \in {"running", "unwinding"}
  /\ Barrier!WarpDone(w)
  /\ stage' = [stage EXCEPT ![w] = "over"]
  /\ UNCHANGED <<phase, block, first_ex, threw, flushed>>

\* Profiler::Flush of the block's buffers, warp by warp.
FlushBlock == flushed' = flushed \o [i \in 1..NWarps |-> <<block, i - 1>>]

\* Mutant: the buffers are flushed before the exception is rethrown.
EndRegion_FlushesFirst ==
  /\ phase = "parallel"
  /\ \A w \in Warps : stage[w] = "over"
  /\ FlushBlock
  /\ IF first_ex # None
     THEN phase' = "thrown" /\ UNCHANGED block
     ELSE phase' = "serial" /\ block' = block + 1
  /\ UNCHANGED <<barrier, stage, first_ex, threw>>

\* The region's implicit join, then rethrow, or flush and next block.
EndRegion ==
  /\ phase = "parallel"
  /\ \A w \in Warps : stage[w] = "over"
  /\ IF first_ex # None
     THEN phase' = "thrown" /\ UNCHANGED <<block, flushed>>
     ELSE phase' = "serial" /\ block' = block + 1 /\ FlushBlock
  /\ UNCHANGED <<barrier, stage, first_ex, threw>>

\* KernelLaunch returns after the last block.
ReturnNormally ==
  /\ phase = "serial"
  /\ block = NBlocks
  /\ phase' = "returned"
  /\ UNCHANGED <<barrier, block, stage, first_ex, threw, flushed>>

\* The launch is over: the only place to stop.
Stopped == phase \in {"returned", "thrown"} /\ UNCHANGED vars

WarpStep(w) == StartWarp(w) \/ Sync(w) \/ WarpDone(w)
MainStep == StartBlock \/ EndRegion \/ ReturnNormally

Next ==
  \/ MainStep
  \/ Stopped
  \/ \E w \in Warps : WarpStep(w) \/ Throw(w) \/ SpuriousWake(w)

\* The main thread and the threads of the team are scheduled by the
\* operating system; nothing obliges a warp to throw or to wake spuriously.
Spec ==
  /\ Init /\ [][Next]_vars
  /\ WF_vars(MainStep)
  /\ \A w \in Warps : WF_vars(WarpStep(w))

-----------------------------------------------------------------------------
(***************************************************************************)
(* The profile of a launch holds every warp of every finished block, once  *)
(* and in grid order, and nothing of the block that threw.                 *)
(***************************************************************************)
FlushedInOrder ==
  /\ Len(flushed) = block * NWarps
  /\ \A i \in 1..Len(flushed) : flushed[i] = <<(i - 1) \div NWarps, (i - 1) % NWarps>>

(***************************************************************************)
(* How a launch ends: normally only when no warp of any block threw and    *)
(* all blocks ran; otherwise with the exception that was first in the      *)
(* critical section, once no warp of that block is still running.          *)
(***************************************************************************)
Outcome ==
  /\ phase = "returned" => threw = <<>> /\ block = NBlocks
  /\ phase = "thrown" =>
       /\ threw # <<>> /\ first_ex = Head(threw)
       /\ \A w \in Warps : stage[w] = "over" /\ place[w] = "done"

(***************************************************************************)
(* __syncthreads() holds across exceptions and queued warps: a warp        *)
(* returns from its k-th barrier only if every warp of the block that has  *)
(* not signalled warp_done(), started or not, has entered k barriers.      *)
(***************************************************************************)
PassTogether ==
  [][\A w \in Warps :
       phase = "parallel" /\ place[w] \in {"woken", "leaving"} /\ place'[w] = "run" =>
         \A v \in Warps : place[v] = "done" \/ entered[v] >= entered[w]]_vars

\* Every launch ends, whichever warps throw while others wait at a barrier.
LaunchEnds == <>(phase \in {"returned", "thrown"})
=============================================================================
