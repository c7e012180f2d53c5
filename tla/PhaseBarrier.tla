---------------------------- MODULE PhaseBarrier ----------------------------
(***************************************************************************)
(* What __syncthreads() promises to the warps of one block, with no word   *)
(* on how: a warp enters a synchronisation, and leaves it only when every  *)
(* warp that is still running has entered as many.  Both schedulers of     *)
(* RtStream::KernelLaunch implement it: the OpenMP one with the cyclic     *)
(* barrier of block_context.h (module BlockBarrier), the other one by the  *)
(* order in which it runs the warps (module RoundRobin).                   *)
(***************************************************************************)
EXTENDS Integers

CONSTANTS
  Warps,     \* the warps of the block
  MaxSyncs   \* bound: the most synchronisations one warp enters

VARIABLES
  where,     \* where each warp is: "out" or "in" a synchronisation, "done"
  entered    \* how many synchronisations each warp has entered

vars == <<where, entered>>

TypeOK ==
  /\ where \in [Warps -> {"out", "in", "done"}]
  /\ entered \in [Warps -> 0..MaxSyncs]

Init ==
  /\ where = [w \in Warps |-> "out"]
  /\ entered = [w \in Warps |-> 0]

Enter(w) ==
  /\ where[w] = "out"
  /\ entered[w] < MaxSyncs
  /\ where' = [where EXCEPT ![w] = "in"]
  /\ entered' = [entered EXCEPT ![w] = @ + 1]

\* Nobody is left behind: every running warp has entered this one too.
Leave(w) ==
  /\ where[w] = "in"
  /\ \A v \in Warps : where[v] # "done" => entered[v] >= entered[w]
  /\ where' = [where EXCEPT ![w] = "out"]
  /\ UNCHANGED entered

Finish(w) ==
  /\ where[w] = "out"
  /\ where' = [where EXCEPT ![w] = "done"]
  /\ UNCHANGED entered

Next == \E w \in Warps : Enter(w) \/ Leave(w) \/ Finish(w)

Safety == Init /\ [][Next]_vars

\* A synchronisation that may be left is left, whoever is waiting in it.
Spec == Safety /\ \A w \in Warps : WF_vars(Leave(w))
=============================================================================
