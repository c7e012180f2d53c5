----------------------------- MODULE MCWarpJoins -----------------------------
(***************************************************************************)
(* The kernels of MCWarp whose paths the stack joins wrongly or not at     *)
(* all, each with a barrier where they should be joined.                   *)
(***************************************************************************)
EXTENDS MCWarp

VARIABLE returned   \* the lanes that have executed ret (history)

HInit == Init /\ returned = {}
HNext == Next /\ returned' = IF Fetch({"ret"}) THEN returned \cup mask ELSE returned
HSpec == HInit /\ [][HNext]_<<vars, returned>>

(***************************************************************************)
(* "until the convergence PC is reached, at which point the full mask is   *)
(* restored" (README.md:375): a barrier after the point where paths join   *)
(* is executed with all lanes that have not returned, and with no others.  *)
(***************************************************************************)
FullMaskRestored == Fetch({"bar"}) => mask = Lanes \ returned
=============================================================================
