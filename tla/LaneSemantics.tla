--------------------------- MODULE LaneSemantics ----------------------------
(***************************************************************************)
(* What a PTX program means for the threads of one warp, with no word on   *)
(* how a warp executes them: every lane has a program counter of its own,  *)
(* and a step takes some lanes that are at the same instruction, each to a *)
(* successor of that instruction.  A conditional branch may go either way  *)
(* for each lane.  A lane that has executed ret or exit stays where it is. *)
(***************************************************************************)
EXTENDS Integers

CONSTANTS
  Lanes,     \* the threads of the warp
  EOC        \* the counter of a lane that has ended

VARIABLES
  program,   \* the instructions: a function from addresses to records
  lane_pc    \* the program counter of each lane

vars == <<program, lane_pc>>

Successors(p) ==
  LET i == program[p]
  IN  CASE i.op \in {"ret", "exit"} -> {EOC}
        [] i.op = "bra"             -> {i.target}
        [] i.op = "cbra"            -> {i.target, p + 1}
        [] OTHER                    -> {p + 1}

Init(first) == lane_pc = [l \in Lanes |-> first]

\* The lanes that move are all at one instruction.
Next ==
  /\ LET before == lane_pc
         after == lane_pc'
     IN  \E p \in DOMAIN program : \A l \in Lanes :
           \/ after[l] = before[l]
           \/ before[l] = p /\ after[l] \in Successors(p)
  /\ UNCHANGED program

Spec == Init(0) /\ [][Next]_vars
=============================================================================
