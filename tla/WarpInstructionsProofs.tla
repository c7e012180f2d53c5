----------------------- MODULE WarpInstructionsProofs -----------------------
(***************************************************************************)
(* The loop over the lanes is as good as lanes in lock step, for every     *)
(* width, every warp size, every set of instructions and all registers.    *)
(* What each executor computes stays unexpanded: the argument is only      *)
(* about which registers it reads.  A lane reads its own registers and the *)
(* source slot a of others; no lane writes a source slot.                  *)
(***************************************************************************)
EXTENDS WarpInstructions, TLAPS

\* What lane l ends with.
After(l) == IF instr.op \in WarpOps THEN Voted(l, at_start) ELSE Executed(l, at_start)

Typing ==
  /\ execution_mask \subseteq Lanes
  /\ at_start \in [Lanes -> Registers6]
  /\ lid \in execution_mask \cup {WarpSize}
  /\ status \in {"running", "done", "killed"}

\* The lanes before lid have their results, the others what they had.
Swept ==
  thread_regs = [l \in Lanes |->
    IF l \in execution_mask /\ l < lid THEN After(l) ELSE at_start[l]]

\* The executors of the whole warp leave no lanes half done.
AtOnce == instr.op \in WarpOps /\ lid < WarpSize => \A l \in execution_mask : lid <= l

IInv ==
  /\ Typing
  /\ Swept
  /\ AtOnce
  /\ status = "done" => lid = WarpSize

-----------------------------------------------------------------------------
\* An executor leaves the source slot of its lane as it was.
LEMMA ExecutedKeepsSource ==
  ASSUME NEW l, NEW regs, regs[l] \in Registers6
  PROVE  Executed(l, regs).a = regs[l].a
<1>1. CASE instr.op = "shfl"
  <2>1. \A x, y : [regs[l] EXCEPT !.d = x, !.p = y].a = regs[l].a
    BY DEF Registers6
  <2>2. QED  BY <1>1, <2>1 DEF Executed, Shuffled
<1>2. CASE instr.op # "shfl"
  <2>1. \A x : [regs[l] EXCEPT !.d = x].a = regs[l].a
    BY DEF Registers6
  <2>2. QED  BY <1>2, <2>1 DEF Executed
<1>3. QED  BY <1>1, <1>2

\* It computes the same from two register files that agree on its own lane and
\* on the source slots of all.
LEMMA ExecutedReadsSources ==
  ASSUME NEW l \in Lanes, NEW regs, NEW others,
         execution_mask \subseteq Lanes,
         regs[l] = others[l],
         \A k \in Lanes : regs[k].a = others[k].a
  PROVE  Executed(l, regs) = Executed(l, others)
<1>1. src_lane(l, regs) = src_lane(l, others)
  BY DEF src_lane
<1>2. valid(l, regs) = valid(l, others)
  BY <1>1 DEF valid
<1>3. regs[IF valid(l, regs) THEN src_lane(l, regs) ELSE l].a
        = others[IF valid(l, others) THEN src_lane(l, others) ELSE l].a
  <2>1. CASE valid(l, regs)
    <3>1. src_lane(l, regs) \in Lanes
      BY <2>1 DEF valid
    <3>2. QED  BY <1>1, <1>2, <2>1, <3>1
  <2>2. CASE ~valid(l, regs)
    BY <1>2, <2>2
  <2>3. QED  BY <2>1, <2>2
<1>4. Shuffled(l, regs) = Shuffled(l, others)
  BY <1>2, <1>3 DEF Shuffled
<1>5. QED  BY <1>4 DEF Executed

\* The loop's next lane is an active one after this, and it skips no other.
LEMMA NextLane ==
  ASSUME NEW l \in Nat, NEW n \in 0..WarpSize, execution_mask \subseteq Lanes, Skips(l, n)
  PROVE  /\ n \in execution_mask \cup {WarpSize}
         /\ n >= l
         /\ \A k \in execution_mask : k < n => k < l
BY InstructionsAssumption DEF Skips, Lanes

-----------------------------------------------------------------------------
LEMMA Starting == Init => IInv
<1>1. SUFFICES ASSUME Init PROVE IInv
  OBVIOUS
<1>2. /\ execution_mask \subseteq Lanes
      /\ thread_regs \in [Lanes -> Registers6]
      /\ at_start = thread_regs
  BY <1>1, InstructionsAssumption DEF Init
<1>3. /\ lid \in execution_mask \cup {WarpSize}
      /\ \A k \in execution_mask : ~(k < lid)
  <2>1. lid \in 0..WarpSize /\ Skips(0, lid)
    BY <1>1 DEF Init
  <2>2. QED  BY <1>2, <2>1, NextLane, InstructionsAssumption DEF Lanes
<1>4. Swept
  BY <1>2, <1>3 DEF Swept
<1>5. AtOnce
  BY <1>2, <1>3, InstructionsAssumption DEF AtOnce, Lanes
<1>6. QED  BY <1>1, <1>2, <1>3, <1>4, <1>5 DEF Init, IInv, Typing

LEMMA ExecuteThreadPreserves == IInv /\ ExecuteThread => IInv'
<1>1. SUFFICES ASSUME IInv, ExecuteThread PROVE IInv'
  OBVIOUS
<1>2. /\ Typing /\ Swept
      /\ status = "running" /\ instr.op \notin WarpOps /\ lid \in execution_mask
      /\ UNCHANGED <<instr, execution_mask, status, at_start>>
  BY <1>1, InstructionsAssumption DEF IInv, Typing, ExecuteThread
<1>3. lid \in Lanes /\ lid \in Nat
  BY <1>2 DEF Typing, Lanes
<1>4. /\ lid' \in execution_mask \cup {WarpSize}
      /\ lid' >= lid + 1
      /\ \A k \in execution_mask : k < lid' => k < lid + 1
  <2>1. lid + 1 \in Nat /\ lid' \in 0..WarpSize /\ Skips(lid + 1, lid')
    BY <1>1, <1>3 DEF ExecuteThread
  <2>2. QED  BY <1>2, <2>1, NextLane DEF Typing
\* No source slot has changed, and nothing of this lane.
<1>5. \A k \in Lanes : thread_regs[k].a = at_start[k].a
  <2>1. TAKE k \in Lanes
  <2>2. at_start[k] \in Registers6
    BY <1>2 DEF Typing
  <2>3. Executed(k, at_start).a = at_start[k].a
    BY <2>2, ExecutedKeepsSource
  <2>4. thread_regs[k] \in {Executed(k, at_start), at_start[k]}
    BY <1>2 DEF Swept, After
  <2>5. QED  BY <2>3, <2>4
<1>6. thread_regs[lid] = at_start[lid]
  BY <1>2, <1>3 DEF Swept
<1>7. Executed(lid, thread_regs) = After(lid)
  <2>1. Executed(lid, thread_regs) = Executed(lid, at_start)
    BY <1>2, <1>3, <1>5, <1>6, ExecutedReadsSources DEF Typing
  <2>2. QED  BY <1>2, <2>1 DEF After
<1>8. thread_regs' = [l \in Lanes |->
        IF l \in execution_mask /\ l < lid' THEN After(l) ELSE at_start[l]]
  <2>1. thread_regs' = [thread_regs EXCEPT ![lid] = After(lid)]
    BY <1>1, <1>7 DEF ExecuteThread
  <2>2. ASSUME NEW l \in Lanes, l # lid
        PROVE  l \in execution_mask /\ l < lid' <=> l \in execution_mask /\ l < lid
    BY <1>2, <1>3, <1>4, <2>2, InstructionsAssumption DEF Typing, Lanes
  <2>3. lid \in execution_mask /\ lid < lid'
    BY <1>2, <1>3, <1>4, InstructionsAssumption DEF Typing, Lanes
  <2>4. QED  BY <1>2, <1>3, <2>1, <2>2, <2>3 DEF Swept
<1>9. Swept'
  <2>1. \A l : After(l)' = After(l)
    BY <1>2 DEF After, Voted, VoteResult, Ballot, Executed, Shuffled, valid, src_lane
  <2>2. QED  BY <1>2, <1>8, <2>1 DEF Swept
<1>10. Typing'
  BY <1>2, <1>4 DEF Typing
<1>11. AtOnce' /\ status' # "done"
  BY <1>2 DEF AtOnce
<1>12. QED  BY <1>9, <1>10, <1>11 DEF IInv

LEMMA ExecuteWarpPreserves == IInv /\ ExecuteWarp => IInv'
<1>1. SUFFICES ASSUME IInv, ExecuteWarp PROVE IInv'
  OBVIOUS
<1>2. /\ Typing /\ Swept /\ AtOnce
      /\ status = "running" /\ instr.op \in WarpOps /\ lid < WarpSize
      /\ lid' = WarpSize
      /\ UNCHANGED <<instr, execution_mask, status, at_start>>
  BY <1>1 DEF IInv, ExecuteWarp
<1>3. thread_regs = at_start
  <2>1. lid \in Lanes
    BY <1>2, InstructionsAssumption DEF Typing, Lanes
  <2>2. \A l \in execution_mask : ~(l < lid)
    BY <1>2, <2>1 DEF AtOnce, Typing, Lanes
  <2>3. QED  BY <1>2, <2>2 DEF Swept, Typing
<1>4. \A l \in Lanes : l \in execution_mask /\ l < lid' <=> l \in execution_mask
  BY <1>2, InstructionsAssumption DEF Lanes
<1>5. thread_regs' = [l \in Lanes |->
        IF l \in execution_mask /\ l < lid' THEN After(l) ELSE at_start[l]]
  BY <1>1, <1>2, <1>3, <1>4 DEF ExecuteWarp, After
<1>6. Swept'
  <2>1. \A l : After(l)' = After(l)
    BY <1>2 DEF After, Voted, VoteResult, Ballot, Executed, Shuffled, valid, src_lane
  <2>2. QED  BY <1>2, <1>5, <2>1 DEF Swept
<1>7. Typing' /\ AtOnce' /\ status' # "done"
  BY <1>2, InstructionsAssumption DEF Typing, AtOnce
<1>8. QED  BY <1>6, <1>7 DEF IInv

\* The remaining steps leave registers and lid alone.
LEMMA OthersPreserve == IInv /\ (Trap \/ Retire \/ UNCHANGED vars) => IInv'
<1>1. SUFFICES ASSUME IInv, Trap \/ Retire \/ UNCHANGED vars PROVE IInv'
  OBVIOUS
<1>2. /\ UNCHANGED <<instr, execution_mask, thread_regs, lid, at_start>>
      /\ status' \in {"running", "done", "killed"}
      /\ status' = "done" => lid = WarpSize
  BY <1>1 DEF Trap, Retire, vars, IInv, Typing
<1>3. \A l : After(l)' = After(l)
  BY <1>2 DEF After, Voted, VoteResult, Ballot, Executed, Shuffled, valid, src_lane
<1>4. Swept'
  BY <1>1, <1>2, <1>3 DEF IInv, Swept
<1>5. QED  BY <1>1, <1>2, <1>4 DEF IInv, Typing, AtOnce

LEMMA Inductive == IInv /\ [Next]_vars => IInv'
BY ExecuteThreadPreserves, ExecuteWarpPreserves, OthersPreserve DEF Next, Stopped

LEMMA Complete == IInv => Simultaneous
<1>1. SUFFICES ASSUME IInv, status = "done" PROVE Simultaneous
  BY DEF Simultaneous
<1>2. \A l \in Lanes : l < lid
  BY <1>1, InstructionsAssumption DEF IInv, Lanes
<1>3. thread_regs = [l \in Lanes |-> IF l \in execution_mask THEN After(l) ELSE at_start[l]]
  BY <1>1, <1>2 DEF IInv, Swept
<1>4. QED  BY <1>3 DEF Simultaneous, After

(***************************************************************************)
(* An executed instruction leaves every lane as if all had worked at once: *)
(* the loop of instruction.cpp.j2 and shfl's reading of other lanes.       *)
(***************************************************************************)
THEOREM LockStep == Spec => []Simultaneous
<1>1. Spec => []IInv
  BY Starting, Inductive, PTL DEF Spec
<1>2. QED  BY <1>1, Complete, PTL
=============================================================================
