-------------------------- MODULE WarpInstructions --------------------------
(***************************************************************************)
(* One warp executing one integer instruction: the loop over lanes that    *)
(* the code generator puts around ExecuteThread (instruction.cpp.j2), the  *)
(* executors that look at other lanes (shfl, vote, activemask), and those  *)
(* of module Executors for the rest.  The lanes are executed one after the *)
(* other on one register file.                                             *)
(***************************************************************************)
EXTENDS Executors

CONSTANTS
  WarpSize,   \* GpuConfig::warp_size
  Instrs,     \* the instructions considered
  Starts(_)   \* the masks and registers each is executed with

Lanes == 0..WarpSize - 1
Registers6 == [a : Slots, b : Slots, c : Slots, e : Slots, d : Slots, p : Slots]

ASSUME InstructionsAssumption ==
  /\ WarpSize \in Nat \ {0}
  /\ \A i \in Instrs : \A s \in Starts(i) :
       s.execution_mask \subseteq Lanes /\ s.thread_regs \in [Lanes -> Registers6]

VARIABLES
  instr,            \* the instruction
  execution_mask,   \* execution_mask
  thread_regs,      \* thread_regs: slots a, b, c, e (sources), d, p (destinations) of each lane
  lid,              \* the loop's next active lane, WarpSize if there is none
  status,           \* "running", "done", or "killed" by a signal
  at_start          \* history: thread_regs when the instruction was fetched

vars == <<instr, execution_mask, thread_regs, lid, status, at_start>>

\* The loop, at lane l, skips inactive lanes up to lane n, or to its end.
Skips(l, n) ==
  /\ n \in l..WarpSize
  /\ \A k \in l..n - 1 : k \notin execution_mask
  /\ n < WarpSize => n \in execution_mask

Init ==
  /\ instr \in Instrs
  /\ \E s \in Starts(instr) : execution_mask = s.execution_mask /\ thread_regs = s.thread_regs
  /\ lid \in 0..WarpSize /\ Skips(0, lid)
  /\ status = "running"
  /\ at_start = thread_regs

WarpOps == {"vote", "activemask"}

\* What ExecuteThread writes to d, if it looks at its own lane only.
Result(i, o) ==
  LET T == i.type
  IN  CASE i.op = "setp"  -> setp(i.mode, T, o.a, o.b)
        [] i.op = "set"   -> set(i.mode, T, o.a, o.b)
        [] i.op = "selp"  -> selp(T, o.a, o.b, o.c)
        [] i.op = "slct"  -> slct(T, o.a, o.b, o.c)
        [] i.op = "add"   -> add(T, o.a, o.b)
        [] i.op = "sub"   -> sub(T, o.a, o.b)
        [] i.op = "addc"  -> addc(T, o.a, o.b)
        [] i.op = "subc"  -> subc(T, o.a, o.b)
        [] i.op = "abs"   -> abs(T, o.a)
        [] i.op = "neg"   -> neg(T, o.a)
        [] i.op = "min"   -> min(T, o.a, o.b)
        [] i.op = "max"   -> max(T, o.a, o.b)
        [] i.op = "sad"   -> sad(T, o.a, o.b, o.c)
        [] i.op = "rem"   -> rem(T, o.a, o.b)
        [] i.op = "mul"   -> mul(i.mode, T, o.a, o.b)
        [] i.op = "mad"   -> mad(i.mode, T, o.a, o.b, o.c)
        [] i.op = "madc"  -> madc(i.mode, T, o.a, o.b, o.c)
        [] i.op = "mul24" -> mul24(i.mode, T, o.a, o.b)
        [] i.op = "mad24" -> mad24(i.mode, T, o.a, o.b, o.c)
        [] i.op = "szext" -> szext(T, i.from, o.a)
        [] i.op = "cvt"   -> cvt(T, i.from, o.a)
        [] i.op = "and"   -> and(T, o.a, o.b)
        [] i.op = "or"    -> or(T, o.a, o.b)
        [] i.op = "xor"   -> xor(T, o.a, o.b)
        [] i.op = "not"   -> not(T, o.a)
        [] i.op = "cnot"  -> cnot(T, o.a)
        [] i.op = "shl"   -> shl(T, o.a, o.b)
        [] i.op = "shr"   -> shr(T, o.a, o.b)
        [] i.op = "shf"   -> shf(i.dir, i.mode, o.a, o.b, o.c)
        [] i.op = "popc"  -> popc(T, o.a)
        [] i.op = "clz"   -> clz(T, o.a)
        [] i.op = "brev"  -> brev(T, o.a)
        [] i.op = "bfe"   -> bfe(T, o.a, o.b, o.c)
        [] i.op = "bfi"   -> bfi(T, o.a, o.b, o.c, o.e)
        [] i.op = "bfind" -> bfind(T, i.shiftamt, o.a)
        [] i.op = "lop3"  -> lop3(i.lut, o.a, o.b, o.c)
        [] i.op = "fns"   -> fns(o.a, o.b, o.c)
        [] i.op = "bmsk"  -> bmsk(i.mode, o.a, o.b)

\* shfl: the lane that lane l reads from; Down wraps around like the sum of two
\* uint32_t.
src_lane(l, regs) ==
  LET offset == Word32(regs[l].b)
  IN  CASE instr.mode = "bfly" -> xor(u32, l, offset)
        [] instr.mode = "down" -> Word32(l + offset)
        [] instr.mode = "up"   -> IF l >= offset THEN l - offset ELSE l
        [] OTHER               -> offset

valid(l, regs) == src_lane(l, regs) < WarpSize /\ src_lane(l, regs) \in execution_mask

\* Mutant: the value is kept in the source register, which later lanes read.
Shuffled_InPlace(l, regs) ==
  LET value == regs[IF valid(l, regs) THEN src_lane(l, regs) ELSE l].a
  IN  [regs[l] EXCEPT
        !.a = value,
        !.d = value,
        !.p = IF ~instr.predicate THEN @ ELSE IF valid(l, regs) THEN 1 ELSE 0]

\* shfl writes dst, and the predicate if the instruction names one.
Shuffled(l, regs) ==
  [regs[l] EXCEPT
    !.d = regs[IF valid(l, regs) THEN src_lane(l, regs) ELSE l].a,
    !.p = IF ~instr.predicate THEN @ ELSE IF valid(l, regs) THEN 1 ELSE 0]

\* The registers of lane l after ExecuteThread(l) on a register file.
Executed(l, regs) ==
  IF instr.op = "shfl" THEN Shuffled(l, regs)
  ELSE [regs[l] EXCEPT !.d = Result(instr, regs[l])]

ExecuteThread ==
  /\ status = "running" /\ instr.op \notin WarpOps
  /\ lid < WarpSize
  /\ thread_regs' = [thread_regs EXCEPT ![lid] = Executed(lid, thread_regs)]
  /\ lid' \in 0..WarpSize /\ Skips(lid + 1, lid')
  /\ UNCHANGED <<instr, execution_mask, status, at_start>>

\* rem divides the least number of a signed type by -1.
Trap ==
  /\ status = "running" /\ instr.op = "rem"
  /\ lid < WarpSize
  /\ RemTraps(instr.type, thread_regs[lid].a, thread_regs[lid].b)
  /\ status' = "killed"
  /\ UNCHANGED <<instr, execution_mask, thread_regs, lid, at_start>>

\* The active lanes whose predicate is true.
Ballot(regs) == {l \in execution_mask : regs[l].a # 0}

VoteResult(regs) ==
  LET true_count == Cardinality(Ballot(regs))
      active_count == Cardinality(execution_mask)
  IN  CASE instr.mode = "any"    -> IF true_count > 0 THEN 1 ELSE 0
        [] instr.mode = "all"    -> IF true_count = active_count THEN 1 ELSE 0
        [] instr.mode = "uni"    -> IF true_count \in {0, active_count} THEN 1 ELSE 0
        [] instr.mode = "ballot" -> WordOf(Ballot(regs))

\* ExecuteWarp of vote and activemask: the registers of active lane l.
Voted(l, regs) ==
  [regs[l] EXCEPT !.d = IF instr.op = "vote" THEN VoteResult(regs) ELSE WordOf(execution_mask)]

ExecuteWarp ==
  /\ status = "running" /\ instr.op \in WarpOps
  /\ lid < WarpSize
  /\ thread_regs' = [l \in Lanes |->
       IF l \in execution_mask THEN Voted(l, thread_regs) ELSE thread_regs[l]]
  /\ lid' = WarpSize
  /\ UNCHANGED <<instr, execution_mask, status, at_start>>

\* pc++
Retire ==
  /\ status = "running" /\ lid = WarpSize
  /\ status' = "done"
  /\ UNCHANGED <<instr, execution_mask, thread_regs, lid, at_start>>

Stopped == status # "running" /\ UNCHANGED vars

Next == ExecuteThread \/ Trap \/ ExecuteWarp \/ Retire \/ Stopped

Spec == Init /\ [][Next]_vars

-----------------------------------------------------------------------------
(***************************************************************************)
(* The loop is as good as lanes that work in lock step: although lanes     *)
(* read each other's registers and write their own one after the other,    *)
(* every active lane ends with what the registers held when the            *)
(* instruction was fetched give, and an inactive one with what it had.     *)
(***************************************************************************)
Simultaneous ==
  status = "done" =>
    thread_regs = [l \in Lanes |->
      IF l \notin execution_mask THEN at_start[l]
      ELSE IF instr.op \in WarpOps THEN Voted(l, at_start) ELSE Executed(l, at_start)]

(***************************************************************************)
(* What the executors compute is what the instruction means in PTX, in the *)
(* low bits of the destination, whatever else is in the slots they read.   *)
(***************************************************************************)
Meaning == INSTANCE PtxMeaning WITH
  registers <- IF status = "done" THEN thread_regs ELSE at_start,
  finished <- status = "done"
MeaningSpec == Meaning!Spec
=============================================================================
