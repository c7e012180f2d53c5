------------------------------ MODULE Atomics -------------------------------
(***************************************************************************)
(* atom and red (executors.tpp) as the warps of a block execute them: the  *)
(* generated Execute runs ExecuteThread for the lanes of the mask in turn, *)
(* and ExecuteThread reads the cell, computes, and writes the cell, with   *)
(* no lock and no atomic instruction.  In the build without OpenMP one     *)
(* thread executes all warps, an instruction at a time; with OpenMP every  *)
(* warp has a thread.  Floating-point types are left out.                  *)
(***************************************************************************)
EXTENDS Integers

CONSTANTS
  Warps,      \* the warps of the block
  WarpSize,   \* lanes of a warp
  Cells,      \* the memory locations
  Half,       \* a word T is 0 .. 2 * Half - 1, the upper half negative if signed
  Bits,       \* and, or and xor of words, as tables
  Code,       \* the atom and red instructions each warp may execute
  OneThread,  \* the build without OpenMP
  MaxIssues   \* bound: instructions one warp executes

Words == 0..2 * Half - 1
Lanes == 0..WarpSize - 1
Ops == {"add", "min", "max", "exch", "cas", "inc", "dec", "and", "or", "xor"}

\* An instruction with the lanes that execute it and what their registers
\* hold: the address, src1 and src2.  Only u32 has inc and dec.
Instructions ==
  {i \in [op : Ops, returns : BOOLEAN, signed : BOOLEAN, mask : SUBSET Lanes,
          cell : [Lanes -> Cells], operand : [Lanes -> Words], second : [Lanes -> Words]] :
     /\ i.op \in {"inc", "dec"} => ~i.signed
     /\ i.op \in {"exch", "cas"} => i.returns}

ASSUME AtomicsAssumption ==
  /\ WarpSize \in Nat \ {0} /\ Half \in Nat \ {0} /\ MaxIssues \in Nat
  /\ OneThread \in BOOLEAN
  /\ Bits \in [{"and", "or", "xor"} -> [Words -> [Words -> Words]]]
  /\ Code \in [Warps -> SUBSET Instructions]

NoInstruction == [op |-> "none"]

VARIABLES
  memory,   \* the value of each cell
  instr,    \* the instruction each warp is executing, or NoInstruction
  lid,      \* the loop over the lanes in Execute
  loaded,   \* whether ExecuteThread has read the cell
  old_val,  \* what it read
  dst,      \* the destination register of each lane
  issued    \* instructions each warp has begun

vars == <<memory, instr, lid, loaded, old_val, dst, issued>>

Threads == Warps \X Lanes

Init ==
  /\ memory \in [Cells -> Words]
  /\ instr = [w \in Warps |-> NoInstruction]
  /\ lid = [w \in Warps |-> 0]
  /\ loaded = [w \in Warps |-> FALSE]
  /\ old_val = [w \in Warps |-> 0]
  /\ dst = [t \in Threads |-> 0]
  /\ issued = [w \in Warps |-> 0]

Busy(w) == instr[w] # NoInstruction
AtLane(w) == Busy(w) /\ lid[w] \in Lanes

\* Mutant: the scheduler changes warps within an instruction.
Issue_Anytime(w, i) ==
  /\ ~Busy(w) /\ issued[w] < MaxIssues
  /\ instr' = [instr EXCEPT ![w] = i]
  /\ lid' = [lid EXCEPT ![w] = 0]
  /\ issued' = [issued EXCEPT ![w] = @ + 1]
  /\ UNCHANGED <<memory, loaded, old_val, dst>>

\* instr->Execute(warp) begins.
Issue(w, i) ==
  /\ ~Busy(w) /\ issued[w] < MaxIssues
  /\ OneThread => \A v \in Warps : ~Busy(v)
  /\ instr' = [instr EXCEPT ![w] = i]
  /\ lid' = [lid EXCEPT ![w] = 0]
  /\ issued' = [issued EXCEPT ![w] = @ + 1]
  /\ UNCHANGED <<memory, loaded, old_val, dst>>

Inactive(w) ==
  /\ AtLane(w) /\ lid[w] \notin instr[w].mask
  /\ lid' = [lid EXCEPT ![w] = @ + 1]
  /\ UNCHANGED <<memory, instr, loaded, old_val, dst, issued>>

\* memcpy(&old_val, addr)
Load(w) ==
  /\ AtLane(w) /\ lid[w] \in instr[w].mask /\ ~loaded[w]
  /\ old_val' = [old_val EXCEPT ![w] = memory[instr[w].cell[lid[w]]]]
  /\ loaded' = [loaded EXCEPT ![w] = TRUE]
  /\ UNCHANGED <<memory, instr, lid, dst, issued>>

\* The number a word stands for in type T.
Value(n, signed) == IF signed /\ n >= Half THEN n - 2 * Half ELSE n

\* Mutant: every type compares as unsigned.
Less_Unsigned(a, b, signed) == a < b

\* old_val < operand
Less(a, b, signed) == Value(a, signed) < Value(b, signed)

\* Mutant: the sum is not cut to T.
NewValue_Wide(i, old, operand, second) == old + operand

\* The switch over op_: src2 of cas is the value to store.
NewValue(i, old, operand, second) ==
  CASE i.op = "add"  -> (old + operand) % (2 * Half)
    [] i.op = "min"  -> IF Less(old, operand, i.signed) THEN old ELSE operand
    [] i.op = "max"  -> IF Less(operand, old, i.signed) THEN old ELSE operand
    [] i.op = "exch" -> operand
    [] i.op = "cas"  -> IF old = operand THEN second ELSE old
    [] i.op \in {"and", "or", "xor"} -> Bits[i.op][old][operand]
    [] i.op = "inc"  -> IF old >= operand THEN 0 ELSE old + 1
    [] i.op = "dec"  -> IF old = 0 \/ old > operand THEN operand ELSE old - 1

\* The word the lane of w writes; the switch of red is that of atom without
\* exch and cas.
Written(w) ==
  NewValue(instr[w], old_val[w], instr[w].operand[lid[w]], instr[w].second[lid[w]])

\* The rest of ExecuteThread: compute, memcpy(addr, &new_val); atom sets dst.
Store(w) ==
  /\ AtLane(w) /\ loaded[w]
  /\ memory' = [memory EXCEPT ![instr[w].cell[lid[w]]] = Written(w)]
  /\ dst' = IF instr[w].returns THEN [dst EXCEPT ![<<w, lid[w]>>] = old_val[w]] ELSE dst
  /\ loaded' = [loaded EXCEPT ![w] = FALSE]
  /\ lid' = [lid EXCEPT ![w] = @ + 1]
  /\ UNCHANGED <<instr, old_val, issued>>

\* The loop over the lanes is over: wc->pc++.
Finish(w) ==
  /\ Busy(w) /\ lid[w] = WarpSize
  /\ instr' = [instr EXCEPT ![w] = NoInstruction]
  /\ UNCHANGED <<memory, lid, loaded, old_val, dst, issued>>

Step(w) ==
  \/ \E i \in Code[w] : Issue(w, i)
  \/ Inactive(w) \/ Load(w) \/ Store(w) \/ Finish(w)

\* Every warp has executed all its instructions: the only place to stop.
Over == (\A w \in Warps : ~Busy(w) /\ issued[w] = MaxIssues) /\ UNCHANGED vars

Next == Over \/ \E w \in Warps : Step(w)

Spec == Init /\ [][Next]_vars

-----------------------------------------------------------------------------
\* Types, and the loop over the lanes: a value is held only for a lane of the mask.
TypeOK ==
  /\ memory \in [Cells -> Words]
  /\ \A w \in Warps : Busy(w) => instr[w] \in Code[w]
  /\ instr \in [Warps -> Instructions \cup {NoInstruction}]
  /\ lid \in [Warps -> 0..WarpSize]
  /\ loaded \in [Warps -> BOOLEAN]
  /\ \A w \in Warps : loaded[w] => AtLane(w) /\ lid[w] \in instr[w].mask
  /\ old_val \in [Warps -> Words]
  /\ dst \in [Threads -> Words]
  /\ issued \in [Warps -> 0..MaxIssues]

(***************************************************************************)
(* Between the read and the write of a lane, nobody else writes its cell:  *)
(* what ExecuteThread computes is still based on the value of the cell.    *)
(***************************************************************************)
NotStale ==
  \A w \in Warps : loaded[w] => old_val[w] = memory[instr[w].cell[lid[w]]]

(***************************************************************************)
(* The refinement: a lane has a request pending from the moment its warp   *)
(* begins the instruction until it has written the cell.                   *)
(***************************************************************************)
Request(i, l) ==
  [op |-> i.op, returns |-> i.returns, signed |-> i.signed, cell |-> i.cell[l],
   operand |-> i.operand[l], second |-> i.second[l]]

Waiting(w, l) == Busy(w) /\ l \in instr[w].mask /\ l >= lid[w]

Pending ==
  [t \in Threads |->
    IF Waiting(t[1], t[2]) THEN Request(instr[t[1]], t[2]) ELSE NoInstruction]

Atomic == INSTANCE AtomicMemory WITH pending <- Pending, result <- dst

\* atom and red take effect at one instant each, in some order.
AtomicSpec == Atomic!Spec
=============================================================================
