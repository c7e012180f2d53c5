-------------------------------- MODULE Warp --------------------------------
(***************************************************************************)
(* One warp executing a kernel: the loop over instructions of              *)
(* RtStream::KernelLaunch (app/runtime/rt_stream.cpp) and the branch       *)
(* executors of app/ptx_asm/instruction_executors/executors.tpp.  The warp *)
(* has one program counter, an execution mask, and the PDOM stack of       *)
(* app/context/warp_context.h, whose frames are either paths still to be   *)
(* run or points where paths are to join again.  Predicates are data: a    *)
(* conditional branch may be taken by any of the active lanes.             *)
(***************************************************************************)
EXTENDS Integers, Sequences, FiniteSets

CONSTANTS
  Lanes,     \* the threads of the warp
  Kernels,   \* the kernels considered
  Code,      \* the instructions of each kernel, by address
  EOC        \* WarpContext::EOC, the counter of a warp that has ended

Ops == {"plain", "bar", "bra", "cbra", "ret", "exit"}

\* Labels resolve to instructions; execution starts at address 0.
ASSUME WarpAssumption ==
  /\ IsFiniteSet(Lanes) /\ Lanes # {}
  /\ \A k \in Kernels :
       /\ 0 \in DOMAIN Code[k] /\ DOMAIN Code[k] \subseteq Nat
       /\ \A a \in DOMAIN Code[k] :
            /\ Code[k][a].op \in Ops
            /\ Code[k][a].op \in {"bra", "cbra"} => Code[k][a].target \in DOMAIN Code[k]
            /\ EOC \notin {a, a + 1}

VARIABLES
  kernel,    \* the kernel launched
  pc,        \* pc
  mask,      \* execution_mask
  stack,     \* execution_stack, its top last
  status     \* "running", "ended", or "thrown" out of the loop

vars == <<kernel, pc, mask, stack, status>>

program == Code[kernel]

Frame(p, m, c) == [pc |-> p, mask |-> m, is_convergence |-> c]
Top == stack[Len(stack)]
Popped == SubSeq(stack, 1, Len(stack) - 1)

Init ==
  /\ kernel \in Kernels
  /\ pc = 0
  /\ mask = Lanes
  /\ stack = <<>>
  /\ status = "running"

isActive == stack # <<>> \/ pc # EOC

\* The loop is about to pop a convergence frame the warp has arrived at.
AtConvergence == stack # <<>> /\ Top.is_convergence /\ Top.pc = pc

\* Mutant: the frame is popped and its mask forgotten.
Converge_KeepsMask ==
  /\ status = "running" /\ isActive /\ AtConvergence
  /\ stack' = Popped
  /\ UNCHANGED <<kernel, pc, mask, status>>

Converge ==
  /\ status = "running" /\ isActive /\ AtConvergence
  /\ mask' = Top.mask
  /\ stack' = Popped
  /\ UNCHANGED <<kernel, pc, status>>

\* The instruction at pc is fetched, and is one of ops.
Fetch(ops) ==
  /\ status = "running" /\ isActive /\ ~AtConvergence
  /\ pc \in DOMAIN program
  /\ program[pc].op \in ops

\* if (!instr) throw
NoInstruction ==
  /\ status = "running" /\ isActive /\ ~AtConvergence
  /\ pc \notin DOMAIN program
  /\ status' = "thrown"
  /\ UNCHANGED <<kernel, pc, mask, stack>>

\* Instructions of the exec types thread and warp, and call: pc++.
Plain ==
  /\ Fetch({"plain", "bar"})
  /\ pc' = pc + 1
  /\ UNCHANGED <<kernel, mask, stack, status>>

Target == program[pc].target

\* Mutant: the comparison of the target with the saved counter is reversed.
IsSwap_Reversed == stack # <<>> /\ Target > pc /\ ~Top.is_convergence /\ Target < Top.pc

\* The conditions of the two special cases of an unconditional branch.
IsSwap == stack # <<>> /\ Target > pc /\ ~Top.is_convergence /\ Target > Top.pc
IsMerge == stack # <<>> /\ Target > pc /\ Top.is_convergence /\ Top.pc = Target

\* bra, case A: the target counts as the point where the saved path and the
\* current one join; the saved path runs next.
BraSwap ==
  /\ Fetch({"bra"}) /\ IsSwap
  /\ stack' = Append(Popped, Frame(Target, mask \cup Top.mask, TRUE))
  /\ pc' = Top.pc
  /\ mask' = Top.mask
  /\ UNCHANGED <<kernel, status>>

\* Mutant: the convergence frame is not popped.
BraMerge_KeepsFrame ==
  /\ Fetch({"bra"}) /\ IsMerge
  /\ pc' = Target
  /\ mask' = Top.mask
  /\ UNCHANGED <<kernel, stack, status>>

\* bra, case B: the saved path arrives at the convergence point by a branch.
BraMerge ==
  /\ Fetch({"bra"}) /\ IsMerge
  /\ stack' = Popped
  /\ pc' = Target
  /\ mask' = Top.mask
  /\ UNCHANGED <<kernel, status>>

\* bra, otherwise: a jump.
BraJump ==
  /\ Fetch({"bra"}) /\ ~IsSwap /\ ~IsMerge
  /\ pc' = Target
  /\ UNCHANGED <<kernel, mask, stack, status>>

\* Mutant: the saved path starts one instruction late.
CondBra_SkipsOne(taken) ==
  /\ Fetch({"cbra"})
  /\ \/ taken = mask /\ pc' = Target /\ UNCHANGED <<mask, stack>>
     \/ taken = {} /\ pc' = pc + 1 /\ UNCHANGED <<mask, stack>>
     \/ /\ taken # mask /\ taken # {}
        /\ stack' = Append(stack, Frame(pc + 2, mask \ taken, FALSE))
        /\ mask' = taken
        /\ pc' = Target
  /\ UNCHANGED <<kernel, status>>

\* Mutant: the saved path gets every active lane.
CondBra_SavesAll(taken) ==
  /\ Fetch({"cbra"})
  /\ \/ taken = mask /\ pc' = Target /\ UNCHANGED <<mask, stack>>
     \/ taken = {} /\ pc' = pc + 1 /\ UNCHANGED <<mask, stack>>
     \/ /\ taken # mask /\ taken # {}
        /\ stack' = Append(stack, Frame(pc + 1, mask, FALSE))
        /\ mask' = taken
        /\ pc' = Target
  /\ UNCHANGED <<kernel, status>>

\* Mutant: a path is saved even if no lane takes it.
CondBra_AlwaysPushes(taken) ==
  /\ Fetch({"cbra"})
  /\ \/ taken = {} /\ pc' = pc + 1 /\ UNCHANGED <<mask, stack>>
     \/ /\ taken # {}
        /\ stack' = Append(stack, Frame(pc + 1, mask \ taken, FALSE))
        /\ mask' = taken
        /\ pc' = Target
  /\ UNCHANGED <<kernel, status>>

\* A conditional branch; taken is the predicate's mask and execution_mask.
CondBra(taken) ==
  /\ Fetch({"cbra"})
  /\ \/ taken = mask /\ pc' = Target /\ UNCHANGED <<mask, stack>>
     \/ taken = {} /\ pc' = pc + 1 /\ UNCHANGED <<mask, stack>>
     \/ /\ taken # mask /\ taken # {}
        /\ stack' = Append(stack, Frame(pc + 1, mask \ taken, FALSE))
        /\ mask' = taken
        /\ pc' = Target
  /\ UNCHANGED <<kernel, status>>

\* The paths saved on the stack, by position; the last is the next to run.
Saved == {i \in 1..Len(stack) : ~stack[i].is_convergence}
IsLastSaved(i) == i \in Saved /\ \A j \in Saved : j <= i

\* Mutant: the frame of the path resumed stays.
Ret_KeepsFrame ==
  /\ Fetch({"ret"})
  /\ \/ Saved = {} /\ stack' = <<>> /\ pc' = EOC /\ UNCHANGED mask
     \/ \E i \in Saved :
          /\ IsLastSaved(i)
          /\ stack' = SubSeq(stack, 1, i)
          /\ pc' = stack[i].pc
          /\ mask' = stack[i].mask
  /\ UNCHANGED <<kernel, status>>

\* ret: convergence frames on top are discarded; the last saved path runs
\* next, or the warp ends.
Ret ==
  /\ Fetch({"ret"})
  /\ \/ Saved = {} /\ stack' = <<>> /\ pc' = EOC /\ UNCHANGED mask
     \/ \E i \in Saved :
          /\ IsLastSaved(i)
          /\ stack' = SubSeq(stack, 1, i - 1)
          /\ pc' = stack[i].pc
          /\ mask' = stack[i].mask
  /\ UNCHANGED <<kernel, status>>

\* exit, and brx, which is treated as exit: the stack stays as it is.
Exit ==
  /\ Fetch({"exit"})
  /\ pc' = EOC
  /\ UNCHANGED <<kernel, mask, stack, status>>

\* The loop ends.
End ==
  /\ status = "running" /\ ~isActive
  /\ status' = "ended"
  /\ UNCHANGED <<kernel, pc, mask, stack>>

\* The warp is over: the only place to stop.
Stopped == status # "running" /\ UNCHANGED vars

Step ==
  \/ Converge \/ NoInstruction \/ Plain
  \/ BraSwap \/ BraMerge \/ BraJump
  \/ \E taken \in SUBSET mask : CondBra(taken)
  \/ Ret \/ Exit \/ End

Next == Step \/ Stopped

\* The thread that runs the warp is scheduled by the operating system.
Spec == Init /\ [][Next]_vars /\ WF_vars(Step)

-----------------------------------------------------------------------------
\* The counter may run off the end of the program by one.
Addresses == DOMAIN program \cup {a + 1 : a \in DOMAIN program}

TypeOK ==
  /\ kernel \in Kernels
  /\ pc \in Addresses \cup {EOC}
  /\ mask \subseteq Lanes
  /\ stack \in Seq([pc : Addresses, mask : SUBSET Lanes, is_convergence : BOOLEAN])
  /\ status \in {"running", "ended", "thrown"}

(***************************************************************************)
(* The masks partition the work whatever the program: no path is without   *)
(* lanes; the lanes of a saved path are active nowhere above it, so no     *)
(* lane is on two paths at once; a convergence frame holds every lane      *)
(* above it, so joining loses nobody.                                      *)
(***************************************************************************)
MaskDiscipline ==
  /\ mask # {}
  /\ \A i \in 1..Len(stack) :
       /\ stack[i].mask # {}
       /\ IF stack[i].is_convergence
          THEN mask \subseteq stack[i].mask
          ELSE mask \cap stack[i].mask = {}
  /\ \A j \in 1..Len(stack) : \A i \in 1..j-1 :
       IF stack[i].is_convergence
       THEN stack[j].mask \subseteq stack[i].mask
       ELSE stack[j].mask \cap stack[i].mask = {}

(***************************************************************************)
(* A convergence frame stays on the stack only while some lane of it waits *)
(* there and is on no path above it.                                       *)
(***************************************************************************)
SomeoneWaits ==
  \A i \in 1..Len(stack) : stack[i].is_convergence =>
    \E l \in stack[i].mask : l \notin mask /\ \A j \in i+1..Len(stack) : l \notin stack[j].mask

\* The stack never holds as many frames as the warp has lanes.
StackBounded == Len(stack) < Cardinality(Lanes)

(***************************************************************************)
(* A program without exit whose instructions all have a successor is never *)
(* stopped by "No instruction at pc": every path ends at its ret.          *)
(***************************************************************************)
Closed(p) == \A a \in DOMAIN p :
  /\ p[a].op # "exit"
  /\ p[a].op \in {"plain", "bar", "cbra"} => a + 1 \in DOMAIN p

FetchSucceeds == Closed(program) => status # "thrown"

-----------------------------------------------------------------------------
(***************************************************************************)
(* Programs whose paths are joined as the stack expects it, read off their *)
(* text.  An if/else is a conditional branch at x to straight code, its    *)
(* taken path, that ends with an unconditional branch to the join.  The    *)
(* path at x + 1 is saved while the taken one runs.  After any other       *)
(* conditional branch the path at x + 1 is pending until a ret.            *)
(***************************************************************************)
TakenPath(p, x) ==
  {a \in DOMAIN p : /\ p[x].target <= a
                    /\ \A y \in p[x].target..a-1 : y \in DOMAIN p /\ p[y].op = "plain"}

Branches(p) == {x \in DOMAIN p : p[x].op = "cbra"}
IfElses(p) == {x \in Branches(p) : \E b \in TakenPath(p, x) : p[b].op = "bra"}

\* The paths that may be saved, and the joins that may be ahead, at address a:
\* a join is ahead from the start of the saved path on.
SavedAt(p, a) == {x + 1 : x \in {y \in IfElses(p) : a \in TakenPath(p, y)}}
JoinsAt(p, a) ==
  {p[b].target : b \in {c \in DOMAIN p :
     p[c].op = "bra" /\ \E e \in SavedAt(p, c) : e <= a /\ a < p[c].target}}

\* The paths that may be pending at a, which is after the branch's target or
\* after where a branch behind the target leads back to.
Heads(p, x) ==
  {p[x].target} \cup {p[y].target : y \in {b \in DOMAIN p :
     p[b].op \in {"bra", "cbra"} /\ b >= p[x].target}}
PendingAt(p, a) ==
  {x + 1 : x \in {y \in Branches(p) \ IfElses(p) : \E h \in Heads(p, y) : h <= a}}

\* What may be on the stack at a may be there at b as well, where joins at b
\* are popped if no path is saved above them.
Follows(p, a, b) ==
  /\ JoinsAt(p, a) \subseteq JoinsAt(p, b) \cup {b}
  /\ SavedAt(p, a) \subseteq SavedAt(p, b)
  /\ SavedAt(p, a) # {} => JoinsAt(p, a) \subseteq JoinsAt(p, b)
  /\ PendingAt(p, a) \subseteq PendingAt(p, b)

\* A forward branch goes past the saved path, and then to the next join, but
\* past no pending path; paths part only where none is saved, and are left
\* pending only outside of an if/else; no bar is on a path of its own.
JoinableAt(p, a) ==
  LET op == p[a].op
      m == p[a].target
      joins == JoinsAt(p, a)
      saved == SavedAt(p, a)
      pending == PendingAt(p, a)
  IN  /\ op \in {"plain", "bar"} => Follows(p, a, a + 1)
      /\ op = "bar" => joins = {} /\ saved = {} /\ pending = {}
      /\ op = "bra" =>
           /\ joins \subseteq JoinsAt(p, m) \cup {m} /\ pending \subseteq PendingAt(p, m)
           /\ m > a => \A e \in pending : m <= e
           /\ saved # {} => m > a /\ (\A e \in saved : e < m) /\ (\A c \in joins : m <= c)
      /\ op = "cbra" =>
           /\ saved = {} /\ Follows(p, a, a + 1)
           /\ joins \subseteq JoinsAt(p, m) /\ pending \subseteq PendingAt(p, m)
           /\ IF a \in IfElses(p) THEN joins \subseteq JoinsAt(p, a + 1) ELSE joins = {}
      /\ op = "ret" => joins = {}

Joinable(p) == \A a \in DOMAIN p : JoinableAt(p, a)

-----------------------------------------------------------------------------
\* The frames that hold lane l.
FramesWith(l) == {i \in 1..Len(stack) : l \in stack[i].mask}

(***************************************************************************)
(* Where a lane is: at pc if it is active, otherwise at the topmost frame  *)
(* that holds it, otherwise at its end.                                    *)
(***************************************************************************)
LanePc == [l \in Lanes |->
  IF l \in mask THEN pc
  ELSE IF FramesWith(l) = {} THEN EOC
  ELSE stack[CHOOSE i \in FramesWith(l) : \A j \in FramesWith(l) : j <= i].pc]

(***************************************************************************)
(* Every lane runs the program as a thread of its own would, whatever the  *)
(* other lanes of the warp do: it is never moved to an instruction that    *)
(* does not follow its last one, never dropped, never run again after ret. *)
(***************************************************************************)
Lane == INSTANCE LaneSemantics WITH lane_pc <- LanePc
LanesFollowProgram == Lane!Spec

Live == {l \in Lanes : LanePc[l] # EOC}

\* Reconvergence: a bar is executed by all the lanes that have not ended.
BarTogether == Fetch({"bar"}) => mask = Live

(***************************************************************************)
(* A warp whose branches all go forward ends, although ret goes back to a  *)
(* path saved earlier: every path is run once.                             *)
(***************************************************************************)
Forward(p) == \A a \in DOMAIN p : p[a].op \in {"bra", "cbra"} => p[a].target > a

Ends == Forward(program) => <>(status # "running")
=============================================================================
