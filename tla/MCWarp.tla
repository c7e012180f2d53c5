------------------------------- MODULE MCWarp -------------------------------
(***************************************************************************)
(* Kernels for module Warp.  A kernel is assembled from blocks, sequences  *)
(* of instructions with branch targets relative to the branch.             *)
(***************************************************************************)
EXTENDS Warp

Instr(op) == <<[op |-> op]>>
Branch(op, distance) == <<[op |-> op, target |-> distance]>>

\* @%p bra T; E; bra M; T: ...; bra M; M:   the layout bra expects
IfElse(t, e) ==
  Branch("cbra", Len(e) + 2) \o e \o Branch("bra", Len(t) + 2) \o t \o Branch("bra", 1)

\* @%p bra T; E; bra J; T: ...; bra M; J: a plain instruction; M:   the saved
\* path falls into the point where the paths join
IfElseTail(t, e) ==
  Branch("cbra", Len(e) + 2) \o e \o Branch("bra", Len(t) + 2) \o t \o Branch("bra", 2)
    \o Instr("plain")

\* @%p bra M; E; M:
IfThen(e) == Branch("cbra", Len(e) + 1) \o e

\* L: B; @%p bra L
Loop(b) == b \o Branch("cbra", -Len(b))

\* The kernel that consists of a block.
Kernel(block) ==
  [a \in 0..Len(block) - 1 |->
    IF block[a + 1].op \in {"bra", "cbra"}
    THEN [block[a + 1] EXCEPT !.target = a + @] ELSE block[a + 1]]

\* Lists of blocks: every block of s, combined by Op with every block of t.
Combine(Op(_, _), s, t) ==
  [k \in 1..Len(s) * Len(t) |-> Op(s[((k - 1) \div Len(t)) + 1], t[((k - 1) % Len(t)) + 1])]

Each(Op(_), s) == [k \in 1..Len(s) |-> Op(s[k])]
Concat(a, b) == a \o b
Kernel_ret(b) == Kernel(b \o Instr("ret"))
Plain1 == <<Instr("plain")>>

\* if/else with straight taken paths, nested in the fall-through path, before
\* and after a barrier that every thread reaches.
Straight == Plain1 \o Combine(Concat, Plain1, Plain1)
Merging1 ==
  Plain1 \o Combine(IfElse, Straight, Plain1) \o Combine(IfElseTail, Straight, Plain1)
Merging2 ==
  Merging1 \o Combine(Concat, Merging1, Merging1)
    \o Combine(IfElse, Plain1, Merging1) \o Combine(IfElseTail, Straight, Merging1)
WithBar(a, b) == a \o Instr("bar") \o b
MergingCode ==
  LET blocks == Combine(WithBar, Merging2, Merging1)
  IN  [k \in DOMAIN blocks |-> Kernel_ret(blocks[k])]

\* Code with paths that the stack never joins.
Ifs1 == Plain1 \o Each(IfThen, Plain1)
Unmerged1 == Ifs1 \o Each(Loop, Plain1)
Unmerged2 ==
  Unmerged1 \o Combine(Concat, Unmerged1, Unmerged1) \o Combine(IfElse, Plain1, Ifs1)
Unmerged3 == Each(IfThen, Unmerged2) \o Each(Loop, Unmerged2)
UnmergedCode ==
  LET blocks == Combine(Concat, Unmerged3, Unmerged1)
  IN  [k \in DOMAIN blocks |-> Kernel_ret(blocks[k])]

\* The same blocks before an exit, and blocks at the end of the code, where the
\* counter runs off it.
Kernel_exit(b) == Kernel(b \o Instr("exit"))
StrayCode == Each(Kernel_exit, Unmerged2) \o <<Kernel(Plain1[1]), Kernel(Loop(Plain1[1]))>>

\* A return of some lanes at the start, and barriers for the others.
GuardedCode ==
  LET blocks == Each(IfThen, Combine(WithBar, Merging1, Merging1))
  IN  [k \in DOMAIN blocks |-> Kernel_ret(blocks[k])]

\* The kernels a compiler makes of structured code, with barriers where all
\* paths are joined, and kernels that do not end with ret.
StructuredCode == MergingCode \o UnmergedCode \o GuardedCode \o StrayCode

\* Each list's kernels are named by their positions in it.
StructuredKernels == DOMAIN StructuredCode

\* if/else inside the taken path of an if/else.
Nested == IfElse(IfElse(Instr("plain"), Instr("plain")), Instr("plain")) \o Instr("bar")

\* @%p bra X inside the fall-through path of an if/else, where X is the ret
\* that ends the kernel.
GuardClause == IfElse(Instr("plain"), Branch("cbra", 6)) \o Instr("plain") \o Instr("bar")

\* A loop inside the fall-through path of an if/else: two of its lanes have to
\* leave it before the last.
LoopInElse == IfElse(Instr("plain"), Loop(Instr("plain"))) \o Instr("bar")

JoinsCode ==
  <<Kernel_ret(IfThen(Instr("plain")) \o Instr("bar")), Kernel_ret(Nested),
    Kernel_ret(GuardClause), Kernel_ret(LoopInElse)>>
JoinsKernels == DOMAIN JoinsCode

\* The structured kernels are of the kind that the stack handles whatever the
\* lanes do, the last four are not.
ASSUME KernelsAreJoinable ==
  /\ \A k \in StructuredKernels : Joinable(StructuredCode[k])
  /\ \A k \in JoinsKernels : ~Joinable(JoinsCode[k])
=============================================================================
