----------------------------- MODULE WarpProofs -----------------------------
(***************************************************************************)
(* Proofs about Warp, for every warp size.  Of every program: the masks of *)
(* the PDOM stack stay a partition of the work, the stack stays smaller    *)
(* than the warp, and a closed program never runs out of instructions.  Of *)
(* every joinable program: a bar is executed by all the lanes that have    *)
(* not ended, and each lane runs the program as a thread of its own would. *)
(***************************************************************************)
EXTENDS Warp, SequenceTheorems, FiniteSetTheorems, TLAPS

Frames == [pc : Addresses, mask : SUBSET Lanes, is_convergence : BOOLEAN]

\* Every path that a closed program has still to run starts in it.
PathsInProgram ==
  Closed(program) =>
    /\ status # "thrown"
    /\ pc \in DOMAIN program \/ (pc = EOC /\ stack = <<>>)
    /\ \A i \in 1..Len(stack) : stack[i].pc \in DOMAIN program

IInv == TypeOK /\ MaskDiscipline /\ SomeoneWaits /\ PathsInProgram

-----------------------------------------------------------------------------
(***************************************************************************)
(* The two ways the stack changes: it is cut, or it is cut and a frame is  *)
(* pushed.                                                                 *)
(***************************************************************************)
LEMMA CutSeq ==
  ASSUME NEW S, NEW s \in Seq(S), NEW n \in 0..Len(s)
  PROVE  /\ SubSeq(s, 1, n) \in Seq(S)
         /\ Len(SubSeq(s, 1, n)) = n
         /\ \A i \in 1..n : SubSeq(s, 1, n)[i] = s[i]
<1>1. n \in Int /\ \A i \in 1..n : s[i] \in S
  OBVIOUS
<1> QED
  BY <1>1, SubSeqProperties

LEMMA PushSeq ==
  ASSUME NEW S, NEW s \in Seq(S), NEW n \in 0..Len(s), NEW e \in S
  PROVE  /\ Append(SubSeq(s, 1, n), e) \in Seq(S)
         /\ Len(Append(SubSeq(s, 1, n), e)) = n + 1
         /\ \A i \in 1..n : Append(SubSeq(s, 1, n), e)[i] = s[i]
         /\ Append(SubSeq(s, 1, n), e)[n + 1] = e
<1>1. /\ SubSeq(s, 1, n) \in Seq(S) /\ Len(SubSeq(s, 1, n)) = n
      /\ \A i \in 1..n : SubSeq(s, 1, n)[i] = s[i]
  BY CutSeq
<1> QED
  BY <1>1, AppendProperties

\* A stack is cut before position n.
LEMMA PopSeq ==
  ASSUME NEW S, NEW s \in Seq(S), NEW n \in 1..Len(s), NEW t, t = SubSeq(s, 1, n - 1)
  PROVE  /\ n - 1 \in Nat /\ n - 1 <= Len(s) /\ Len(t) = n - 1
         /\ \A i \in 1..n-1 : t[i] = s[i]
<1>1. n - 1 \in 0..Len(s) /\ n - 1 \in Nat /\ n - 1 <= Len(s)
  OBVIOUS
<1> QED
  BY <1>1, CutSeq

-----------------------------------------------------------------------------
LEMMA InitIInv == Init => IInv
<1> SUFFICES ASSUME Init PROVE IInv
  OBVIOUS
<1>1. TypeOK
  BY WarpAssumption DEF Init, TypeOK, Addresses, program
<1>2. MaskDiscipline /\ SomeoneWaits
  BY WarpAssumption DEF Init, MaskDiscipline, SomeoneWaits
<1>3. PathsInProgram
  BY WarpAssumption DEF Init, PathsInProgram, program
<1> QED
  BY <1>1, <1>2, <1>3 DEF IInv

\* The facts about the current instruction that the actions need.
LEMMA Fetched ==
  ASSUME IInv, NEW ops, Fetch(ops)
  PROVE  /\ pc \in DOMAIN program /\ pc \in Nat /\ pc # EOC /\ pc + 1 \in Addresses
         /\ program[pc].op \in {"bra", "cbra"} => Target \in DOMAIN program
         /\ DOMAIN program \subseteq Addresses
         /\ EOC \notin Addresses
         /\ status = "running"
<1>1. kernel \in Kernels
  BY DEF IInv, TypeOK
<1> QED
  BY <1>1, WarpAssumption DEF Fetch, Addresses, Target, program

\* An action that leaves the mask and the stack alone.
LEMMA SamePaths ==
  ASSUME IInv, UNCHANGED <<kernel, mask, stack>>,
         pc' \in Addresses \cup {EOC}, status' \in {"running", "ended", "thrown"},
         Closed(program) =>
           status' # "thrown" /\ (pc' \in DOMAIN program \/ (pc' = EOC /\ stack = <<>>))
  PROVE  IInv'
<1>1. program' = program /\ Addresses' = Addresses
  BY DEF program, Addresses
<1>2. TypeOK'
  BY <1>1 DEF IInv, TypeOK
<1>3. MaskDiscipline' /\ SomeoneWaits'
  BY DEF IInv, MaskDiscipline, SomeoneWaits
<1>4. PathsInProgram'
  BY <1>1 DEF IInv, PathsInProgram, Closed
<1> QED
  BY <1>2, <1>3, <1>4 DEF IInv

\* An action that takes up the path, or the joined paths, of a frame and drops
\* the frame and those above it.
LEMMA ResumePath ==
  ASSUME IInv, NEW n \in 1..Len(stack), UNCHANGED <<kernel, status>>,
         stack' = SubSeq(stack, 1, n - 1), mask' = stack[n].mask, pc' = stack[n].pc
  PROVE  IInv'
<1>1. program' = program /\ Addresses' = Addresses /\ stack \in Seq(Frames)
  BY DEF IInv, TypeOK, program, Addresses, Frames
<1>2. /\ stack' \in Seq(Frames) /\ Len(stack') = n - 1
      /\ \A i \in 1..n-1 : stack'[i] = stack[i]
  <2>1. n - 1 \in 0..Len(stack)
    BY <1>1
  <2> QED
    BY <1>1, <2>1, CutSeq
<1>3. stack[n] \in Frames
  BY <1>1
<1>4. TypeOK'
  BY <1>1, <1>2, <1>3 DEF IInv, TypeOK, Frames
<1>5. MaskDiscipline'
  <2>1. mask' # {}
    BY DEF IInv, MaskDiscipline
  <2>2. ASSUME NEW i \in 1..n-1
        PROVE  /\ stack[i].mask # {}
               /\ IF stack[i].is_convergence THEN mask' \subseteq stack[i].mask
                                             ELSE mask' \cap stack[i].mask = {}
    <3>1. i \in 1..Len(stack)
      BY <1>1
    <3>2. IF stack[i].is_convergence THEN stack[n].mask \subseteq stack[i].mask
                                     ELSE stack[n].mask \cap stack[i].mask = {}
      BY DEF IInv, MaskDiscipline
    <3> QED
      BY <3>1, <3>2 DEF IInv, MaskDiscipline
  <2>3. \A j \in 1..n-1 : \A i \in 1..j-1 :
          IF stack[i].is_convergence THEN stack[j].mask \subseteq stack[i].mask
                                     ELSE stack[j].mask \cap stack[i].mask = {}
    BY <1>1 DEF IInv, MaskDiscipline
  <2> QED
    BY <1>1, <1>2, <2>1, <2>2, <2>3 DEF MaskDiscipline
<1>6. SomeoneWaits'
  <2> SUFFICES ASSUME NEW i \in 1..n-1, stack[i].is_convergence
               PROVE  \E l \in stack[i].mask :
                        l \notin stack[n].mask /\ \A j \in i+1..n-1 : l \notin stack[j].mask
    BY <1>1, <1>2 DEF SomeoneWaits
  <2> QED
    BY <1>1 DEF IInv, SomeoneWaits
<1>7. PathsInProgram'
  BY <1>1, <1>2 DEF IInv, PathsInProgram, Closed
<1> QED
  BY <1>4, <1>5, <1>6, <1>7 DEF IInv

\* The stack after case A of bra: the top frame is replaced.
LEMMA SwapStack ==
  ASSUME IInv, BraSwap, NEW n, n = Len(stack), NEW f, f = Frame(Target, mask \cup Top.mask, TRUE)
  PROVE  /\ n \in Nat /\ n \in 1..n /\ Top = stack[n]
         /\ f \in Frames /\ f.pc = Target /\ f.mask = mask \cup Top.mask /\ f.is_convergence
         /\ stack' \in Seq(Frames) /\ Len(stack') = n
         /\ \A i \in 1..n-1 : stack'[i] = stack[i]
         /\ stack'[n] = f
<1>1. stack \in Seq(Frames) /\ stack # <<>>
  BY DEF IInv, TypeOK, Frames, BraSwap, IsSwap
<1>2. n \in Nat /\ n \in 1..Len(stack) /\ n - 1 \in 0..Len(stack) /\ (n - 1) + 1 = n
  BY <1>1
<1>3. f \in Frames
  <2>1. Target \in Addresses
    BY Fetched DEF BraSwap, Fetch
  <2>2. mask \cup Top.mask \in SUBSET Lanes
    <3>1. stack[Len(stack)] \in Frames
      BY ONLY <1>1, <1>2, n = Len(stack)
    <3> QED
      BY <3>1 DEF Top, IInv, TypeOK, Frames
  <2> QED
    BY <2>1, <2>2 DEF Frame, Frames
<1>4. stack' = Append(SubSeq(stack, 1, n - 1), f)
  BY DEF BraSwap, Popped
<1>5. /\ stack' \in Seq(Frames) /\ Len(stack') = (n - 1) + 1
      /\ \A i \in 1..n-1 : stack'[i] = stack[i]
      /\ stack'[(n - 1) + 1] = f
  BY ONLY <1>1, <1>2, <1>3, <1>4, PushSeq
<1>6. f.pc = Target /\ f.mask = mask \cup Top.mask /\ f.is_convergence /\ Top = stack[n]
  BY DEF Frame, Top
<1> QED
  BY <1>2, <1>3, <1>5, <1>6

(***************************************************************************)
(* Case A of bra: the saved path on top is taken up, and a convergence     *)
(* frame for it and the current path takes its place.                      *)
(***************************************************************************)
LEMMA SwapPaths ==
  ASSUME IInv, Fetch({"bra"}), IsSwap, UNCHANGED <<kernel, status>>,
         NEW n \in 1..Len(stack), n = Len(stack), NEW f, f = Frame(Target, mask \cup Top.mask, TRUE),
         stack' \in Seq(Frames), Len(stack') = n,
         \A i \in 1..n-1 : stack'[i] = stack[i], stack'[n] = f,
         mask' = Top.mask, pc' = Top.pc
  PROVE  IInv'
<1>1. /\ program' = program /\ Addresses' = Addresses /\ stack \in Seq(Frames)
      /\ mask \subseteq Lanes
  BY DEF IInv, TypeOK, program, Addresses, Frames
<1>2. stack[n] \in Frames /\ Top = stack[n]
  BY <1>1 DEF Top
<1>3. Target \in DOMAIN program
  BY Fetched DEF Fetch
<1>4. /\ stack' \in Seq(Frames) /\ Len(stack') = n
      /\ \A i \in 1..n-1 : stack'[i] = stack[i]
      /\ stack'[n] = f
  OBVIOUS
<1>5. f.pc = Target /\ f.mask = mask \cup stack[n].mask /\ f.is_convergence
  BY <1>2 DEF Frame
<1>6. ~stack[n].is_convergence
  BY <1>2 DEF IsSwap
<1>7. TypeOK'
  BY <1>1, <1>2, <1>4 DEF IInv, TypeOK, Frames
<1>8. /\ mask # {} /\ stack[n].mask # {} /\ mask \cap stack[n].mask = {}
      /\ \A i \in 1..n-1 :
           /\ stack[i].mask # {}
           /\ IF stack[i].is_convergence
              THEN mask \subseteq stack[i].mask /\ stack[n].mask \subseteq stack[i].mask
              ELSE mask \cap stack[i].mask = {} /\ stack[n].mask \cap stack[i].mask = {}
  BY <1>1, <1>6 DEF IInv, MaskDiscipline
<1>9. MaskDiscipline'
  <2>1. ASSUME NEW i \in 1..n
        PROVE  /\ stack'[i].mask # {}
               /\ IF stack'[i].is_convergence THEN stack[n].mask \subseteq stack'[i].mask
                                              ELSE stack[n].mask \cap stack'[i].mask = {}
    <3>1. CASE i = n
      BY <1>4, <1>5, <1>8, <3>1
    <3>2. CASE i \in 1..n-1
      BY <1>4, <1>8, <3>2
    <3> QED
      BY <1>1, <3>1, <3>2
  <2>2. ASSUME NEW j \in 1..n, NEW i \in 1..j-1
        PROVE  IF stack'[i].is_convergence THEN stack'[j].mask \subseteq stack'[i].mask
                                           ELSE stack'[j].mask \cap stack'[i].mask = {}
    <3>1. i \in 1..n-1 /\ stack'[i] = stack[i]
      BY <1>1, <1>4
    <3>2. CASE j = n
      BY <1>4, <1>5, <1>8, <3>1, <3>2
    <3>3. CASE j \in 1..n-1
      <4>1. stack'[j] = stack[j]
        BY <1>4, <3>3
      <4>2. IF stack[i].is_convergence THEN stack[j].mask \subseteq stack[i].mask
                                       ELSE stack[j].mask \cap stack[i].mask = {}
        BY <1>1, <3>3 DEF IInv, MaskDiscipline
      <4> QED
        BY <3>1, <4>1, <4>2
    <3> QED
      BY <1>1, <3>2, <3>3
  <2> QED
    BY <1>2, <1>4, <1>8, <2>1, <2>2 DEF MaskDiscipline
<1>10. SomeoneWaits'
  <2> SUFFICES ASSUME NEW i \in 1..n, stack'[i].is_convergence
               PROVE  \E l \in stack'[i].mask :
                        l \notin stack[n].mask /\ \A j \in i+1..n : l \notin stack'[j].mask
    BY <1>2, <1>4 DEF SomeoneWaits
  <2>1. CASE i = n
    <3>1. PICK l \in mask : l \notin stack[n].mask
      BY <1>8
    <3>2. l \in stack'[i].mask
      BY <1>4, <1>5, <2>1, <3>1
    <3>3. \A j \in i+1..n : FALSE
      BY <2>1
    <3> QED
      BY <3>1, <3>2, <3>3
  <2>2. CASE i \in 1..n-1
    <3>1. i \in 1..Len(stack) /\ stack[i].is_convergence /\ stack'[i] = stack[i]
      BY <1>4, <2>2
    <3>2. PICK l \in stack[i].mask :
            l \notin mask /\ \A j \in i+1..Len(stack) : l \notin stack[j].mask
      BY <3>1 DEF IInv, SomeoneWaits
    <3>3. l \notin stack[n].mask /\ l \notin f.mask
      <4>1. n \in i+1..Len(stack)
        BY <2>2
      <4> QED
        BY <1>5, <3>2, <4>1
    <3>4. ASSUME NEW j \in i+1..n
          PROVE  l \notin stack'[j].mask
      <4>1. CASE j = n
        BY <1>4, <3>3, <4>1
      <4>2. CASE j # n
        <5>1. j \in 1..n-1 /\ j \in i+1..Len(stack)
          BY <2>2, <4>2
        <5> QED
          BY <1>4, <3>2, <5>1
      <4> QED
        BY <4>1, <4>2
    <3> QED
      BY <3>1, <3>2, <3>3, <3>4
  <2> QED
    BY <1>1, <2>1, <2>2
<1>11. PathsInProgram'
  <2> SUFFICES ASSUME Closed(program)
               PROVE  /\ status # "thrown" /\ stack[n].pc \in DOMAIN program
                      /\ \A i \in 1..n : stack'[i].pc \in DOMAIN program
    BY <1>1, <1>2, <1>4 DEF PathsInProgram, Closed
  <2>1. \A i \in 1..n : stack[i].pc \in DOMAIN program
    BY DEF IInv, PathsInProgram
  <2>2. ASSUME NEW i \in 1..n
        PROVE  stack'[i].pc \in DOMAIN program
    <3>1. CASE i = n
      BY <1>3, <1>4, <1>5, <3>1
    <3>2. CASE i \in 1..n-1
      BY <1>4, <2>1, <3>2
    <3> QED
      BY <3>1, <3>2
  <2> QED
    BY <2>1, <2>2 DEF IInv, PathsInProgram
<1> QED
  BY <1>7, <1>9, <1>10, <1>11 DEF IInv

(***************************************************************************)
(* A branch that some active lanes take and some do not: the others are    *)
(* saved.                                                                  *)
(***************************************************************************)
LEMMA SplitPath ==
  ASSUME IInv, Fetch({"cbra"}), NEW taken \in SUBSET mask, taken # mask, taken # {},
         UNCHANGED <<kernel, status>>, NEW n \in Nat, n = Len(stack),
         NEW f, f = Frame(pc + 1, mask \ taken, FALSE),
         stack' \in Seq(Frames), Len(stack') = n + 1,
         \A i \in 1..n : stack'[i] = stack[i], stack'[n + 1] = f,
         mask' = taken, pc' = Target
  PROVE  IInv'
<1>1. /\ program' = program /\ Addresses' = Addresses /\ stack \in Seq(Frames)
      /\ mask \subseteq Lanes
  BY DEF IInv, TypeOK, program, Addresses, Frames
<1>2. pc \in DOMAIN program /\ Target \in DOMAIN program /\ Target \in Addresses
  BY Fetched DEF Fetch
<1>3. f.pc = pc + 1 /\ f.mask = mask \ taken /\ ~f.is_convergence
  BY DEF Frame
<1>4. /\ stack' \in Seq(Frames) /\ Len(stack') = n + 1
      /\ \A i \in 1..n : stack'[i] = stack[i]
      /\ stack'[n + 1] = f
  OBVIOUS
<1>5. TypeOK'
  BY <1>1, <1>2, <1>4 DEF IInv, TypeOK, Frames
<1>6. MaskDiscipline'
  <2>1. ASSUME NEW i \in 1..n
        PROVE  /\ stack[i].mask # {}
               /\ IF stack[i].is_convergence THEN mask \subseteq stack[i].mask
                                             ELSE mask \cap stack[i].mask = {}
    BY DEF IInv, MaskDiscipline
  <2>2. ASSUME NEW i \in 1..n+1
        PROVE  /\ stack'[i].mask # {}
               /\ IF stack'[i].is_convergence THEN taken \subseteq stack'[i].mask
                                              ELSE taken \cap stack'[i].mask = {}
    <3>1. CASE i = n + 1
      BY <1>3, <1>4, <3>1
    <3>2. CASE i \in 1..n
      BY <1>4, <2>1, <3>2
    <3> QED
      BY <1>1, <3>1, <3>2
  <2>3. ASSUME NEW j \in 1..n+1, NEW i \in 1..j-1
        PROVE  IF stack'[i].is_convergence THEN stack'[j].mask \subseteq stack'[i].mask
                                           ELSE stack'[j].mask \cap stack'[i].mask = {}
    <3>1. i \in 1..n /\ stack'[i] = stack[i]
      BY <1>1, <1>4
    <3>2. CASE j = n + 1
      BY <1>3, <1>4, <2>1, <3>1, <3>2
    <3>3. CASE j \in 1..n
      <4>1. stack'[j] = stack[j]
        BY <1>4, <3>3
      <4>2. IF stack[i].is_convergence THEN stack[j].mask \subseteq stack[i].mask
                                       ELSE stack[j].mask \cap stack[i].mask = {}
        BY <3>3 DEF IInv, MaskDiscipline
      <4> QED
        BY <3>1, <4>1, <4>2
    <3> QED
      BY <1>1, <3>2, <3>3
  <2> QED
    BY <1>4, <2>2, <2>3 DEF MaskDiscipline
<1>7. SomeoneWaits'
  <2> SUFFICES ASSUME NEW i \in 1..n+1, stack'[i].is_convergence
               PROVE  \E l \in stack'[i].mask :
                        l \notin taken /\ \A j \in i+1..n+1 : l \notin stack'[j].mask
    BY <1>4 DEF SomeoneWaits
  <2>1. i \in 1..n /\ stack'[i] = stack[i]
    <3>1. i # n + 1
      BY <1>3, <1>4
    <3>2. i \in 1..n
      BY <3>1
    <3> QED
      BY <1>4, <3>2
  <2>2. PICK l \in stack[i].mask :
          l \notin mask /\ \A j \in i+1..n : l \notin stack[j].mask
    BY <2>1 DEF IInv, SomeoneWaits
  <2>3. ASSUME NEW j \in i+1..n+1
        PROVE  l \notin stack'[j].mask
    <3>1. CASE j = n + 1
      BY <1>3, <1>4, <2>2, <3>1
    <3>2. CASE j # n + 1
      <4>1. j \in 1..n /\ j \in i+1..n
        BY <2>1, <3>2
      <4> QED
        BY <1>4, <2>2, <4>1
    <3> QED
      BY <3>1, <3>2
  <2> QED
    BY <2>1, <2>2, <2>3
<1>8. PathsInProgram'
  <2> SUFFICES ASSUME Closed(program)
               PROVE  /\ status # "thrown" /\ Target \in DOMAIN program
                      /\ \A i \in 1..n+1 : stack'[i].pc \in DOMAIN program
    BY <1>1, <1>4 DEF PathsInProgram, Closed
  <2>1. pc + 1 \in DOMAIN program
    BY <1>2 DEF Closed, Fetch
  <2>2. \A i \in 1..n : stack[i].pc \in DOMAIN program
    BY DEF IInv, PathsInProgram
  <2>3. ASSUME NEW i \in 1..n+1
        PROVE  stack'[i].pc \in DOMAIN program
    <3>1. CASE i = n + 1
      BY <1>3, <1>4, <2>1, <3>1
    <3>2. CASE i \in 1..n
      BY <1>4, <2>2, <3>2
    <3> QED
      BY <3>1, <3>2
  <2> QED
    BY <1>2, <2>3 DEF IInv, PathsInProgram
<1> QED
  BY <1>5, <1>6, <1>7, <1>8 DEF IInv

\* ret with no path left.
LEMMA LastRet ==
  ASSUME IInv, UNCHANGED <<kernel, mask, status>>, stack' = <<>>, pc' = EOC
  PROVE  IInv'
<1>1. program' = program /\ Addresses' = Addresses
  BY DEF program, Addresses
<1>2. TypeOK'
  BY <1>1 DEF IInv, TypeOK
<1>3. MaskDiscipline' /\ SomeoneWaits'
  BY DEF IInv, MaskDiscipline, SomeoneWaits
<1>4. PathsInProgram'
  BY <1>1 DEF IInv, PathsInProgram, Closed
<1> QED
  BY <1>2, <1>3, <1>4 DEF IInv

LEMMA NextIInv == IInv /\ [Next]_vars => IInv'
<1> SUFFICES ASSUME IInv, [Next]_vars
             PROVE  IInv'
  OBVIOUS
<1>0. /\ stack # <<>> => Len(stack) \in 1..Len(stack)
      /\ pc \in Addresses \cup {EOC}
      /\ status \in {"running", "ended", "thrown"}
  BY DEF IInv, TypeOK
<1>01. stack \in Seq(Frames) /\ Len(stack) \in Nat
  BY DEF IInv, TypeOK, Frames
<1>1. CASE Converge
  BY <1>0, <1>1, ResumePath DEF Converge, AtConvergence, Top, Popped
<1>2. CASE NoInstruction
  <2>1. Closed(program) => FALSE
    BY <1>2 DEF NoInstruction, isActive, IInv, PathsInProgram
  <2> QED
    BY <1>0, <1>2, <2>1, SamePaths DEF NoInstruction
<1>3. CASE Plain
  <2>1. Closed(program) => pc + 1 \in DOMAIN program
    BY <1>3 DEF Plain, Fetch, Closed
  <2>2. pc + 1 \in Addresses /\ status = "running"
    BY <1>3, Fetched DEF Plain
  <2> QED
    BY <1>3, <2>1, <2>2, SamePaths DEF Plain
<1>4. CASE BraSwap
  <2> DEFINE n == Len(stack)
             f == Frame(Target, mask \cup Top.mask, TRUE)
  <2> HIDE DEF f
  <2>1. /\ n \in 1..Len(stack) /\ stack' \in Seq(Frames) /\ Len(stack') = n
        /\ (\A i \in 1..n-1 : stack'[i] = stack[i]) /\ stack'[n] = f
    BY <1>4, SwapStack DEF f
  <2> QED
    BY <1>4, <2>1, SwapPaths DEF BraSwap, f
<1>5. CASE BraMerge
  BY <1>0, <1>5, ResumePath DEF BraMerge, IsMerge, Top, Popped
<1>6. CASE BraJump
  <2>1. Target \in DOMAIN program /\ Target \in Addresses /\ status = "running"
    BY <1>6, Fetched DEF BraJump, Fetch
  <2> QED
    BY <1>6, <2>1, SamePaths DEF BraJump
<1>7. ASSUME NEW taken \in SUBSET mask, CondBra(taken)
      PROVE  IInv'
  <2>1. /\ Target \in DOMAIN program /\ Target \in Addresses /\ status = "running"
        /\ pc + 1 \in Addresses
        /\ Closed(program) => pc + 1 \in DOMAIN program
    BY <1>7, Fetched DEF CondBra, Fetch, Closed
  <2>2. CASE taken = mask \/ taken = {}
    <3>1. UNCHANGED <<kernel, mask, stack, status>> /\ pc' \in {Target, pc + 1}
      BY <1>7, <2>2 DEF CondBra
    <3> QED
      BY <2>1, <3>1, SamePaths
  <2>3. CASE taken # mask /\ taken # {}
    <3> DEFINE f == Frame(pc + 1, mask \ taken, FALSE)
    <3>1. f \in Frames
      BY <2>1 DEF Frame, Frames, IInv, TypeOK
    <3>2. stack' = Append(stack, f)
      BY <1>7, <2>3 DEF CondBra
    <3>3. /\ stack' \in Seq(Frames) /\ Len(stack') = Len(stack) + 1
          /\ \A i \in 1..Len(stack) : stack'[i] = stack[i]
          /\ stack'[Len(stack) + 1] = f
      <4> HIDE DEF f
      <4> QED
        BY ONLY <1>01, <3>1, <3>2, AppendProperties
    <3> QED
      BY <1>01, <1>7, <2>3, <3>3, SplitPath DEF CondBra
  <2> QED
    BY <2>2, <2>3
<1>8. CASE Ret
  <2>1. CASE Saved = {} /\ stack' = <<>> /\ pc' = EOC /\ UNCHANGED mask
    BY <1>8, <2>1, LastRet DEF Ret
  <2>2. ASSUME NEW i \in Saved, stack' = SubSeq(stack, 1, i - 1),
               pc' = stack[i].pc, mask' = stack[i].mask
        PROVE  IInv'
    BY <1>8, <2>2, ResumePath DEF Ret, Saved
  <2> QED
    BY <1>8, <2>1, <2>2 DEF Ret
<1>9. CASE Exit
  <2>1. Closed(program) => FALSE
    BY <1>9 DEF Exit, Fetch, Closed
  <2> QED
    BY <1>0, <1>9, <2>1, SamePaths DEF Exit
<1>10. CASE End
  <2>1. Closed(program) => pc \in DOMAIN program \/ (pc = EOC /\ stack = <<>>)
    BY DEF IInv, PathsInProgram
  <2> QED
    BY <1>0, <1>10, <2>1, SamePaths DEF End
<1>11. CASE UNCHANGED vars
  <2>1. Closed(program) =>
          status # "thrown" /\ (pc \in DOMAIN program \/ (pc = EOC /\ stack = <<>>))
    BY DEF IInv, PathsInProgram
  <2> QED
    BY <1>0, <1>11, <2>1, SamePaths DEF vars
<1> QED
  BY <1>1, <1>2, <1>3, <1>4, <1>5, <1>6, <1>7, <1>8, <1>9, <1>10, <1>11
     DEF Next, Step, Stopped

(***************************************************************************)
(* To every frame belongs a lane of its own that is not active: one that   *)
(* waits at it, for a convergence frame, any lane of it, for a saved path. *)
(***************************************************************************)
LEMMA StackBound == IInv => StackBounded
<1> SUFFICES ASSUME IInv PROVE StackBounded
  OBVIOUS
<1> DEFINE I == 1..Len(stack)
           Owns(i, l) == /\ l \in stack[i].mask /\ l \notin mask
                         /\ \A j \in i+1..Len(stack) : l \notin stack[j].mask
           owner == [i \in I |-> CHOOSE l \in Lanes : Owns(i, l)]
<1>1. /\ Len(stack) \in Nat /\ mask \subseteq Lanes
      /\ \A i \in I : stack[i].mask \subseteq Lanes
  <2>1. stack \in Seq(Frames) /\ mask \subseteq Lanes
    BY DEF IInv, TypeOK, Frames
  <2>2. \A i \in I : stack[i] \in Frames
    BY ONLY <2>1
  <2> QED
    BY <2>1, <2>2 DEF Frames
<1>2. ASSUME NEW i \in I
      PROVE  \E l \in Lanes : Owns(i, l)
  <2>1. CASE stack[i].is_convergence
    BY <1>1, <2>1 DEF IInv, SomeoneWaits
  <2>2. CASE ~stack[i].is_convergence
    <3>1. PICK l : l \in stack[i].mask
      BY DEF IInv, MaskDiscipline
    <3>2. mask \cap stack[i].mask = {}
      BY <2>2 DEF IInv, MaskDiscipline
    <3>3. ASSUME NEW j \in i+1..Len(stack)
          PROVE  stack[j].mask \cap stack[i].mask = {}
      <4>1. j \in 1..Len(stack) /\ i \in 1..j-1
        BY <1>1
      <4> QED
        BY <2>2, <4>1 DEF IInv, MaskDiscipline
    <3> QED
      BY <1>1, <3>1, <3>2, <3>3
  <2> QED
    BY <2>1, <2>2
<1>3. \A i \in I : owner[i] \in Lanes /\ Owns(i, owner[i])
  BY <1>2
<1> HIDE DEF owner
<1>4. \A i, j \in I : i < j => owner[i] # owner[j]
  <2> SUFFICES ASSUME NEW i \in I, NEW j \in I, i < j
               PROVE  owner[i] # owner[j]
    OBVIOUS
  <2>1. j \in i+1..Len(stack)
    BY <1>1
  <2>2. owner[i] \notin stack[j].mask
    BY <1>3, <2>1
  <2>3. owner[j] \in stack[j].mask
    BY <1>3
  <2> QED
    BY <2>2, <2>3
<1>5. owner \in Injection(I, Lanes \ mask)
  <2>1. owner \in [I -> Lanes \ mask]
    BY <1>3 DEF owner
  <2>2. \A i, j \in I : owner[i] = owner[j] => i = j
    <3>1. \A i, j \in I : i = j \/ i < j \/ j < i
      BY <1>1
    <3> QED
      BY <1>4, <3>1
  <2>3. DOMAIN owner = I
    BY DEF owner
  <2> QED
    BY <2>1, <2>2, <2>3 DEF Injection, IsInjective
<1>6. /\ IsFiniteSet(Lanes \ mask)
      /\ Cardinality(Lanes \ mask) <= Cardinality(Lanes)
      /\ Cardinality(Lanes \ mask) # Cardinality(Lanes)
  <2>1. Lanes \ mask # Lanes
    BY <1>1 DEF IInv, MaskDiscipline
  <2>2. IsFiniteSet(Lanes) /\ Lanes \ mask \in SUBSET Lanes
    BY WarpAssumption
  <2> QED
    BY <2>1, <2>2, FS_Subset
<1>7. Cardinality(I) <= Cardinality(Lanes \ mask)
  BY <1>5, <1>6, FS_Injection
<1>8. Cardinality(I) = Len(stack)
  <2>1. 1 \in Int /\ Len(stack) \in Int
    BY <1>1
  <2>2. Cardinality(I) = IF 1 > Len(stack) THEN 0 ELSE Len(stack) - 1 + 1
    BY <2>1, FS_Interval
  <2> QED
    BY <1>1, <2>2
<1>9. Cardinality(Lanes) \in Nat /\ Cardinality(Lanes \ mask) \in Nat
  BY <1>6, WarpAssumption, FS_CardinalityType
<1> QED
  BY <1>1, <1>6, <1>7, <1>8, <1>9 DEF StackBounded

(***************************************************************************)
(* The invariant that carries the theorems below.                          *)
(***************************************************************************)
THEOREM Invariance == Spec => []IInv
  BY InitIInv, NextIInv, PTL DEF Spec

\* Every variable keeps its type; in particular every counter on the stack is
\* the address of an instruction or of the place after one.
THEOREM TypeCorrect == Spec => []TypeOK
<1>1. IInv => TypeOK
  BY DEF IInv
<1> QED
  BY <1>1, Invariance, PTL

\* Whatever the program does with its branches, the masks on the PDOM stack
\* partition the lanes.
THEOREM MasksCorrect == Spec => []MaskDiscipline
<1>1. IInv => MaskDiscipline
  BY DEF IInv
<1> QED
  BY <1>1, Invariance, PTL

\* A convergence frame never outlives the last lane that waits at it.
THEOREM WaitersCorrect == Spec => []SomeoneWaits
<1>1. IInv => SomeoneWaits
  BY DEF IInv
<1> QED
  BY <1>1, Invariance, PTL

\* The PDOM stack of a warp always has fewer frames than the warp has lanes.
THEOREM StackBoundCorrect == Spec => []StackBounded
  BY StackBound, Invariance, PTL

\* A closed program without exit never stops with "No instruction at pc".
THEOREM FetchCorrect == Spec => []FetchSucceeds
<1>1. IInv => FetchSucceeds
  BY DEF IInv, PathsInProgram, FetchSucceeds
<1> QED
  BY <1>1, Invariance, PTL

-----------------------------------------------------------------------------
(***************************************************************************)
(* Joinable programs.  Frame i of a stack s may be there at address a: as  *)
(* a join ahead, or one the warp has arrived at with only joins above it;  *)
(* as the path saved last; or as a pending path, below which no path waits *)
(* for a join.                                                             *)
(***************************************************************************)
Placed(p, s, a, i) ==
  IF s[i].is_convergence
  THEN \/ s[i].pc \in JoinsAt(p, a)
       \/ s[i].pc = a /\ \A j \in i+1..Len(s) : s[j].is_convergence
  ELSE \/ i = Len(s) /\ s[i].pc \in SavedAt(p, a)
       \/ s[i].pc \in PendingAt(p, a) /\ \A j \in 1..i-1 : ~s[j].is_convergence

\* Frame i may be below frame j: the joins come in order, and what is below a
\* path may be there when the path is taken up.
Ordered(p, s, i, j) ==
  /\ s[i].is_convergence /\ s[j].is_convergence => s[j].pc <= s[i].pc
  /\ s[i].is_convergence /\ ~s[j].is_convergence => s[i].pc \in JoinsAt(p, s[j].pc)
  /\ ~s[i].is_convergence /\ ~s[j].is_convergence => s[i].pc \in PendingAt(p, s[j].pc)

Nested(p, s, a) ==
  /\ \A i \in 1..Len(s) : Placed(p, s, a, i)
  /\ \A j \in 1..Len(s) : \A i \in 1..j-1 : Ordered(p, s, i, j)

AllJoinable == \A k \in Kernels : Joinable(Code[k])

\* The stack is as the text of the program says; after exit there are no
\* instructions.
StackNested == pc = EOC \/ Nested(program, stack, pc)

\* A stack is cut.
LEMMA CutNested ==
  ASSUME NEW p, NEW s, NEW t, NEW a, NEW b, NEW n \in Nat, Len(s) \in Nat, n <= Len(s),
         Len(t) = n, \A i \in 1..n : t[i] = s[i], Nested(p, s, a),
         \A i \in 1..n : Placed(p, t, b, i)
  PROVE  Nested(p, t, b)
<1>1. ASSUME NEW j \in 1..n, NEW i \in 1..j-1
      PROVE  Ordered(p, t, i, j)
  <2>1. j \in 1..Len(s) /\ i \in 1..n
    OBVIOUS
  <2>2. Ordered(p, s, i, j) /\ t[i] = s[i] /\ t[j] = s[j]
    BY <2>1 DEF Nested
  <2> QED
    BY <2>2 DEF Ordered
<1> QED
  BY <1>1 DEF Nested

\* A frame is pushed on a stack that may have been cut.
LEMMA PushNested ==
  ASSUME NEW p, NEW s, NEW t, NEW a, NEW b, NEW n \in Nat, Len(s) \in Nat, n <= Len(s),
         Len(t) = n + 1, \A i \in 1..n : t[i] = s[i], Nested(p, s, a),
         \A i \in 1..n+1 : Placed(p, t, b, i),
         \A i \in 1..n : Ordered(p, t, i, n + 1)
  PROVE  Nested(p, t, b)
<1>1. ASSUME NEW j \in 1..n+1, NEW i \in 1..j-1
      PROVE  Ordered(p, t, i, j)
  <2>1. CASE j = n + 1
    BY <2>1
  <2>2. CASE j # n + 1
    <3>1. j \in 1..n /\ j \in 1..Len(s) /\ i \in 1..n
      BY <2>2
    <3>2. Ordered(p, s, i, j) /\ t[i] = s[i] /\ t[j] = s[j]
      BY <3>1 DEF Nested
    <3> QED
      BY <3>2 DEF Ordered
  <2> QED
    BY <2>1, <2>2
<1> QED
  BY <1>1 DEF Nested

\* The warp moves with the stack as it is.
LEMMA MoveNested ==
  ASSUME NEW p, NEW s, NEW a, NEW b, Len(s) \in Nat, Nested(p, s, a),
         \A i \in 1..Len(s) : s[i].is_convergence => s[i].pc \in JoinsAt(p, a),
         JoinsAt(p, a) \subseteq JoinsAt(p, b) \cup {b},
         PendingAt(p, a) \subseteq PendingAt(p, b),
         \A i \in 1..Len(s) :
           i = Len(s) /\ ~s[i].is_convergence /\ s[i].pc \in SavedAt(p, a) =>
             SavedAt(p, a) \subseteq SavedAt(p, b) /\ JoinsAt(p, a) \subseteq JoinsAt(p, b)
  PROVE  Nested(p, s, b)
<1>1. ASSUME NEW i \in 1..Len(s), s[i].is_convergence, s[i].pc \notin JoinsAt(p, b)
      PROVE  s[i].pc = b /\ \A j \in i+1..Len(s) : s[j].is_convergence
  <2>1. s[i].pc \in JoinsAt(p, a) /\ s[i].pc = b
    BY <1>1
  <2>2. ASSUME NEW j \in i+1..Len(s), ~s[j].is_convergence
        PROVE  FALSE
    <3>1. j \in 1..Len(s) /\ i \in 1..j-1
      OBVIOUS
    <3>2. j = Len(s) /\ s[j].pc \in SavedAt(p, a)
      BY <1>1, <2>2, <3>1 DEF Nested, Placed
    <3> QED
      BY <1>1, <2>1, <2>2, <3>1, <3>2
  <2> QED
    BY <2>1, <2>2
<1>2. ASSUME NEW i \in 1..Len(s), ~s[i].is_convergence
      PROVE  Placed(p, s, b, i)
  <2>1. \/ i = Len(s) /\ s[i].pc \in SavedAt(p, a)
        \/ s[i].pc \in PendingAt(p, a) /\ \A j \in 1..i-1 : ~s[j].is_convergence
    BY <1>2 DEF Nested, Placed
  <2> QED
    BY <1>2, <2>1 DEF Placed
<1>3. \A i \in 1..Len(s) : Placed(p, s, b, i)
  BY <1>1, <1>2 DEF Placed
<1> QED
  BY <1>3 DEF Nested

\* A frame is popped.
LEMMA PopNested ==
  ASSUME NEW p, NEW s, NEW t, NEW a, Len(s) \in Nat, NEW n \in Nat, n + 1 = Len(s),
         Len(t) = n, \A i \in 1..n : t[i] = s[i], Nested(p, s, a)
  PROVE  Nested(p, t, a)
<1>1. ASSUME NEW i \in 1..n
      PROVE  Placed(p, t, a, i)
  <2>1. i \in 1..Len(s) /\ i # Len(s) /\ t[i] = s[i] /\ Placed(p, s, a, i)
    BY DEF Nested
  <2>2. \A j \in i+1..n : j \in i+1..Len(s) /\ t[j] = s[j]
    OBVIOUS
  <2>3. \A j \in 1..i-1 : t[j] = s[j]
    OBVIOUS
  <2> QED
    BY <2>1, <2>2, <2>3 DEF Placed
<1> QED
  BY <1>1, CutNested

\* The joins ahead of an instruction come after it.
LEMMA JoinsAhead ==
  ASSUME NEW p, NEW a, NEW c \in JoinsAt(p, a)
  PROVE  a < c
  BY DEF JoinsAt

-----------------------------------------------------------------------------
\* The instruction that is fetched meets its condition, and the joins on the
\* stack are ahead of it.
LEMMA AtFetch ==
  ASSUME AllJoinable, IInv, StackNested, NEW ops, Fetch(ops)
  PROVE  /\ Nested(program, stack, pc) /\ JoinableAt(program, pc)
         /\ \A i \in 1..Len(stack) :
              stack[i].is_convergence => stack[i].pc \in JoinsAt(program, pc)
<1>1. pc \in DOMAIN program /\ pc # EOC /\ pc \in Nat
  BY Fetched
<1>2. Nested(program, stack, pc)
  BY <1>1 DEF StackNested
<1>3. JoinableAt(program, pc)
  BY <1>1 DEF AllJoinable, Joinable, IInv, TypeOK, program
<1>4. /\ stack \in Seq(Frames) /\ Len(stack) \in Nat
      /\ \A i \in 1..Len(stack) : stack[i].pc \in Nat
  <2>1. stack \in Seq(Frames)
    BY DEF IInv, TypeOK, Frames
  <2>2. Addresses \subseteq Nat
    BY WarpAssumption DEF Addresses, program, IInv, TypeOK
  <2>3. \A i \in 1..Len(stack) : stack[i] \in Frames
    BY ONLY <2>1
  <2>4. Len(stack) \in Nat
    BY ONLY <2>1
  <2>5. \A i \in 1..Len(stack) : stack[i].pc \in Addresses
    BY ONLY <2>3 DEF Frames
  <2> QED
    BY ONLY <2>1, <2>2, <2>4, <2>5
<1>5. ASSUME NEW i \in 1..Len(stack), stack[i].is_convergence,
             stack[i].pc \notin JoinsAt(program, pc)
      PROVE  FALSE
  <2> DEFINE n == Len(stack)
  <2>1. n \in 1..Len(stack) /\ stack # <<>>
    BY <1>4
  <2>2. stack[i].pc = pc /\ \A j \in i+1..n : stack[j].is_convergence
    BY <1>2, <1>5 DEF Nested, Placed
  <2>3. ~(stack[n].is_convergence /\ stack[n].pc = pc)
    BY <2>1 DEF Fetch, AtConvergence, Top
  <2>4. n \in i+1..n /\ i \in 1..n-1
    BY <1>4, <1>5, <2>2, <2>3
  <2>5. stack[n].is_convergence /\ stack[n].pc <= pc
    BY <1>2, <1>5, <2>1, <2>2, <2>4 DEF Nested, Ordered
  <2>6. stack[n].pc \in JoinsAt(program, pc)
    BY <1>2, <2>1, <2>3, <2>5 DEF Nested, Placed
  <2>7. pc < stack[n].pc
    BY <2>6, JoinsAhead
  <2> QED
    BY <1>1, <1>4, <2>1, <2>5, <2>7
<1> QED
  BY <1>2, <1>3, <1>5

\* The warp goes to another instruction with the stack as it is.
LEMMA MoveStack ==
  ASSUME AllJoinable, IInv, StackNested, NEW ops, Fetch(ops), UNCHANGED <<kernel, stack>>,
         JoinsAt(program, pc) \subseteq JoinsAt(program, pc') \cup {pc'},
         PendingAt(program, pc) \subseteq PendingAt(program, pc'),
         \A i \in 1..Len(stack) :
           i = Len(stack) /\ ~stack[i].is_convergence /\ stack[i].pc \in SavedAt(program, pc) =>
             /\ SavedAt(program, pc) \subseteq SavedAt(program, pc')
             /\ JoinsAt(program, pc) \subseteq JoinsAt(program, pc')
  PROVE  StackNested'
<1>1. program' = program /\ Len(stack) \in Nat
  BY DEF program, IInv, TypeOK
<1>2. Nested(program, stack, pc')
  BY <1>1, AtFetch, MoveNested
<1> QED
  BY <1>1, <1>2 DEF StackNested

\* Case A of bra: the join is before those already on the stack, and what is
\* below the saved path may be there when that path runs.
LEMMA SwapNested ==
  ASSUME AllJoinable, IInv, StackNested, BraSwap
  PROVE  StackNested'
<1> DEFINE n == Len(stack)
           a == pc
           m == Target
           e == Top.pc
<1>1. /\ Fetch({"bra"}) /\ IsSwap /\ program' = program
      /\ pc \in DOMAIN program /\ program[pc].op = "bra" /\ pc' = e /\ m = program[pc].target
  BY DEF BraSwap, program, Fetch, Target
<1>2. stack \in Seq(Frames) /\ n \in Nat /\ n \in 1..Len(stack) /\ Top = stack[n]
  BY SwapStack DEF IInv, TypeOK, Frames
<1>3. /\ Nested(program, stack, pc) /\ JoinableAt(program, pc)
      /\ \A i \in 1..n : stack[i].is_convergence => stack[i].pc \in JoinsAt(program, pc)
  BY <1>1, AtFetch
<1>4. m \in Nat /\ e \in Nat /\ m > pc /\ m > e /\ ~stack[n].is_convergence /\ m \in Addresses
  <2>1. DOMAIN program \subseteq Nat /\ Addresses \subseteq Nat
    BY WarpAssumption DEF Addresses, program, IInv, TypeOK
  <2>2. stack[n] \in Frames
    BY ONLY <1>2
  <2>3. m \in DOMAIN program /\ m \in Addresses
    BY <1>1, Fetched
  <2> QED
    BY <1>1, <1>2, <2>1, <2>2, <2>3 DEF Frames, IsSwap
<1>5. e \in SavedAt(program, pc)
  <2>1. e \in SavedAt(program, pc) \/ e \in PendingAt(program, pc)
    BY <1>2, <1>3, <1>4 DEF Nested, Placed
  <2>2. e \in PendingAt(program, pc) => m <= e
    BY <1>1, <1>3, <1>4 DEF JoinableAt
  <2> QED
    BY <1>4, <2>1, <2>2
<1>6. m \in JoinsAt(program, e) /\ \A c \in JoinsAt(program, pc) : m <= c
  <2>1. m \in JoinsAt(program, e)
    BY <1>1, <1>4, <1>5 DEF JoinsAt
  <2>2. \A c \in JoinsAt(program, pc) : m <= c
    BY <1>1, <1>3, <1>5 DEF JoinableAt
  <2> QED
    BY <2>1, <2>2
<1>7. /\ Len(stack') = n /\ \A i \in 1..n-1 : stack'[i] = stack[i]
      /\ stack'[n].pc = m /\ stack'[n].is_convergence
  BY SwapStack
<1> HIDE DEF n, m, e
<1>9. ASSUME NEW i \in 1..n-1
      PROVE  Placed(program, stack', e, i) /\ Ordered(program, stack', i, n)
  <2>1. /\ i \in 1..Len(stack) /\ stack'[i] = stack[i] /\ i # n
        /\ Ordered(program, stack, i, n) /\ Placed(program, stack, pc, i)
    BY <1>2, <1>3, <1>7 DEF Nested, n
  <2>2. CASE stack[i].is_convergence
    <3>1. stack[i].pc \in JoinsAt(program, e) /\ stack[i].pc \in JoinsAt(program, pc)
      BY <1>2, <1>3, <1>4, <2>1, <2>2 DEF Ordered, e, n
    <3> QED
      BY <1>6, <1>7, <2>1, <2>2, <3>1 DEF Placed, Ordered
  <2>3. CASE ~stack[i].is_convergence
    <3>1. \A j \in 1..i-1 : ~stack[j].is_convergence /\ stack'[j] = stack[j]
      BY <1>2, <1>7, <2>1, <2>3 DEF Placed, n
    <3>2. stack[i].pc \in PendingAt(program, e)
      BY <1>2, <1>4, <2>1, <2>3 DEF Ordered, e
    <3> QED
      BY <1>7, <2>1, <2>3, <3>1, <3>2 DEF Placed, Ordered
  <2> QED
    BY <2>2, <2>3
<1>10. Placed(program, stack', e, n)
  BY <1>6, <1>7 DEF Placed
<1>11. Nested(program, stack', e)
  <2>1. n - 1 \in Nat /\ n - 1 <= Len(stack) /\ (n - 1) + 1 = n /\ Len(stack) \in Nat
    BY <1>2 DEF n
  <2>2. \A i \in 1..n : Placed(program, stack', e, i)
    BY <1>2, <1>9, <1>10
  <2> QED
    BY <1>3, <1>7, <1>9, <2>1, <2>2, PushNested
<1> QED
  BY <1>1, <1>11 DEF StackNested

\* Case B of bra: the joins that are left are at the target or after it.
LEMMA MergeNested ==
  ASSUME AllJoinable, IInv, StackNested, BraMerge
  PROVE  StackNested'
<1> DEFINE n == Len(stack)
<1>1. /\ Fetch({"bra"}) /\ IsMerge /\ program' = program
      /\ pc \in DOMAIN program /\ program[pc].op = "bra" /\ pc' = Target
      /\ Target = program[pc].target
  BY DEF BraMerge, program, Fetch, Target
<1>2. stack \in Seq(Frames) /\ n \in Nat /\ n \in 1..Len(stack) /\ Top = stack[n]
  BY <1>1 DEF IInv, TypeOK, Frames, IsMerge, Top
<1>3. /\ Nested(program, stack, pc) /\ JoinableAt(program, pc)
      /\ \A i \in 1..n : stack[i].is_convergence => stack[i].pc \in JoinsAt(program, pc)
  BY <1>1, AtFetch
<1>4. Nested(program, stack, Target)
  <2>1. /\ JoinsAt(program, pc) \subseteq JoinsAt(program, Target) \cup {Target}
        /\ PendingAt(program, pc) \subseteq PendingAt(program, Target)
    BY <1>1, <1>3 DEF JoinableAt
  <2>2. stack[n].is_convergence
    BY <1>1, <1>2 DEF IsMerge
  <2> QED
    BY <1>2, <1>3, <2>1, <2>2, MoveNested
<1>5. n - 1 \in Nat /\ (n - 1) + 1 = n /\ Len(stack') = n - 1 /\ \A i \in 1..n-1 : stack'[i] = stack[i]
  <2>1. n - 1 \in 0..Len(stack) /\ n - 1 \in Nat /\ (n - 1) + 1 = n
    BY <1>2
  <2>2. stack' = SubSeq(stack, 1, n - 1)
    BY DEF BraMerge, Popped
  <2> QED
    BY <1>2, <2>1, <2>2, CutSeq
<1>6. Nested(program, stack', Target)
  BY <1>2, <1>4, <1>5, PopNested
<1> QED
  BY <1>1, <1>6 DEF StackNested

\* Paths part: the joins ahead are ahead of both, and a path is left pending
\* only where no join is ahead.
LEMMA SplitNested ==
  ASSUME AllJoinable, IInv, StackNested, NEW taken \in SUBSET mask, taken # mask, taken # {},
         CondBra(taken)
  PROVE  StackNested'
<1> DEFINE n == Len(stack)
           f == Frame(pc + 1, mask \ taken, FALSE)
<1>1. /\ Fetch({"cbra"}) /\ program' = program
      /\ pc \in DOMAIN program /\ program[pc].op = "cbra" /\ pc' = Target
      /\ Target = program[pc].target /\ stack' = Append(stack, f)
  BY DEF CondBra, program, Fetch, Target
<1>2. stack \in Seq(Frames) /\ n \in Nat
  BY DEF IInv, TypeOK, Frames
<1>3. /\ Nested(program, stack, pc) /\ JoinableAt(program, pc)
      /\ \A i \in 1..n : stack[i].is_convergence => stack[i].pc \in JoinsAt(program, pc)
  BY <1>1, AtFetch
<1>4. pc \in Nat /\ Target \in DOMAIN program /\ Target \in Nat /\ pc + 1 \in Addresses
  <2>1. DOMAIN program \subseteq Nat
    BY WarpAssumption DEF program, IInv, TypeOK
  <2> QED
    BY <1>1, <2>1, Fetched
<1>5. /\ Len(stack') = n + 1 /\ \A i \in 1..n : stack'[i] = stack[i]
      /\ stack'[n + 1].pc = pc + 1 /\ ~stack'[n + 1].is_convergence
  <2>1. f \in Frames
    BY <1>4 DEF Frame, Frames, IInv, TypeOK
  <2>2. f.pc = pc + 1 /\ ~f.is_convergence
    BY DEF Frame
  <2> HIDE DEF f
  <2> QED
    BY <1>1, <1>2, <2>1, <2>2, AppendProperties
<1>6. /\ SavedAt(program, pc) = {} /\ PendingAt(program, pc) \subseteq PendingAt(program, pc + 1)
      /\ JoinsAt(program, pc) \subseteq JoinsAt(program, Target)
      /\ PendingAt(program, pc) \subseteq PendingAt(program, Target)
      /\ JoinsAt(program, pc) \subseteq JoinsAt(program, pc + 1)
      /\ pc \notin IfElses(program) => JoinsAt(program, pc) = {}
  BY <1>1, <1>3 DEF JoinableAt, Follows
<1> HIDE DEF n, f
<1>7. ASSUME NEW i \in 1..n
      PROVE  Placed(program, stack', Target, i) /\ Ordered(program, stack', i, n + 1)
  <2>1. i \in 1..Len(stack) /\ stack'[i] = stack[i] /\ Placed(program, stack, pc, i)
    BY <1>3, <1>5 DEF Nested, n
  <2>2. CASE stack[i].is_convergence
    <3>1. stack[i].pc \in JoinsAt(program, pc)
      BY <1>3, <2>2
    <3>2. stack[i].pc \in JoinsAt(program, Target) /\ stack[i].pc \in JoinsAt(program, pc + 1)
      BY <1>6, <3>1
    <3> QED
      BY <1>5, <2>1, <2>2, <3>2 DEF Placed, Ordered
  <2>3. CASE ~stack[i].is_convergence
    <3>1. /\ stack[i].pc \in PendingAt(program, pc)
          /\ \A j \in 1..i-1 : ~stack[j].is_convergence
      BY <1>6, <2>1, <2>3 DEF Placed
    <3>2. \A j \in 1..i-1 : ~stack'[j].is_convergence
      <4>1. \A j \in 1..i-1 : j \in 1..n
        BY <1>2, <2>1 DEF n
      <4> QED
        BY ONLY <1>5, <3>1, <4>1
    <3>3. /\ stack[i].pc \in PendingAt(program, Target)
          /\ stack[i].pc \in PendingAt(program, pc + 1)
      BY <1>6, <3>1
    <3> QED
      BY <1>5, <2>1, <2>3, <3>2, <3>3 DEF Placed, Ordered
  <2> QED
    BY <2>2, <2>3
<1>8. Placed(program, stack', Target, n + 1)
  <2>1. pc \in Branches(program)
    BY <1>1 DEF Branches
  <2>2. CASE pc \in IfElses(program)
    <3>1. Target \in TakenPath(program, pc)
      BY <1>1, <1>4 DEF TakenPath
    <3>2. pc + 1 \in SavedAt(program, Target)
      BY <2>2, <3>1 DEF SavedAt
    <3> QED
      BY <1>5, <3>2 DEF Placed
  <2>3. CASE pc \notin IfElses(program)
    <3>1. Target \in Heads(program, pc)
      BY <1>1 DEF Heads
    <3>2. pc + 1 \in PendingAt(program, Target)
      BY <1>4, <2>1, <2>3, <3>1 DEF PendingAt
    <3>3. \A j \in 1..n : ~stack'[j].is_convergence
      BY <1>3, <1>5, <1>6, <2>3
    <3>4. \A j \in 1..(n+1)-1 : ~stack'[j].is_convergence
      BY <1>2, <3>3
    <3> QED
      BY <1>5, <3>2, <3>4 DEF Placed
  <2> QED
    BY <2>2, <2>3
<1>9. Nested(program, stack', Target)
  <2>1. \A i \in 1..n+1 : Placed(program, stack', Target, i)
    BY <1>2, <1>7, <1>8
  <2> QED
    BY <1>2, <1>3, <1>5, <1>7, <2>1, PushNested DEF n
<1> QED
  BY <1>1, <1>9 DEF StackNested

\* At a ret no path waits for a join.
RetOutside == Fetch({"ret"}) => \A i \in 1..Len(stack) : ~stack[i].is_convergence

LEMMA RetIsOutside ==
  ASSUME AllJoinable, IInv, StackNested
  PROVE  RetOutside
<1> SUFFICES ASSUME Fetch({"ret"})
             PROVE  \A i \in 1..Len(stack) : ~stack[i].is_convergence
  BY DEF RetOutside
<1>1. JoinsAt(program, pc) = {}
  BY AtFetch DEF Fetch, JoinableAt
<1> QED
  BY <1>1, AtFetch

\* ret: the path resumed finds the stack as it left it.
LEMMA RetNested ==
  ASSUME AllJoinable, IInv, StackNested, Ret
  PROVE  StackNested'
<1>1. Fetch({"ret"}) /\ program' = program
  BY DEF Ret, program
<1>2. /\ Nested(program, stack, pc) /\ stack \in Seq(Frames) /\ Len(stack) \in Nat
      /\ \A i \in 1..Len(stack) : ~stack[i].is_convergence
  BY <1>1, AtFetch, RetIsOutside DEF RetOutside, IInv, TypeOK, Frames
<1>3. CASE pc' = EOC
  BY <1>3 DEF StackNested
<1>4. ASSUME NEW n \in 1..Len(stack), stack' = SubSeq(stack, 1, n - 1), pc' = stack[n].pc
      PROVE  StackNested'
  <2>1. /\ n - 1 \in Nat /\ n - 1 <= Len(stack) /\ Len(stack') = n - 1
        /\ \A i \in 1..n-1 : stack'[i] = stack[i]
    <3>1. n - 1 \in 0..Len(stack)
      BY <1>2
    <3> QED
      BY <1>2, <1>4, <3>1, CutSeq
  <2>2. ASSUME NEW i \in 1..n-1
        PROVE  Placed(program, stack', pc', i)
    <3>1. /\ i \in 1..Len(stack) /\ stack'[i] = stack[i] /\ Ordered(program, stack, i, n)
          /\ \A j \in 1..i-1 : stack'[j] = stack[j] /\ j \in 1..Len(stack)
      BY <1>2, <2>1 DEF Nested
    <3> QED
      BY <1>2, <1>4, <3>1 DEF Placed, Ordered
  <2>3. Nested(program, stack', pc')
    BY <1>2, <2>1, <2>2, CutNested
  <2> QED
    BY <1>1, <2>3 DEF StackNested
<1> QED
  BY <1>3, <1>4 DEF Ret, Saved

LEMMA NextNested ==
  ASSUME AllJoinable, IInv, StackNested, [Next]_vars
  PROVE  StackNested'
<1>1. stack \in Seq(Frames) /\ Len(stack) \in Nat
  BY DEF IInv, TypeOK, Frames
<1>2. ASSUME UNCHANGED <<kernel, pc, stack>>
      PROVE  StackNested'
  BY <1>2 DEF StackNested, Nested, Placed, Ordered, program
<1>3. CASE Converge
  <2> DEFINE n == Len(stack) - 1
  <2>1. Len(stack) \in 1..Len(stack) /\ n \in 0..Len(stack) /\ n \in Nat /\ n + 1 = Len(stack)
    BY <1>1, <1>3 DEF Converge, AtConvergence
  <2>2. Len(stack') = n /\ \A i \in 1..n : stack'[i] = stack[i]
    BY <1>1, <1>3, <2>1, CutSeq DEF Converge, Popped
  <2>3. pc # EOC => Nested(program, stack', pc)
    BY <1>1, <2>1, <2>2, PopNested DEF StackNested
  <2> QED
    BY <1>3, <2>3 DEF Converge, StackNested, program
<1>4. CASE Plain
  <2>1. Fetch({"plain", "bar"}) /\ UNCHANGED <<kernel, stack>> /\ pc' = pc + 1
    BY <1>4 DEF Plain
  <2>2. Follows(program, pc, pc + 1)
    BY <2>1, AtFetch DEF Fetch, JoinableAt
  <2> QED
    BY <2>1, <2>2, MoveStack DEF Follows
<1>5. CASE BraJump
  <2>1. /\ Fetch({"bra"}) /\ ~IsSwap /\ UNCHANGED <<kernel, stack>> /\ pc' = Target
        /\ program[pc].op = "bra" /\ Target = program[pc].target
    BY <1>5 DEF BraJump, Fetch, Target
  <2>2. JoinableAt(program, pc)
    BY <2>1, AtFetch
  <2>3. ASSUME NEW i \in 1..Len(stack), i = Len(stack), ~stack[i].is_convergence,
               stack[i].pc \in SavedAt(program, pc)
        PROVE  FALSE
    <3>1. Target > pc /\ stack[i].pc < Target
      BY <2>1, <2>2, <2>3 DEF JoinableAt
    <3>2. stack # <<>> /\ Top = stack[i]
      BY <1>1, <2>3 DEF Top
    <3> QED
      BY <2>1, <2>3, <3>1, <3>2 DEF IsSwap
  <2> QED
    BY <2>1, <2>2, <2>3, MoveStack DEF JoinableAt
<1>6. ASSUME NEW taken \in SUBSET mask, CondBra(taken)
      PROVE  StackNested'
  <2>1. /\ Fetch({"cbra"}) /\ UNCHANGED kernel /\ program[pc].op = "cbra"
        /\ Target = program[pc].target
    BY <1>6 DEF CondBra, Fetch, Target
  <2>2. JoinableAt(program, pc)
    BY <2>1, AtFetch
  <2>3. CASE taken = mask \/ taken = {}
    <3>1. UNCHANGED stack /\ pc' \in {Target, pc + 1}
      BY <1>6, <2>3 DEF CondBra
    <3>2. /\ JoinsAt(program, pc) \subseteq JoinsAt(program, pc') \cup {pc'}
          /\ PendingAt(program, pc) \subseteq PendingAt(program, pc')
          /\ SavedAt(program, pc) = {}
      BY <2>1, <2>2, <3>1 DEF JoinableAt, Follows
    <3> QED
      BY <2>1, <3>1, <3>2, MoveStack
  <2>4. CASE taken # mask /\ taken # {}
    BY <1>6, <2>4, SplitNested
  <2> QED
    BY <2>3, <2>4
<1>7. CASE Exit
  BY <1>7 DEF Exit, StackNested
<1>8. CASE NoInstruction \/ End \/ UNCHANGED vars
  BY <1>2, <1>8 DEF NoInstruction, End, vars
<1> QED
  BY <1>3, <1>4, <1>5, <1>6, <1>7, <1>8, SwapNested, MergeNested, RetNested
     DEF Next, Step, Stopped

\* The stack of a joinable program is always as its text says.
LEMMA NestedCorrect ==
  ASSUME AllJoinable
  PROVE  Spec => []StackNested
<1>1. Init => StackNested
  BY DEF Init, StackNested, Nested
<1>2. IInv /\ StackNested /\ [Next]_vars => StackNested'
  BY NextNested
<1> QED
  BY <1>1, <1>2, Invariance, PTL DEF Spec

-----------------------------------------------------------------------------
(***************************************************************************)
(* Reconvergence, for every joinable program and every warp size: when a   *)
(* bar is executed, every lane that has not ended executes it.             *)
(***************************************************************************)
THEOREM BarCorrect ==
  ASSUME AllJoinable
  PROVE  Spec => []BarTogether
<1>1. ASSUME IInv, StackNested, Fetch({"bar"})
      PROVE  mask = Live
  <2>1. program[pc].op = "bar" /\ pc # EOC /\ mask \subseteq Lanes
    BY <1>1, Fetched DEF Fetch, IInv, TypeOK
  <2>2. \A i \in 1..Len(stack) : FALSE
    BY <1>1, <2>1, AtFetch DEF JoinableAt, Nested, Placed
  <2>3. \A l \in Lanes : FramesWith(l) = {}
    BY <2>2 DEF FramesWith
  <2> QED
    BY <2>1, <2>3 DEF Live, LanePc
<1>2. IInv /\ StackNested => BarTogether
  BY <1>1 DEF BarTogether
<1> QED
  BY <1>2, Invariance, NestedCorrect, PTL

-----------------------------------------------------------------------------
(***************************************************************************)
(* Where a lane is, as a function of the warp's counter q, mask m and      *)
(* stack s.                                                                *)
(***************************************************************************)
With(s, l) == {i \in 1..Len(s) : l \in s[i].mask}
Where(q, m, s, l) ==
  IF l \in m THEN q
  ELSE IF With(s, l) = {} THEN EOC
  ELSE s[CHOOSE i \in With(s, l) : \A j \in With(s, l) : j <= i].pc

LEMMA LanePcIs ==
  /\ LanePc = [l \in Lanes |-> Where(pc, mask, stack, l)]
  /\ LanePc' = [l \in Lanes |-> Where(pc', mask', stack', l)]
  BY DEF LanePc, Where, With, FramesWith

\* A set of positions that is not empty has a last one.
Less == {xy \in Nat \X Nat : xy[1] < xy[2]}

LEMMA LessWellFounded == IsWellFoundedOn(Less, Nat)
  BY NatLessThanWellFounded, Zenon DEF Less, OpToRel

LEMMA LastPosition ==
  ASSUME NEW n \in Nat, NEW S, S \subseteq 1..n, S # {}
  PROVE  \E i \in S : \A j \in S : j <= i
<1> DEFINE T == {k \in Nat : n - k \in S}
<1>1. T # {}
  <2>1. PICK i \in S : TRUE
    OBVIOUS
  <2>2. n - i \in Nat /\ n - (n - i) = i
    BY <2>1
  <2> QED
    BY <2>1, <2>2
<1>2. PICK k \in T : \A y \in T : ~(<<y, k>> \in Less)
  <2> HIDE DEF T
  <2>1. T \subseteq Nat
    BY DEF T
  <2> QED
    BY <1>1, <2>1, LessWellFounded, WFMin
<1>3. n - k \in S /\ k \in Nat
  OBVIOUS
<1>4. ASSUME NEW j \in S
      PROVE  j <= n - k
  <2>1. n - j \in Nat /\ n - (n - j) = j /\ j \in Nat
    OBVIOUS
  <2>2. n - j \in T
    BY <2>1
  <2>3. ~(n - j < k)
    BY <1>2, <1>3, <2>1, <2>2 DEF Less
  <2> QED
    BY <1>3, <2>1, <2>3
<1> QED
  BY <1>3, <1>4

\* A lane that is not active is where the last frame that holds it says.
LEMMA WhereLast ==
  ASSUME NEW q, NEW m, NEW s, NEW l, Len(s) \in Nat, l \notin m, NEW i \in 1..Len(s),
         l \in s[i].mask, \A j \in i+1..Len(s) : l \notin s[j].mask
  PROVE  Where(q, m, s, l) = s[i].pc
<1>1. i \in With(s, l) /\ \A j \in With(s, l) : j <= i
  BY DEF With
<1>2. \A k \in With(s, l) : (\A j \in With(s, l) : j <= k) => k = i
  BY <1>1 DEF With
<1>3. (CHOOSE k \in With(s, l) : \A j \in With(s, l) : j <= k) = i
  BY <1>1, <1>2
<1> QED
  BY <1>1, <1>3 DEF Where

\* A lane of neither path stays where it is when what changes of the stack
\* is above position n.
LEMMA WhereBystander ==
  ASSUME NEW q, NEW m, NEW s, NEW r, NEW w, NEW t, NEW l, Len(s) \in Nat, Len(t) \in Nat,
         l \notin m, l \notin w, NEW n \in Nat, n <= Len(s), n <= Len(t),
         \A i \in 1..n : t[i] = s[i],
         \A i \in n+1..Len(s) : l \notin s[i].mask,
         \A i \in n+1..Len(t) : l \notin t[i].mask
  PROVE  Where(q, m, s, l) = Where(r, w, t, l)
<1>1. With(s, l) \subseteq 1..n /\ With(t, l) \subseteq 1..n
  BY DEF With
<1>2. With(s, l) = With(t, l)
  BY <1>1 DEF With
<1>3. CASE With(s, l) = {}
  BY <1>2, <1>3 DEF Where
<1>4. CASE With(s, l) # {}
  <2> DEFINE k == CHOOSE i \in With(s, l) : \A j \in With(s, l) : j <= i
  <2>1. k \in With(s, l)
    BY <1>1, <1>4, LastPosition
  <2>2. t[k] = s[k]
    BY <1>1, <2>1
  <2> HIDE DEF k
  <2> QED
    BY <1>2, <1>4, <2>2 DEF Where, k
<1> QED
  BY <1>3, <1>4

\* In particular, when the top frame, which does not hold it, is popped or
\* replaced by one that does not hold it either.
LEMMA WhereBelow ==
  ASSUME NEW q, NEW m, NEW s, NEW r, NEW w, NEW t, NEW l, Len(s) \in Nat,
         l \notin m, l \notin w, NEW n \in 1..Len(s), n = Len(s), l \notin s[n].mask,
         \A i \in 1..n-1 : t[i] = s[i],
         Len(t) = n - 1 \/ (Len(t) = n /\ l \notin t[n].mask)
  PROVE  Where(q, m, s, l) = Where(r, w, t, l)
<1> DEFINE k == n - 1
<1>1. k \in Nat /\ k <= Len(s) /\ k <= Len(t) /\ Len(t) \in Nat /\ k + 1 = n
  OBVIOUS
<1>2. (\A i \in k+1..Len(s) : l \notin s[i].mask) /\ \A i \in 1..k : t[i] = s[i]
  OBVIOUS
<1>3. \A i \in k+1..Len(t) : l \notin t[i].mask
  OBVIOUS
<1> HIDE DEF k
<1> QED
  BY <1>1, <1>2, <1>3, WhereBystander

-----------------------------------------------------------------------------
\* What MaskDiscipline says of the top frame.
LEMMA TopFrame ==
  ASSUME IInv, stack # <<>>
  PROVE  /\ Len(stack) \in 1..Len(stack) /\ Top = stack[Len(stack)]
         /\ Top.is_convergence => mask \subseteq Top.mask
         /\ ~Top.is_convergence => mask \cap Top.mask = {}
<1>1. stack \in Seq(Frames)
  BY DEF IInv, TypeOK, Frames
<1>2. Len(stack) \in 1..Len(stack) /\ Top = stack[Len(stack)]
  BY <1>1 DEF Top
<1> QED
  BY <1>2 DEF IInv, MaskDiscipline

\* It suffices to say where each lane goes.
LEMMA LaneStep ==
  ASSUME kernel' = kernel, NEW a \in DOMAIN program,
         \A l \in Lanes :
           \/ Where(pc', mask', stack', l) = Where(pc, mask, stack, l)
           \/ /\ Where(pc, mask, stack, l) = a
              /\ Where(pc', mask', stack', l) \in Lane!Successors(a)
  PROVE  Lane!Next
<1>1. program' = program
  BY DEF program
<1>2. \A l \in Lanes : \/ LanePc'[l] = LanePc[l]
                       \/ LanePc[l] = a /\ LanePc'[l] \in Lane!Successors(a)
  BY LanePcIs
<1> QED
  BY <1>1, <1>2 DEF Lane!Next

LEMMA LanesStay ==
  ASSUME kernel' = kernel,
         \A l \in Lanes : Where(pc', mask', stack', l) = Where(pc, mask, stack, l)
  PROVE  UNCHANGED <<program, LanePc>>
  BY LanePcIs DEF program

\* The lanes of a convergence frame were all there already.
LEMMA ConvergeLanes ==
  ASSUME IInv, Converge
  PROVE  UNCHANGED <<program, LanePc>>
<1> DEFINE n == Len(stack)
<1>1. /\ stack # <<>> /\ Top.is_convergence /\ Top.pc = pc /\ stack' = SubSeq(stack, 1, n - 1)
      /\ mask' = Top.mask /\ UNCHANGED <<kernel, pc>>
  BY DEF Converge, AtConvergence, Popped
<1>2. /\ n \in 1..n /\ Top = stack[n] /\ mask \subseteq Top.mask /\ n \in Nat
      /\ stack \in Seq(Frames)
  BY <1>1, TopFrame DEF IInv, TypeOK, Frames
<1>3. Len(stack') = n - 1 /\ \A i \in 1..n-1 : stack'[i] = stack[i]
  BY ONLY <1>1, <1>2, PopSeq
<1> HIDE DEF n
<1>4. ASSUME NEW l \in Lanes
      PROVE  Where(pc', mask', stack', l) = Where(pc, mask, stack, l)
  <2>1. CASE l \in mask
    BY <1>1, <1>2, <2>1 DEF Where
  <2>2. CASE l \in Top.mask /\ l \notin mask
    <3>1. Where(pc, mask, stack, l) = Top.pc
      BY <1>2, <2>2, WhereLast DEF n
    <3> QED
      BY <1>1, <2>2, <3>1 DEF Where
  <2>3. CASE l \notin Top.mask
    <3>1. l \notin mask /\ l \notin mask' /\ l \notin stack[n].mask
      BY <1>1, <1>2, <2>3
    <3> QED
      BY ONLY <1>2, <1>3, <3>1, WhereBelow DEF n
  <2> QED
    BY <2>1, <2>2, <2>3
<1> QED
  BY <1>1, <1>4, LanesStay

\* An action that leaves the mask and the stack alone takes the active lanes
\* to a successor of the instruction.
LEMMA MoveLanes ==
  ASSUME IInv, NEW ops, Fetch(ops), UNCHANGED <<kernel, mask, stack>>,
         pc' \in Lane!Successors(pc)
  PROVE  Lane!Next
<1>1. pc \in DOMAIN program /\ Len(stack) \in Nat
  BY Fetched DEF IInv, TypeOK
<1>2. ASSUME NEW l \in Lanes
      PROVE  \/ Where(pc', mask', stack', l) = Where(pc, mask, stack, l)
             \/ Where(pc, mask, stack, l) = pc /\ Where(pc', mask', stack', l) = pc'
  BY DEF Where
<1> QED
  BY <1>1, <1>2, LaneStep

\* The lanes that branch wait at the join, those of the saved path run.
LEMMA SwapLanes ==
  ASSUME IInv, BraSwap
  PROVE  Lane!Next
<1> DEFINE n == Len(stack)
           f == Frame(Target, mask \cup Top.mask, TRUE)
<1>1. /\ Fetch({"bra"}) /\ stack # <<>> /\ ~Top.is_convergence
      /\ mask' = Top.mask /\ pc' = Top.pc /\ UNCHANGED kernel
      /\ program[pc].op = "bra" /\ pc \in DOMAIN program
  BY DEF BraSwap, IsSwap, Fetch
<1>2. n \in 1..n /\ Top = stack[n] /\ mask \cap Top.mask = {} /\ n \in Nat
  BY <1>1, TopFrame, SwapStack
<1>3. f.pc = Target /\ f.mask = mask \cup Top.mask
  BY SwapStack
<1>4. Len(stack') = n /\ (\A i \in 1..n-1 : stack'[i] = stack[i]) /\ stack'[n] = f
  BY SwapStack
<1> HIDE DEF n, f
<1>5. ASSUME NEW l \in Lanes
      PROVE  \/ Where(pc', mask', stack', l) = Where(pc, mask, stack, l)
             \/ Where(pc, mask, stack, l) = pc /\ Where(pc', mask', stack', l) = Target
  <2>1. CASE l \in mask
    <3>1. l \notin mask' /\ l \in stack'[n].mask /\ \A j \in n+1..n : l \notin stack'[j].mask
      BY <1>1, <1>2, <1>3, <1>4, <2>1
    <3>2. Where(pc', mask', stack', l) = Target
      BY <1>2, <1>3, <1>4, <3>1, WhereLast
    <3> QED
      BY <2>1, <3>2 DEF Where
  <2>2. CASE l \in Top.mask
    <3>1. l \notin mask
      BY <1>2, <2>2
    <3>2. Where(pc, mask, stack, l) = Top.pc
      BY <1>2, <2>2, <3>1, WhereLast DEF n
    <3> QED
      BY <1>1, <2>2, <3>2 DEF Where
  <2>3. CASE l \notin mask /\ l \notin Top.mask
    <3>1. l \notin mask' /\ l \notin stack[n].mask /\ l \notin stack'[n].mask
      BY <1>1, <1>2, <1>3, <1>4, <2>3
    <3> QED
      BY ONLY <1>2, <1>4, <2>3, <3>1, WhereBelow DEF n
  <2> QED
    BY <2>1, <2>2, <2>3
<1>6. Target \in Lane!Successors(pc)
  BY <1>1 DEF Lane!Successors, Target
<1> QED
  BY <1>1, <1>5, <1>6, LaneStep

\* The lanes that branch meet those that wait at the target.
LEMMA MergeLanes ==
  ASSUME IInv, BraMerge
  PROVE  Lane!Next
<1> DEFINE n == Len(stack)
<1>1. /\ Fetch({"bra"}) /\ stack # <<>> /\ Top.is_convergence /\ Top.pc = Target
      /\ stack' = SubSeq(stack, 1, n - 1) /\ mask' = Top.mask /\ pc' = Target
      /\ UNCHANGED kernel /\ program[pc].op = "bra" /\ pc \in DOMAIN program
  BY DEF BraMerge, IsMerge, Popped, Fetch
<1>2. /\ n \in 1..n /\ Top = stack[n] /\ mask \subseteq Top.mask /\ n \in Nat
      /\ stack \in Seq(Frames)
  BY <1>1, TopFrame DEF IInv, TypeOK, Frames
<1>3. Len(stack') = n - 1 /\ \A i \in 1..n-1 : stack'[i] = stack[i]
  BY ONLY <1>1, <1>2, PopSeq
<1> HIDE DEF n
<1>4. ASSUME NEW l \in Lanes
      PROVE  \/ Where(pc', mask', stack', l) = Where(pc, mask, stack, l)
             \/ Where(pc, mask, stack, l) = pc /\ Where(pc', mask', stack', l) = Target
  <2>1. CASE l \in mask
    BY <1>1, <1>2, <2>1 DEF Where
  <2>2. CASE l \in Top.mask /\ l \notin mask
    <3>1. Where(pc, mask, stack, l) = Top.pc
      BY <1>2, <2>2, WhereLast DEF n
    <3> QED
      BY <1>1, <2>2, <3>1 DEF Where
  <2>3. CASE l \notin Top.mask
    <3>1. l \notin mask /\ l \notin mask' /\ l \notin stack[n].mask
      BY <1>1, <1>2, <2>3
    <3> QED
      BY ONLY <1>2, <1>3, <3>1, WhereBelow DEF n
  <2> QED
    BY <2>1, <2>2, <2>3
<1>5. Target \in Lane!Successors(pc)
  BY <1>1 DEF Lane!Successors, Target
<1> QED
  BY <1>1, <1>4, <1>5, LaneStep

\* The lanes that take the branch are at its target, the others after it.
LEMMA SplitLanes ==
  ASSUME IInv, NEW taken \in SUBSET mask, taken # mask, taken # {}, CondBra(taken)
  PROVE  Lane!Next
<1> DEFINE n == Len(stack)
           f == Frame(pc + 1, mask \ taken, FALSE)
<1>1. /\ Fetch({"cbra"}) /\ stack' = Append(stack, f) /\ mask' = taken /\ pc' = Target
      /\ UNCHANGED kernel /\ program[pc].op = "cbra" /\ pc \in DOMAIN program
  BY DEF CondBra, Fetch
<1>2. n \in Nat /\ stack \in Seq(Frames)
  BY DEF IInv, TypeOK, Frames
<1>3. f \in Frames /\ f.pc = pc + 1 /\ f.mask = mask \ taken
  <2>1. pc + 1 \in Addresses
    BY <1>1, Fetched
  <2> QED
    BY <2>1 DEF Frame, Frames, IInv, TypeOK
<1> HIDE DEF f
<1>4. /\ Len(stack') = n + 1 /\ \A i \in 1..n : stack'[i] = stack[i]
      /\ stack'[n + 1] = f
  BY <1>1, <1>2, <1>3, AppendProperties
<1> HIDE DEF n
<1>5. ASSUME NEW l \in Lanes
      PROVE  \/ Where(pc', mask', stack', l) = Where(pc, mask, stack, l)
             \/ /\ Where(pc, mask, stack, l) = pc
                /\ Where(pc', mask', stack', l) \in {Target, pc + 1}
  <2>1. CASE l \in taken
    BY <1>1, <2>1 DEF Where
  <2>2. CASE l \in mask \ taken
    <3>1. n + 1 \in 1..Len(stack') /\ \A j \in (n+1)+1..Len(stack') : l \notin stack'[j].mask
      BY <1>2, <1>4
    <3>2. Where(pc', mask', stack', l) = pc + 1
      <4>1. l \notin mask' /\ l \in stack'[n + 1].mask /\ Len(stack') \in Nat
        BY <1>1, <1>2, <1>3, <1>4, <2>2
      <4>2. Where(pc', mask', stack', l) = stack'[n + 1].pc
        BY <3>1, <4>1, WhereLast
      <4> QED
        BY <1>3, <1>4, <4>2
    <3> QED
      BY <2>2, <3>2 DEF Where
  <2>3. CASE l \notin mask
    <3>1. /\ l \notin mask' /\ Len(stack') \in Nat /\ n <= n /\ n <= Len(stack')
          /\ \A i \in n+1..Len(stack) : l \notin stack[i].mask
          /\ \A i \in n+1..Len(stack') : l \notin stack'[i].mask
      <4>1. l \notin mask' /\ l \notin stack'[n + 1].mask
        BY <1>1, <1>3, <1>4, <2>3
      <4>2. /\ Len(stack') \in Nat /\ n <= n /\ n <= Len(stack')
            /\ \A i \in n+1..Len(stack') : i = n + 1
        BY ONLY <1>2, <1>4
      <4>3. \A i \in n+1..Len(stack) : FALSE
        BY ONLY <1>2 DEF n
      <4> QED
        BY <4>1, <4>2, <4>3
    <3>2. /\ n \in Nat /\ Len(stack) \in Nat /\ n <= Len(stack)
          /\ \A i \in 1..n : stack'[i] = stack[i]
      BY ONLY <1>2, <1>4 DEF n
    <3> QED
      BY ONLY <2>3, <3>1, <3>2, WhereBystander
  <2> QED
    BY <2>1, <2>2, <2>3
<1>6. {Target, pc + 1} \subseteq Lane!Successors(pc)
  BY <1>1 DEF Lane!Successors, Target
<1> QED
  BY <1>1, <1>5, <1>6, LaneStep

\* The lanes that return are on no frame, and the path resumed is that of the
\* top frame: ret discards no convergence frame, and with it no lane.
LEMMA RetLanes ==
  ASSUME IInv, RetOutside, Ret
  PROVE  Lane!Next
<1>1. /\ Fetch({"ret"}) /\ UNCHANGED kernel /\ program[pc].op = "ret" /\ pc \in DOMAIN program
      /\ \A i \in 1..Len(stack) : ~stack[i].is_convergence
  BY DEF Ret, Fetch, RetOutside
<1>2. Len(stack) \in Nat /\ stack \in Seq(Frames)
  BY DEF IInv, TypeOK, Frames
<1>3. EOC \in Lane!Successors(pc)
  BY <1>1 DEF Lane!Successors
<1>4. CASE Saved = {} /\ stack' = <<>> /\ pc' = EOC /\ UNCHANGED mask
  <2>1. \A i \in 1..Len(stack) : FALSE
    BY <1>1, <1>4 DEF Saved
  <2>2. ASSUME NEW l \in Lanes
        PROVE  \/ Where(pc', mask', stack', l) = Where(pc, mask, stack, l)
               \/ Where(pc, mask, stack, l) = pc /\ Where(pc', mask', stack', l) = EOC
    <3>1. With(stack, l) = {} /\ With(stack', l) = {}
      BY <1>4, <2>1 DEF With
    <3> QED
      BY <1>4, <3>1 DEF Where
  <2> QED
    BY <1>1, <1>3, <2>2, LaneStep
<1>5. ASSUME NEW n \in Saved, IsLastSaved(n), stack' = SubSeq(stack, 1, n - 1),
             pc' = stack[n].pc, mask' = stack[n].mask
      PROVE  Lane!Next
  <2>1. n = Len(stack) /\ n \in Nat /\ n \in 1..n /\ Len(stack) \in Saved
    <3>1. n \in 1..Len(stack) /\ Len(stack) \in 1..Len(stack)
      BY <1>2 DEF Saved
    <3>2. Len(stack) \in Saved
      BY <1>1, <3>1 DEF Saved
    <3> QED
      BY <1>2, <1>5, <3>1, <3>2 DEF IsLastSaved
  <2>2. Len(stack') = n - 1 /\ \A i \in 1..n-1 : stack'[i] = stack[i]
    BY ONLY <1>2, <1>5, <2>1, PopSeq
  <2>3. \A i \in 1..n : mask \cap stack[i].mask = {}
    BY <1>1, <2>1 DEF IInv, MaskDiscipline
  <2>4. ASSUME NEW l \in Lanes
        PROVE  \/ Where(pc', mask', stack', l) = Where(pc, mask, stack, l)
               \/ Where(pc, mask, stack, l) = pc /\ Where(pc', mask', stack', l) = EOC
    <3>1. CASE l \in mask
      <4>1. l \notin mask' /\ \A i \in 1..n-1 : l \notin stack'[i].mask
        <5>1. \A i \in 1..n : l \notin stack[i].mask
          BY ONLY <2>3, <3>1
        <5>2. \A i \in 1..n-1 : i \in 1..n
          BY ONLY <2>1
        <5> QED
          BY <1>5, <2>1, <2>2, <5>1, <5>2
      <4>2. With(stack', l) = {}
        BY <2>2, <4>1 DEF With
      <4> QED
        BY <3>1, <4>1, <4>2 DEF Where
    <3>2. CASE l \in stack[n].mask
      <4>1. l \notin mask
        BY <2>1, <2>3, <3>2
      <4>2. Where(pc, mask, stack, l) = stack[n].pc
        BY <2>1, <3>2, <4>1, WhereLast
      <4> QED
        BY <1>5, <3>2, <4>2 DEF Where
    <3>3. CASE l \notin mask /\ l \notin stack[n].mask
      <4>1. l \notin mask'
        BY <1>5, <3>3
      <4> QED
        BY ONLY <2>1, <2>2, <3>3, <4>1, WhereBelow
    <3> QED
      BY <3>1, <3>2, <3>3
  <2> QED
    BY <1>1, <1>3, <2>4, LaneStep
<1> QED
  BY <1>4, <1>5 DEF Ret

\* Each step of a warp, in which no ret finds a path that waits for a join,
\* is a step of its lanes.
LEMMA LaneSimulation ==
  ASSUME IInv, RetOutside, [Next]_vars
  PROVE  Lane!Next \/ UNCHANGED <<program, LanePc>>
<1>1. ASSUME UNCHANGED <<kernel, pc, mask, stack>>
      PROVE  UNCHANGED <<program, LanePc>>
  BY <1>1, LanesStay
<1>2. CASE Plain
  <2>1. Fetch({"plain", "bar"}) /\ UNCHANGED <<kernel, mask, stack>> /\ pc' = pc + 1
    BY <1>2 DEF Plain
  <2>2. pc' \in Lane!Successors(pc)
    BY <2>1 DEF Lane!Successors, Fetch
  <2> QED
    BY <2>1, <2>2, MoveLanes
<1>3. CASE BraJump
  <2>1. Fetch({"bra"}) /\ UNCHANGED <<kernel, mask, stack>> /\ pc' = Target
    BY <1>3 DEF BraJump
  <2>2. pc' \in Lane!Successors(pc)
    BY <2>1 DEF Lane!Successors, Fetch, Target
  <2> QED
    BY <2>1, <2>2, MoveLanes
<1>4. ASSUME NEW taken \in SUBSET mask, CondBra(taken)
      PROVE  Lane!Next
  <2>1. CASE taken = mask \/ taken = {}
    <3>1. Fetch({"cbra"}) /\ UNCHANGED <<kernel, mask, stack>> /\ pc' \in {Target, pc + 1}
      BY <1>4, <2>1 DEF CondBra
    <3>2. pc' \in Lane!Successors(pc)
      BY <3>1 DEF Lane!Successors, Fetch, Target
    <3> QED
      BY <3>1, <3>2, MoveLanes
  <2> QED
    BY <1>4, <2>1, SplitLanes
<1>5. CASE Exit
  <2>1. Fetch({"exit"}) /\ UNCHANGED <<kernel, mask, stack>> /\ pc' = EOC
    BY <1>5 DEF Exit
  <2>2. pc' \in Lane!Successors(pc)
    BY <2>1 DEF Lane!Successors, Fetch
  <2> QED
    BY <2>1, <2>2, MoveLanes
<1>6. CASE NoInstruction \/ End \/ UNCHANGED vars
  BY <1>1, <1>6 DEF NoInstruction, End, vars
<1> QED
  BY <1>2, <1>3, <1>4, <1>5, <1>6, ConvergeLanes, SwapLanes, MergeLanes, RetLanes
     DEF Next, Step, Stopped

(***************************************************************************)
(* The PDOM stack implements the program: for every joinable program and   *)
(* every warp size, each lane runs the program as a thread of its own      *)
(* would, and a step of the warp is a step of lanes that are together.     *)
(***************************************************************************)
THEOREM LanesCorrect ==
  ASSUME AllJoinable
  PROVE  Spec => LanesFollowProgram
<1>1. Init => Lane!Init(0)
  <2> SUFFICES ASSUME Init PROVE LanePc = [l \in Lanes |-> 0]
    BY DEF Lane!Init
  <2> QED
    BY DEF Init, LanePc
<1>2. IInv /\ StackNested /\ [Next]_vars => [Lane!Next]_(Lane!vars)
  BY RetIsOutside, LaneSimulation DEF Lane!vars
<1> QED
  BY <1>1, <1>2, Invariance, NestedCorrect, PTL DEF Spec, LanesFollowProgram, Lane!Spec
=============================================================================
