--------------------------- MODULE AtomicsProofs ----------------------------
(***************************************************************************)
(* Proofs about module Atomics.  That atom and red compute what PTX says   *)
(* is a fact about two operators (Computes).  That they do so at one       *)
(* instant rests on nobody writing a cell between a lane's read and its    *)
(* write (NotStale), which holds where warps are Exclusive: either one     *)
(* thread executes them, or no two of them use one cell.                   *)
(***************************************************************************)
EXTENDS Atomics, TLAPS

Exclusive ==
  \/ OneThread
  \/ \A v, w \in Warps : v # w =>
       \A i \in Code[v], j \in Code[w] :
         \A l \in i.mask, m \in j.mask : i.cell[l] # j.cell[m]

USE AtomicsAssumption

LEMMA WordsClosed ==
  ASSUME NEW i \in Instructions, NEW old \in Words, NEW a \in Words, NEW b \in Words
  PROVE  NewValue(i, old, a, b) \in Words
<1>1. i.op \in Ops
  BY DEF Instructions
<1>2. (old + a) % (2 * Half) \in Words
  <2>1. old + a \in Int /\ 2 * Half \in Nat \ {0}
    BY DEF Words
  <2> HIDE DEF Words
  <2> DEFINE m == 2 * Half
             n == old + a
  <2>2. n \in Int /\ m \in Nat \ {0}
    BY <2>1
  <2> HIDE DEF m, n
  <2>3. n % m \in 0..m - 1
    BY <2>2
  <2> QED
    BY <2>3 DEF Words, m, n
<1>3. CASE i.op \in {"add", "min", "max", "exch", "cas"}
  BY <1>2, <1>3 DEF NewValue
<1>4. CASE i.op \in {"inc", "dec"}
  <2>1. old \in Nat /\ a \in Nat /\ old < 2 * Half /\ a < 2 * Half
    BY DEF Words
  <2>2. (IF old >= a THEN 0 ELSE old + 1) \in Words
    BY <2>1 DEF Words
  <2>3. (IF old = 0 \/ old > a THEN a ELSE old - 1) \in Words
    BY <2>1 DEF Words
  <2> QED
    BY <1>4, <2>2, <2>3 DEF NewValue
<1>5. CASE i.op \in {"and", "or", "xor"}
  BY <1>5 DEF NewValue
<1> QED
  BY <1>1, <1>3, <1>4, <1>5 DEF Ops

\* The switch over op_ computes what PTX says, for every type, word and operand.
THEOREM Computes ==
  ASSUME NEW i \in Instructions, NEW l \in Lanes, NEW old \in Words
  PROVE  NewValue(i, old, i.operand[l], i.second[l]) = Atomic!Meaning(Request(i, l), old)
<1> DEFINE a == i.operand[l]
           b == i.second[l]
           r == Request(i, l)
<1>1. /\ i.op \in Ops /\ a \in Words /\ b \in Words /\ i.signed \in BOOLEAN
      /\ i.op \in {"inc", "dec"} => ~i.signed
  BY DEF Instructions
<1>2. r.op = i.op /\ r.signed = i.signed /\ r.operand = a /\ r.second = b
  BY DEF Request
<1> HIDE DEF a, b, r
<1>3. Less(old, a, i.signed) => Atomic!Precedes(old, a, i.signed)
  BY <1>1 DEF Less, Value, Words, Atomic!Precedes
<1>4. Less(a, old, i.signed) <=> ~Atomic!Precedes(old, a, i.signed)
  BY <1>1 DEF Less, Value, Words, Atomic!Precedes
<1>5. ~Less(old, a, i.signed) /\ ~Less(a, old, i.signed) => old = a
  BY <1>1 DEF Less, Value, Words
<1>6. NewValue(i, old, a, b) = Atomic!Meaning(r, old)
  <2>1. CASE i.op = "min"
    BY <1>1, <1>2, <1>3, <1>4, <1>5, <2>1 DEF NewValue, Atomic!Meaning
  <2>2. CASE i.op = "max"
    BY <1>1, <1>2, <1>3, <1>4, <1>5, <2>2 DEF NewValue, Atomic!Meaning
  <2>3. CASE i.op \in {"add", "exch", "cas"}
    BY <1>1, <1>2, <2>3 DEF NewValue, Atomic!Meaning
  <2>4. CASE i.op \in {"inc", "dec"}
    BY <1>1, <1>2, <2>4 DEF NewValue, Atomic!Meaning, Words
  <2>5. CASE i.op \in {"and", "or", "xor"}
    BY <1>1, <1>2, <2>5 DEF NewValue, Atomic!Meaning
  <2> QED
    BY <1>1, <2>1, <2>2, <2>3, <2>4, <2>5 DEF Ops
<1> QED
  BY <1>6 DEF a, b, r

(***************************************************************************)
(* Type correctness: one step for each action.                             *)
(***************************************************************************)
LEMMA TypesKept == TypeOK /\ [Next]_vars => TypeOK'
<1>. SUFFICES ASSUME TypeOK, [Next]_vars PROVE TypeOK'
  OBVIOUS
<1>0. \A w \in Warps : Code[w] \subseteq Instructions /\ NoInstruction \notin Instructions
  BY DEF NoInstruction, Instructions, Ops
<1>1. CASE UNCHANGED vars
  BY <1>1 DEF TypeOK, vars, Busy, AtLane
<1>2. ASSUME NEW w \in Warps, NEW i \in Code[w], Issue(w, i) PROVE TypeOK'
  BY <1>0, <1>2 DEF TypeOK, Issue, Busy, AtLane
<1>3. ASSUME NEW w \in Warps, Inactive(w) PROVE TypeOK'
  <2>1. lid' = [lid EXCEPT ![w] = lid[w] + 1] /\ lid[w] + 1 \in 0..WarpSize /\ ~loaded[w]
    BY <1>3 DEF TypeOK, Inactive, AtLane, Lanes
  <2> QED
    BY <1>3, <2>1 DEF TypeOK, Inactive, Busy, AtLane
<1>4. ASSUME NEW w \in Warps, Load(w) PROVE TypeOK'
  <2>1. memory[instr[w].cell[lid[w]]] \in Words
    BY <1>0, <1>4 DEF TypeOK, Load, AtLane, Busy, Instructions
  <2> QED
    BY <1>4, <2>1 DEF TypeOK, Load, Busy, AtLane
<1>5. ASSUME NEW w \in Warps, Store(w) PROVE TypeOK'
  <2>1. /\ instr[w] \in Instructions /\ lid[w] \in Lanes
        /\ instr[w].operand[lid[w]] \in Words /\ instr[w].second[lid[w]] \in Words
    BY <1>0, <1>5 DEF TypeOK, Store, AtLane, Busy, Instructions
  <2>2. Written(w) \in Words
    BY <2>1, WordsClosed DEF Written, TypeOK
  <2>3. memory' \in [Cells -> Words] /\ dst' \in [Threads -> Words]
    BY <1>5, <2>2 DEF TypeOK, Store
  <2>4. lid' = [lid EXCEPT ![w] = lid[w] + 1] /\ lid[w] + 1 \in 0..WarpSize
    BY <1>5, <2>1 DEF TypeOK, Store, Lanes
  <2> QED
    BY <1>5, <2>3, <2>4 DEF TypeOK, Store, Busy, AtLane
<1>6. ASSUME NEW w \in Warps, Finish(w) PROVE TypeOK'
  <2>1. ~loaded[w]
    BY <1>6 DEF TypeOK, Finish, AtLane, Lanes
  <2> QED
    BY <1>6, <2>1 DEF TypeOK, Finish, Busy, AtLane
<1> QED
  BY <1>1, <1>2, <1>3, <1>4, <1>5, <1>6 DEF Next, Step, Over

LEMMA InitTypes == Init => TypeOK
<1>1. 0 \in Words /\ 0 \in 0..WarpSize
  BY DEF Words
<1> QED
  BY <1>1 DEF Init, TypeOK, Busy

\* Words stay words, and a value is held only for a lane that executes, for
\* every warp size, word size and program, in both builds.
THEOREM TypeCorrect == Spec => []TypeOK
  BY InitTypes, TypesKept, PTL DEF Spec

-----------------------------------------------------------------------------
\* With one thread, one instruction is executed at a time.
OneAtATime ==
  OneThread => \A v, w \in Warps : Busy(v) /\ Busy(w) => v = w

IInv == TypeOK /\ OneAtATime /\ NotStale

\* No two warps are between the read and the write of one cell.
LEMMA Apart ==
  ASSUME Exclusive, TypeOK, OneAtATime,
         NEW v \in Warps, NEW w \in Warps, v # w, loaded[v], loaded[w]
  PROVE  instr[v].cell[lid[v]] # instr[w].cell[lid[w]]
<1>1. /\ Busy(v) /\ instr[v] \in Code[v] /\ lid[v] \in instr[v].mask
      /\ Busy(w) /\ instr[w] \in Code[w] /\ lid[w] \in instr[w].mask
  BY DEF TypeOK, AtLane
<1> QED
  BY <1>1 DEF Exclusive, OneAtATime

LEMMA StaleKept ==
  ASSUME Exclusive, IInv, [Next]_vars
  PROVE  OneAtATime' /\ NotStale'
<1>. USE DEF IInv
<1>1. CASE UNCHANGED vars
  BY <1>1 DEF vars, OneAtATime, NotStale, Busy
<1>2. ASSUME NEW w \in Warps, NEW i \in Code[w], Issue(w, i)
      PROVE  OneAtATime' /\ NotStale'
  <2>1. ~loaded[w] /\ instr \in [Warps -> Instructions \cup {NoInstruction}]
    BY <1>2 DEF TypeOK, Issue, AtLane
  <2> QED
    BY <1>2, <2>1 DEF Issue, OneAtATime, NotStale, Busy, TypeOK
<1>3. ASSUME NEW w \in Warps, Inactive(w)
      PROVE  OneAtATime' /\ NotStale'
  <2>1. ~loaded[w]
    BY <1>3 DEF TypeOK, Inactive
  <2> QED
    BY <1>3, <2>1 DEF Inactive, OneAtATime, NotStale, Busy, TypeOK
<1>4. ASSUME NEW w \in Warps, Load(w)
      PROVE  OneAtATime' /\ NotStale'
  BY <1>4 DEF Load, OneAtATime, NotStale, Busy, TypeOK
<1>5. ASSUME NEW w \in Warps, Store(w)
      PROVE  OneAtATime' /\ NotStale'
  <2>1. OneAtATime'
    BY <1>5 DEF Store, OneAtATime, Busy
  <2>2. ASSUME NEW v \in Warps, loaded'[v]
        PROVE  old_val'[v] = memory'[instr'[v].cell[lid'[v]]]
    <3>1. v # w /\ loaded[v] /\ loaded[w] /\ lid'[v] = lid[v]
      BY <1>5, <2>2 DEF Store, TypeOK
    <3>2. instr[v].cell[lid[v]] # instr[w].cell[lid[w]]
      BY <3>1, Apart
    <3>3. memory'[instr[v].cell[lid[v]]] = memory[instr[v].cell[lid[v]]]
      <4>1. instr[v].cell[lid[v]] \in Cells
        BY <3>1 DEF TypeOK, AtLane, Busy, Instructions, NoInstruction
      <4> QED
        BY <1>5, <3>2, <4>1 DEF Store, TypeOK
    <3> QED
      BY <1>5, <3>1, <3>3 DEF Store, NotStale
  <2> QED
    BY <2>1, <2>2 DEF NotStale
<1>6. ASSUME NEW w \in Warps, Finish(w)
      PROVE  OneAtATime' /\ NotStale'
  <2>1. ~loaded[w]
    BY <1>6 DEF TypeOK, Finish, AtLane, Lanes
  <2> QED
    BY <1>6, <2>1 DEF Finish, OneAtATime, NotStale, Busy, TypeOK
<1> QED
  BY <1>1, <1>2, <1>3, <1>4, <1>5, <1>6 DEF Next, Step, Over

LEMMA Invariance ==
  ASSUME Exclusive
  PROVE  Spec => []IInv
<1>1. Init => IInv
  BY InitTypes DEF Init, IInv, OneAtATime, NotStale, Busy
<1>2. IInv /\ [Next]_vars => IInv'
  BY TypesKept, StaleKept DEF IInv
<1> QED
  BY <1>1, <1>2, PTL DEF Spec

\* Where warps are exclusive, no read of atom or red goes stale before the write.
THEOREM ReadsStayFresh ==
  ASSUME Exclusive
  PROVE  Spec => []NotStale
<1>1. IInv => NotStale
  BY DEF IInv
<1> QED
  BY <1>1, Invariance, PTL
-----------------------------------------------------------------------------
(***************************************************************************)
(* The refinement.  Only Issue and Store change what is pending; the other *)
(* steps stutter.                                                          *)
(***************************************************************************)
LEMMA RequestTyped ==
  ASSUME NEW i \in Instructions, NEW l \in Lanes
  PROVE  Request(i, l) \in Atomic!Requests /\ Request(i, l) # NoInstruction
<1>1. /\ i.op \in Ops /\ i.returns \in BOOLEAN /\ i.signed \in BOOLEAN
      /\ i.cell[l] \in Cells /\ i.operand[l] \in Words /\ i.second[l] \in Words
  BY DEF Instructions
<1>2. Request(i, l).op # NoInstruction.op
  BY <1>1 DEF Request, NoInstruction, Ops
<1> QED
  BY <1>1, <1>2 DEF Request, Atomic!Requests, Atomic!Ops, Ops, Atomic!Words, Words

\* What is pending of one warp depends on its instruction and its lane only.
LEMMA PendingLocal ==
  ASSUME TypeOK, NEW v \in Warps, NEW l \in Lanes,
         instr'[v] = instr[v], lid'[v] = lid[v]
  PROVE  Pending'[<<v, l>>] = Pending[<<v, l>>]
  BY DEF Pending, Waiting, Busy, Threads

LEMMA StepRefines ==
  ASSUME IInv, [Next]_vars
  PROVE  [Atomic!Next]_(Atomic!vars)
<1>. USE DEF IInv
<1>0. /\ instr \in [Warps -> Instructions \cup {NoInstruction}] /\ lid \in [Warps -> 0..WarpSize]
      /\ \A w \in Warps : Busy(w) => instr[w] \in Instructions
  BY DEF TypeOK, Busy
<1>1. ASSUME memory' = memory, dst' = dst,
             \A v \in Warps, l \in Lanes : Pending'[<<v, l>>] = Pending[<<v, l>>]
      PROVE  [Atomic!Next]_(Atomic!vars)
  <2>1. Pending' = Pending
    BY <1>1 DEF Pending, Threads
  <2> QED
    BY <1>1, <2>1 DEF Atomic!vars
<1>2. CASE UNCHANGED vars
  BY <1>1, <1>2, PendingLocal DEF vars
<1>3. ASSUME NEW w \in Warps, NEW i \in Code[w], Issue(w, i)
      PROVE  Atomic!Submit
  <2>1. i \in Instructions /\ i # NoInstruction
    BY DEF Instructions, NoInstruction, Ops
  <2>2. ASSUME NEW v \in Warps, NEW l \in Lanes
        PROVE  /\ Pending'[<<v, l>>] \in Atomic!Requests \cup {NoInstruction}
               /\ Pending[<<v, l>>] # NoInstruction => Pending'[<<v, l>>] = Pending[<<v, l>>]
    <3>1. CASE v = w
      <4>1. Pending[<<v, l>>] = NoInstruction
        BY <1>3, <3>1 DEF Pending, Waiting, Threads, Issue
      <4>2. Pending'[<<v, l>>] \in {Request(i, l), NoInstruction}
        BY <1>0, <1>3, <2>1, <3>1 DEF Pending, Waiting, Threads, Issue, Busy
      <4> QED
        BY <2>1, <4>1, <4>2, RequestTyped
    <3>2. CASE v # w
      <4>1. Pending'[<<v, l>>] = Pending[<<v, l>>]
        BY <1>0, <1>3, <3>2, PendingLocal DEF Issue
      <4>2. Pending[<<v, l>>] \in {Request(instr[v], l), NoInstruction} /\ (Pending[<<v, l>>] # NoInstruction => Busy(v))
        BY DEF Pending, Waiting, Threads
      <4> QED
        BY <1>0, <4>1, <4>2, RequestTyped
    <3> QED
      BY <3>1, <3>2
  <2>3. Pending' = [t \in Threads |-> Pending'[t]]
    BY DEF Pending
  <2>4. \A t \in Threads : t = <<t[1], t[2]>> /\ t[1] \in Warps /\ t[2] \in Lanes
    BY DEF Threads
  <2>5. \A t \in Threads :
          /\ Pending'[t] \in Atomic!Requests \cup {NoInstruction}
          /\ Pending[t] # NoInstruction => Pending'[t] = Pending[t]
    BY <2>2, <2>4
  <2>6. Pending' \in [Threads -> Atomic!Requests \cup {NoInstruction}]
    BY <2>3, <2>5
  <2> QED
    BY <1>3, <2>5, <2>6 DEF Issue, Atomic!Submit, Atomic!NoRequest, NoInstruction
<1>4. ASSUME NEW w \in Warps, Inactive(w)
      PROVE  [Atomic!Next]_(Atomic!vars)
  <2>1. ASSUME NEW v \in Warps, NEW l \in Lanes
        PROVE  Pending'[<<v, l>>] = Pending[<<v, l>>]
    <3>1. CASE v = w
      <4>1. lid[w] \in Nat /\ l \in Nat /\ lid'[w] = lid[w] + 1 /\ instr' = instr
        BY <1>0, <1>4 DEF Inactive, Lanes
      <4>2. (l \in instr[w].mask /\ l >= lid[w]) <=> (l \in instr[w].mask /\ l >= lid[w] + 1)
        BY <1>4, <4>1 DEF Inactive
      <4> QED
        BY <3>1, <4>1, <4>2 DEF Pending, Waiting, Busy, Threads
    <3>2. CASE v # w
      BY <1>0, <1>4, <3>2, PendingLocal DEF Inactive
    <3> QED
      BY <3>1, <3>2
  <2> QED
    BY <1>1, <1>4, <2>1 DEF Inactive
<1>5. ASSUME NEW w \in Warps, Load(w)
      PROVE  [Atomic!Next]_(Atomic!vars)
  BY <1>1, <1>5, PendingLocal DEF Load
<1>6. ASSUME NEW w \in Warps, Store(w)
      PROVE  Atomic!Perform(<<w, lid[w]>>)
  <2> DEFINE i == instr[w]
             l == lid[w]
             t == <<w, l>>
             r == Request(i, l)
  <2>1. /\ Busy(w) /\ i \in Instructions /\ l \in Lanes /\ l \in i.mask /\ t \in Threads
        /\ old_val[w] = memory[i.cell[l]] /\ old_val[w] \in Words
    BY <1>0, <1>6 DEF Store, AtLane, TypeOK, NotStale, Threads
  <2>2. l \in Nat /\ l >= l
    BY <2>1 DEF Lanes
  <2>3. Pending[t] = r /\ r # NoInstruction
    BY <2>1, <2>2, RequestTyped DEF Pending, Waiting
  <2>4. r.cell = i.cell[l] /\ r.returns = i.returns
    BY DEF Request
  <2>5. Written(w) = Atomic!Meaning(r, memory[r.cell])
    BY <2>1, <2>4, Computes DEF Written
  <2>6. Pending' = [Pending EXCEPT ![t] = NoInstruction]
    <3>1. ASSUME NEW v \in Warps, NEW m \in Lanes, <<v, m>> # t
          PROVE  Pending'[<<v, m>>] = Pending[<<v, m>>]
      <4>1. CASE v = w
        <5>1. m \in Nat /\ m # l /\ lid'[w] = l + 1 /\ instr' = instr
          BY <1>0, <1>6, <3>1, <4>1 DEF Store, Lanes
        <5>2. m >= l <=> m >= l + 1
          BY <2>2, <5>1
        <5> QED
          BY <4>1, <5>1, <5>2 DEF Pending, Waiting, Busy, Threads
      <4>2. CASE v # w
        BY <1>0, <1>6, <4>2, PendingLocal DEF Store
      <4> QED
        BY <4>1, <4>2
    <3>2. Pending'[t] = NoInstruction
      <4>1. lid'[w] = l + 1 /\ ~(l >= l + 1)
        BY <1>0, <1>6, <2>2 DEF Store
      <4> QED
        BY <2>1, <4>1 DEF Pending, Waiting
    <3>3. ASSUME NEW u \in Threads
          PROVE  Pending'[u] = IF u = t THEN NoInstruction ELSE Pending[u]
      <4>1. CASE u = t
        BY <3>2, <4>1
      <4>2. CASE u # t
        <5>1. PICK v \in Warps, m \in Lanes : u = <<v, m>>
          BY DEF Threads
        <5> QED
          BY <3>1, <4>2, <5>1
      <4> QED
        BY <4>1, <4>2
    <3> QED
      BY <3>3 DEF Pending
  <2> HIDE DEF i, l, r
  <2>7. memory' = [memory EXCEPT ![r.cell] = Atomic!Meaning(r, memory[r.cell])]
    BY <1>6, <2>4, <2>5 DEF Store, i, l
  <2>8. dst' = IF r.returns THEN [dst EXCEPT ![t] = memory[r.cell]] ELSE dst
    BY <1>6, <2>1, <2>4 DEF Store, i, l
  <2> HIDE DEF t
  <2>9. Atomic!Perform(t)
    BY <2>3, <2>6, <2>7, <2>8 DEF Atomic!Perform, Atomic!NoRequest, NoInstruction
  <2> QED
    BY <2>9 DEF t, l
<1>7. ASSUME NEW w \in Warps, Finish(w)
      PROVE  [Atomic!Next]_(Atomic!vars)
  <2>1. ASSUME NEW v \in Warps, NEW l \in Lanes
        PROVE  Pending'[<<v, l>>] = Pending[<<v, l>>]
    <3>1. CASE v = w
      <4>1. ~(l >= lid[w])
        BY <1>7 DEF Finish, Lanes
      <4>2. instr'[w] = NoInstruction
        BY <1>0, <1>7 DEF Finish
      <4> QED
        BY <3>1, <4>1, <4>2 DEF Pending, Waiting, Busy, Threads
    <3>2. CASE v # w
      BY <1>0, <1>7, <3>2, PendingLocal DEF Finish
    <3> QED
      BY <3>1, <3>2
  <2> QED
    BY <1>1, <1>7, <2>1 DEF Finish
<1>8. ASSUME NEW w \in Warps, Store(w)
      PROVE  Atomic!Next
  <2>1. <<w, lid[w]>> \in Threads
    BY <1>8 DEF Store, AtLane, Threads
  <2> QED
    BY <1>6, <1>8, <2>1 DEF Atomic!Next
<1> QED
  BY <1>2, <1>3, <1>4, <1>5, <1>7, <1>8 DEF Next, Step, Over, Atomic!Next

\* Where warps are exclusive, atom and red are atomic: reading the cell,
\* computing and writing it back implement AtomicMemory.
THEOREM ImplementsAtomicMemory ==
  ASSUME Exclusive
  PROVE  Spec => AtomicSpec
<1>1. Init => Atomic!Init
  BY DEF Init, Atomic!Init, Pending, Waiting, Busy, Threads, Words, Atomic!Words,
         NoInstruction, Atomic!NoRequest
<1>2. IInv /\ [Next]_vars => [Atomic!Next]_(Atomic!vars)
  BY StepRefines
<1> QED
  BY <1>1, <1>2, Invariance, PTL DEF Spec, AtomicSpec, Atomic!Spec
=============================================================================
