----------------------------- MODULE PtxMeaning -----------------------------
(***************************************************************************)
(* What the integer instructions of the PTX ISA promise, as relations      *)
(* between the source slots and the destination, with no word on how the   *)
(* result is computed: numbers are the two's complement readings of the    *)
(* low bits of a slot, bit instructions say which bits are set.  An        *)
(* instruction takes effect on all active lanes of a warp at once, and on  *)
(* nothing else.  Where the emulator has a simpler instruction than the    *)
(* ISA its own promise is stated, so that of these nothing is shown about  *)
(* the ISA:                                                                *)
(*   addc, subc and madc take no carry;                                    *)
(*   fns takes a mask and a count (ISA: a base and a signed offset too);   *)
(*   szext extends a narrow type (ISA: from a bit position);               *)
(*   cvt to a narrow signed type leaves zeros above it (ISA: the sign);    *)
(*   rem by 0 is 0 (ISA: unspecified);                                     *)
(*   shfl takes its offset whole and knows no segments, and vote,          *)
(*   activemask and shfl know no member mask but the active lanes; a lane  *)
(*   whose source is inactive gets its own value (ISA: undefined).         *)
(***************************************************************************)
EXTENDS Registers

CONSTANT Lanes   \* the threads of the warp, numbered from 0

VARIABLES
  instr,            \* the instruction
  execution_mask,   \* the active lanes
  registers,        \* the slots a, b, c, e (sources), d, p (destinations) of each lane
  finished          \* whether it has been executed

vars == <<instr, execution_mask, registers, finished>>

\* The number that the low bits of a slot stand for.
Number(T, slot) == CHOOSE v \in Values(T) : (slot - v) % 2^T.bits = 0

\* Slot d holds v as a T, with zeros above.
Holds(T, d, v) == d \in 0..2^T.bits - 1 /\ (d - v) % 2^T.bits = 0

\* Slot d holds the bits of product from width up, plus c, as a T.
HoldsUpper(T, width, d, product, c) ==
  \E high \in Values(T) :
    product - high * 2^width \in 0..2^width - 1 /\ Holds(T, d, high + c)

Size(n) == IF n < 0 THEN -n ELSE n

\* The comparisons that are true of two numbers.
TrueOf(m, n) ==
  {"num"} \cup (IF m = n THEN {"eq", "equ"} ELSE {"ne", "neu"})
    \cup (IF m <= n THEN {"le", "leu", "ls"} ELSE {"gt", "gtu", "hi"})
    \cup (IF m >= n THEN {"ge", "geu", "hs"} ELSE {"lt", "ltu", "lo"})

Double(T) == [T EXCEPT !.bits = 2 * @]
Low24Type(T) == [T EXCEPT !.bits = 3 * (N \div 4)]
AllOnes(bits) == 2^bits - 1

\* Relations between numbers: instruction i, source slots o, destination d.
\* The upper half of a product of 24-bit numbers starts at bit 16 of its 48.
ArithmeticMeans(i, o, d) ==
  LET T == i.type
      a == Number(T, o.a)
      b == Number(T, o.b)
      c == Number(T, o.c)
      a24 == Number(Low24Type(T), o.a)
      b24 == Number(Low24Type(T), o.b)
  IN  CASE i.op \in {"add", "addc"} -> Holds(T, d, a + b)
        [] i.op \in {"sub", "subc"} -> Holds(T, d, a - b)
        [] i.op = "neg"   -> Holds(T, d, -a)
        [] i.op = "abs"   -> \E v \in {a, -a} : v >= 0 /\ Holds(T, d, v)
        [] i.op = "min"   -> \E v \in {a, b} : v <= a /\ v <= b /\ Holds(T, d, v)
        [] i.op = "max"   -> \E v \in {a, b} : v >= a /\ v >= b /\ Holds(T, d, v)
        [] i.op = "sad"   -> \E v \in {a - b, b - a} : v >= 0 /\ Holds(T, d, v + c)
        [] i.op = "rem"   ->
             IF b = 0 THEN d = 0
             ELSE \E quotient \in -Size(a)..Size(a) :
                    LET r == a - quotient * b
                    IN  Size(r) < Size(b) /\ r * a >= 0 /\ Holds(T, d, r)
        [] i.op = "setp"  -> d = IF i.mode \in TrueOf(a, b) THEN 1 ELSE 0
        [] i.op = "set"   -> d = IF i.mode \in TrueOf(a, b) THEN AllOnes(N) ELSE 0
        [] i.op = "selp"  -> Holds(T, d, IF o.c = 0 THEN b ELSE a)
        [] i.op = "slct"  -> Holds(T, d, IF Number(s32, o.c) >= 0 THEN a ELSE b)
        [] i.op \in {"szext", "cvt"} -> Holds(T, d, Number(i.from, o.a))
        [] i.op = "mul" /\ i.mode = "hi" -> HoldsUpper(T, T.bits, d, a * b, 0)
        [] i.op = "mul" /\ i.mode = "wide" -> Holds(u64, d, a * b)
        [] i.op = "mul" -> Holds(T, d, a * b)
        [] i.op \in {"mad", "madc"} /\ i.mode = "hi" -> HoldsUpper(T, T.bits, d, a * b, c)
        [] i.op \in {"mad", "madc"} /\ i.mode = "wide" ->
             Holds(u64, d, a * b + Number(Double(T), o.c))
        [] i.op \in {"mad", "madc"} -> Holds(T, d, a * b + c)
        [] i.op = "mul24" /\ i.mode = "lo" -> Holds(T, d, a24 * b24)
        [] i.op = "mul24" -> HoldsUpper(T, N \div 2, d, a24 * b24, 0)
        [] i.op = "mad24" /\ i.mode = "lo" -> Holds(T, d, a24 * b24 + c)
        [] i.op = "mad24" -> HoldsUpper(T, N \div 2, d, a24 * b24, c)

ArithmeticOps ==
  {"add", "addc", "sub", "subc", "neg", "abs", "min", "max", "sad", "rem", "setp", "set",
   "selp", "slct", "szext", "cvt", "mul", "mad", "madc", "mul24", "mad24"}

-----------------------------------------------------------------------------
\* A number cut at a bound, or taken modulo it.
Limited(mode, n, bound) == IF mode = "wrap" THEN n % bound ELSE IF n < bound THEN n ELSE bound

\* The lowest and the highest of the words that index rows of a lop3 table
\* are those of PTX: 0xF0, 0xCC and 0xAA.
TableColumns == [a |-> {4, 5, 6, 7}, b |-> {2, 3, 6, 7}, c |-> {1, 3, 5, 7}]

\* Relations between sets of bits.  A bit of the source out of the word is 0.
BitsMean(i, o, d) ==
  LET T == i.type
      all == 0..T.bits - 1
      D == BitsOf(d)
      A == BitsOf(o.a) \cap all
      B == BitsOf(o.b) \cap all
      C == BitsOf(o.c) \cap all
      b == o.b % 2^N
      c == o.c % 2^N
      field(pos, len) == pos..pos + len - 1
      negative == T.signed /\ T.bits - 1 \in A
  IN  CASE i.op = "and"  -> D = A \cap B
        [] i.op = "or"   -> D = A \cup B
        [] i.op = "xor"  -> D = {k \in all : (k \in A) # (k \in B)}
        [] i.op = "not"  -> D = all \ A
        [] i.op = "cnot" -> d = IF A = {} THEN 1 ELSE 0
        [] i.op = "shl"  -> D = {k \in all : k - b \in A}
        [] i.op = "shr"  ->
             D = {k \in all : IF k + b \in all THEN k + b \in A ELSE negative}
        [] i.op = "shf"  ->
             LET n == Limited(i.mode, c, N)
                 both == A \cup {k + N : k \in B}
             IN  D = {k \in all : (IF i.dir = "l" THEN k + N - n ELSE k + n) \in both}
        [] i.op = "popc" -> d = Cardinality(A)
        [] i.op = "clz"  ->
             /\ \A k \in A : k < T.bits - d
             /\ IF A = {} THEN d = T.bits ELSE T.bits - 1 - d \in A
        [] i.op = "brev" -> D = {k \in all : T.bits - 1 - k \in A}
        [] i.op = "bfe"  ->
             LET pos == b % (8 * N)
                 len == c % (8 * N)
                 last == Limited("clamp", pos + len - 1, T.bits - 1)
                 sign == T.signed /\ len # 0 /\ last \in A
             IN  D = {k \in all : IF pos + k \in field(pos, len) \cap all THEN pos + k \in A ELSE sign}
        [] i.op = "bfi"  ->
             LET pos == c % (8 * N)
             IN  D = {k \in all :
                       IF k \in field(pos, (o.e % 2^N) % (8 * N)) THEN k - pos \in A ELSE k \in B}
        [] i.op = "bfind" ->
             LET unlike == IF negative THEN all \ A ELSE A
             IN  d = IF unlike = {} THEN AllOnes(N)
                     ELSE IF i.shiftamt THEN T.bits - 1 - Max(unlike) ELSE Max(unlike)
        [] i.op = "lop3" ->
             D = {k \in all : \E row \in BitsOf(i.lut) :
                   /\ (row \in TableColumns.a) = (k \in A)
                   /\ (row \in TableColumns.b) = (k \in B)
                   /\ (row \in TableColumns.c) = (k \in C)}
        [] i.op = "fns"  ->
             \/ d \in A \cap B /\ Cardinality({k \in A \cap B : k < d}) = c - 1
             \/ d = AllOnes(N) /\ c \notin 1..Cardinality(A \cap B)
        [] i.op = "bmsk" ->
             LET pos == IF i.mode = "wrap" THEN (o.a % 2^N) % N ELSE o.a % 2^N
             IN  D = field(pos, Limited(i.mode, b, N)) \cap all

BitOps ==
  {"and", "or", "xor", "not", "cnot", "shl", "shr", "shf", "popc", "clz", "brev", "bfe", "bfi",
   "bfind", "lop3", "fns", "bmsk"}

-----------------------------------------------------------------------------
\* The lane that lane l reads; it may not exist.
Partner(mode, l, offset) ==
  CASE mode = "bfly" -> WordOf({k \in 0..2 * N - 1 : (k \in BitsOf(l)) # (k \in BitsOf(offset))})
    [] mode = "down" -> l + offset
    [] mode = "up"   -> l - offset
    [] mode = "idx"  -> offset

\* Relations between the registers of all the lanes.
VoteMeans(mode, d) ==
  LET yes == {l \in execution_mask : registers[l].a # 0}
  IN  CASE mode = "any"    -> d = IF yes # {} THEN 1 ELSE 0
        [] mode = "all"    -> d = IF yes = execution_mask THEN 1 ELSE 0
        [] mode = "uni"    -> d = IF yes \in {{}, execution_mask} THEN 1 ELSE 0
        [] mode = "ballot" -> BitsOf(d) = yes

\* The destinations of lane l after the instruction.
Means(l, d, p) ==
  LET o == registers[l]
      partner == Partner(instr.mode, l, o.b)
      valid == partner \in execution_mask
  IN  CASE instr.op \in ArithmeticOps -> ArithmeticMeans(instr, o, d) /\ p = o.p
        [] instr.op \in BitOps        -> BitsMean(instr, o, d) /\ p = o.p
        [] instr.op = "shfl"          ->
             /\ d = registers[IF valid THEN partner ELSE l].a
             /\ p = IF ~instr.predicate THEN o.p ELSE IF valid THEN 1 ELSE 0
        [] instr.op = "vote"          -> VoteMeans(instr.mode, d) /\ p = o.p
        [] instr.op = "activemask"    -> BitsOf(d) = execution_mask /\ p = o.p

Init == finished = FALSE

Execute ==
  /\ ~finished /\ finished'
  /\ \A l \in Lanes :
       LET after == registers'[l]
       IN  /\ after = [registers[l] EXCEPT !.d = after.d, !.p = after.p]
           /\ IF l \in execution_mask THEN Means(l, after.d, after.p) ELSE after = registers[l]
  /\ UNCHANGED <<instr, execution_mask>>

Spec == Init /\ [][Execute]_vars
=============================================================================
