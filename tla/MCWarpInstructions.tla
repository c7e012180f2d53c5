------------------------- MODULE MCWarpInstructions -------------------------
(***************************************************************************)
(* Instructions and registers for module WarpInstructions.  Words of 32    *)
(* bits, scaled to N = 4, take every value; words of 64 bits take values   *)
(* around the bounds.  A slot that holds a negative narrow value has zeros *)
(* or ones above it, as to_u64 or the wide products leave it.              *)
(***************************************************************************)
EXTENDS WarpInstructions

Words == 0..2^N - 1
Bounds64 == {0, 1, 5, 2^N - 1, 2^N, 2^(2 * N - 1) - 1, 2^(2 * N - 1), 2^(2 * N) - 1}

\* The slots a value of type T may be in.
Zeroed(T) == IF T.bits <= N THEN 0..2^T.bits - 1 ELSE Bounds64
Extended(T) == {v % 2^(2 * N) : v \in Values(s32) \cap Values([T EXCEPT !.signed = TRUE])}
Sources(T) == Zeroed(T) \cup (IF T.bits <= N THEN Extended(T) ELSE {})

Signed == {s16, s32, s64}
Unsigned == {u16, u32, u64}
Integers32 == {u32, s32}
Integers3264 == {u32, s32, u64, s64}
AllIntegers == Signed \cup Unsigned

Comparisons ==
  {"eq", "ne", "lt", "le", "gt", "ge", "lo", "ls", "hi", "hs", "equ", "neu", "ltu", "leu",
   "gtu", "geu", "num", "nan"}

Plain(ops, types) == [op : ops, type : types]
Moded(ops, types, modes) == [op : ops, type : types, mode : modes]
From(ops, types, froms) == [op : ops, type : types, from : froms]

ScalarInstrs ==
  Plain({"add", "sub", "min", "max"}, AllIntegers)
  \cup Plain({"addc", "subc", "rem", "sad"}, Integers3264)
  \cup Plain({"neg"}, Signed) \cup Plain({"abs"}, {s32, s64})
  \cup Plain({"selp"}, AllIntegers) \cup Plain({"slct"}, AllIntegers)
  \cup Moded({"setp"}, Integers32, Comparisons)
  \cup Moded({"setp"}, AllIntegers \ Integers32, {"eq", "lt", "ge"})
  \cup Moded({"set"}, {s16, u32, u64}, Comparisons)
  \cup Moded({"mul"}, {u16, s16, u32, s32}, {"lo", "hi", "wide", "none"})
  \cup Moded({"mul"}, {u64, s64}, {"lo", "hi"})
  \cup Moded({"mad"}, {u16, s16, u32, s32}, {"lo", "hi", "wide"})
  \cup Moded({"mad"}, {u64, s64}, {"lo", "hi"})
  \cup Moded({"madc"}, {u32}, {"lo", "hi", "wide"})
  \cup Moded({"mul24", "mad24"}, Integers32, {"lo"})
  \cup From({"szext"}, Integers3264, {u8, s8, u16, s16})
  \cup From({"cvt"}, AllIntegers \cup {u8, s8}, AllIntegers \cup {u8, s8})
  \cup Plain({"and", "or", "xor"}, {pred} \cup Unsigned)
  \cup Plain({"not"}, {pred} \cup Unsigned) \cup Plain({"cnot"}, Unsigned)
  \cup Plain({"shl"}, Unsigned) \cup Plain({"shr"}, AllIntegers)
  \cup [op : {"shf"}, type : {u32}, dir : {"l", "r"}, mode : {"clamp", "wrap"}]
  \cup Plain({"popc", "clz", "brev", "bfi"}, {u32, u64})
  \cup Plain({"bfe"}, Integers3264)
  \cup [op : {"bfind"}, type : {u64, s64}, shiftamt : BOOLEAN]
  \cup [op : {"lop3"}, type : {u32}, lut : {0, 1, 128, 150, 202, 234, 240, 255}]
  \cup Plain({"fns"}, {u32}) \cup Moded({"bmsk"}, {u32}, {"clamp", "wrap"})

\* up without a predicate, see the README.
LaneInstrs ==
  [op : {"shfl"}, mode : {"bfly", "down", "idx"}, predicate : BOOLEAN]
  \cup [op : {"shfl"}, mode : {"up"}, predicate : {FALSE}]
  \cup [op : {"vote"}, mode : {"any", "all", "uni", "ballot"}]
  \cup [op : {"activemask"}]

AllInstrs == ScalarInstrs \cup LaneInstrs

-----------------------------------------------------------------------------
Slots6(a, b, c, e) == [a |-> a, b |-> b, c |-> c, e |-> e, d |-> 0, p |-> 0]

\* Lane 0 alone, with the sources in the given sets.
Alone(as, bs, cs, es) ==
  {[execution_mask |-> {0},
    thread_regs |-> [l \in Lanes |->
      IF l = 0 THEN Slots6(s[1], s[2], s[3], s[4]) ELSE Slots6(0, 0, 0, 0)]]
   : s \in as \X bs \X cs \X es}

Zero == {0}
Few == {0, 3, 5, 6, 12, 15}
Counts(T) == 0..T.bits + 2

\* Addends of wide products that are values of the narrow type.
NarrowAddends(T) == {v % 2^(2 * N) : v \in Values(T)}

\* The starts from which the executors do what the ISA says; the others are
\* UnlikeStarts below.
ScalarStarts(i) ==
  LET T == i.type
      NotZero == {slot \in Sources(T) : slot % 2^T.bits # 0}
      NotAllOnes == {slot \in Sources(T) : slot # 2^(2 * N) - 1}
  IN  CASE i.op \in {"cvt", "szext"} -> Alone(Sources(i.from), Zero, Zero, Zero)
        [] i.op \in {"neg", "abs", "not", "popc", "clz", "brev"} ->
             Alone(Sources(T), Zero, Zero, Zero)
        [] i.op = "cnot" -> Alone(NotZero, Zero, Zero, Zero)
        [] i.op = "bfind" -> Alone(IF T.signed THEN NotAllOnes ELSE Sources(T), Zero, Zero, Zero)
        [] i.op \in {"shl", "shr"} -> Alone(Sources(T), 0..Promoted(T) - 1, Zero, Zero)
        [] i.op = "selp" -> Alone(Sources(T), Zeroed(T), {0, 1}, Zero)
        [] i.op = "slct" -> Alone(Sources(T), Zeroed(T), {1, 2^(N - 1) - 1}, Zero)
        [] i.op = "bfe"  ->
             Alone(Sources(T), IF T.signed THEN 0..T.bits - 1 ELSE Counts(T), Counts(T), Zero)
        [] i.op = "bfi"  -> Alone(Zeroed(T), Zeroed(T), Counts(T), Counts(T))
        [] i.op = "shf"  -> Alone(Words, Words, 0..2 * N, Zero)
        [] i.op = "lop3" -> Alone(Few, Few, Few, Zero)
        [] i.op = "fns"  -> Alone(Words, Words, 0..N + 1, Zero)
        [] i.op = "bmsk" -> Alone(IF i.mode = "clamp" THEN 0..N - 1 ELSE Words, Words, Zero, Zero)
        [] i.op \in {"mad", "madc"} /\ i.mode = "wide" ->
             Alone(Sources(T), Zeroed(T), NarrowAddends(T), Zero)
        [] i.op \in {"mad", "madc", "mad24", "sad"} -> Alone(Sources(T), Zeroed(T), Zeroed(T), Zero)
        [] OTHER -> Alone(Sources(T), Sources(T), Zero, Zero)

\* Any lanes may be active; the sources of lane l are l + 1, or a predicate.
\* Offsets stay below 2^N - WarpSize.
Offsets == [Lanes -> {0, 1, 3}] \cup {[l \in Lanes |-> n] : n \in 0..2^N - WarpSize - 1}
Masks == (SUBSET Lanes) \ {{}}

LaneStarts(i) ==
  IF i.op = "shfl"
  THEN {[execution_mask |-> m, thread_regs |-> [l \in Lanes |-> Slots6(l + 1, o[l], 0, 0)]]
        : m \in Masks, o \in Offsets}
  ELSE {[execution_mask |-> m, thread_regs |-> [l \in Lanes |-> Slots6(q[l], 0, 0, 0)]]
        : m \in Masks, q \in [Lanes -> {0, 1}]}

AllStarts(i) == IF i \in LaneInstrs THEN LaneStarts(i) ELSE ScalarStarts(i)

\* What the executors do not do as the ISA says; each family alone shows it.
WideInstrs == Moded({"mad"}, {u32, s32}, {"wide"})
Bfind32Instrs == [op : {"bfind"}, type : Integers32, shiftamt : BOOLEAN]
Bfind64Instrs == [op : {"bfind"}, type : {s64}, shiftamt : BOOLEAN]
High24Instrs == Moded({"mul24", "mad24"}, Integers32, {"hi"})
CnotInstrs == Plain({"cnot"}, Unsigned)
SlctInstrs == Plain({"slct"}, AllIntegers)
ShiftInstrs == Plain({"shl"}, Unsigned) \cup Plain({"shr"}, AllIntegers)
BfeInstrs == Plain({"bfe"}, {s32, s64})
BmskInstrs == Moded({"bmsk"}, {u32}, {"clamp"})

UnlikeInstrs ==
  UNION {WideInstrs, Bfind32Instrs, Bfind64Instrs, High24Instrs, CnotInstrs, SlctInstrs,
         ShiftInstrs, BfeInstrs, BmskInstrs}

UnlikeStarts(i) ==
  CASE i \in WideInstrs    -> Alone(Words, Words, Bounds64, Zero)
    [] i \in Bfind32Instrs -> Alone(Words, Zero, Zero, Zero)
    [] i \in Bfind64Instrs -> Alone({2^(2 * N) - 1}, Zero, Zero, Zero)
    [] i \in High24Instrs  -> Alone(Words, Words, Few, Zero)
    [] i \in CnotInstrs    -> Alone(Zero, Zero, Zero, Zero)
    [] i \in SlctInstrs    -> Alone(Few, Few, {0, 2^N - 1}, Zero)
    [] i \in ShiftInstrs   -> Alone(Zeroed(i.type), Promoted(i.type)..2 * N + 1, Zero, Zero)
    [] i \in BfeInstrs     -> Alone(Zeroed(i.type), i.type.bits..2 * N + 1, {1, N}, Zero)
    [] i \in BmskInstrs    -> Alone(N..2^N - 1, Words, Zero, Zero)
=============================================================================
