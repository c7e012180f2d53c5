----------------------------- MODULE Registers ------------------------------
(***************************************************************************)
(* The slots of the register file and the typed values read from and       *)
(* written to them: reg_cast and to_u64 of executors.tpp.  A slot is an    *)
(* uint64_t that remembers no type; whoever reads it says which.  Widths   *)
(* are scaled: a PTX word of 32 bits has N bits here, one of 64 has 2 * N, *)
(* one of 16 has N / 2, and one of 8 has N / 4.                            *)
(***************************************************************************)
EXTENDS Integers, FiniteSets, FiniteSetsExt

CONSTANT N

ASSUME WidthAssumption == N \in {4, 8, 16, 32}

UInt(bits) == [bits |-> bits, signed |-> FALSE]
SInt(bits) == [bits |-> bits, signed |-> TRUE]

u8 == UInt(N \div 4)
s8 == SInt(N \div 4)
u16 == UInt(N \div 2)
s16 == SInt(N \div 2)
u32 == UInt(N)
s32 == SInt(N)
u64 == UInt(2 * N)
s64 == SInt(2 * N)
pred == UInt(1)

Slots == 0..2^(2 * N) - 1

\* The numbers a value of type T can be.
Values(T) ==
  IF T.signed THEN -(2^(T.bits - 1))..2^(T.bits - 1) - 1 ELSE 0..2^T.bits - 1

\* static_cast<T>(v): the value of T that differs from v by a multiple of 2^bits.
Cast(T, v) ==
  LET u == v % 2^T.bits
  IN  IF T.signed /\ u >= 2^(T.bits - 1) THEN u - 2^T.bits ELSE u

reg_cast(T, raw) == IF T = pred THEN (IF raw # 0 THEN 1 ELSE 0) ELSE Cast(T, raw)

\* to_u64(T(v)) for an integer v: zero-extended, whatever the sign.
to_u64(T, v) == v % 2^T.bits

\* The width of the register a T is shifted in: C++ promotes the small types.
Promoted(T) == IF T.bits < N THEN N ELSE T.bits

\* The positions of the bits that are set in a natural number, and back.
BitsOf(n) == {i \in 0..2 * N - 1 : (n \div 2^i) % 2 = 1}
WordOf(S) == MapThenSumSet(LAMBDA i : 2^i, S)
=============================================================================
