------------------------------ MODULE Executors -----------------------------
(***************************************************************************)
(* What the integer executors of executors.tpp write to the destination    *)
(* slot, as functions of the source slots.  An operand that is a register  *)
(* or an immediate is a slot either way.  T is the type in the mnemonic.   *)
(* Sums and products that overflow a signed type are undefined in C++; the *)
(* compiler's code wraps, and so do these.  Shift counts that are not less *)
(* than the width are undefined too; the processor takes them modulo the   *)
(* width of the (promoted) operand.                                        *)
(***************************************************************************)
EXTENDS Registers

Lesser(m, n) == IF m < n THEN m ELSE n

\* static_cast<uint32_t> of a slot.
Word32(raw) == raw % 2^N

\* The switches of setp and set, on integers: no integer is a NaN.
Compare(cmp, s1, s2) ==
  CASE cmp \in {"eq", "equ"}       -> s1 = s2
    [] cmp \in {"ne", "neu"}       -> s1 # s2
    [] cmp \in {"lt", "ltu", "lo"} -> s1 < s2
    [] cmp \in {"le", "leu", "ls"} -> s1 <= s2
    [] cmp \in {"gt", "gtu", "hi"} -> s1 > s2
    [] cmp \in {"ge", "geu", "hs"} -> s1 >= s2
    [] cmp = "num"                 -> TRUE
    [] OTHER                       -> FALSE

setp(cmp, T, a, b) == IF Compare(cmp, reg_cast(T, a), reg_cast(T, b)) THEN 1 ELSE 0

\* Every bit of the destination type, a 32-bit one.
set(cmp, T, a, b) ==
  IF Compare(cmp, reg_cast(T, a), reg_cast(T, b)) THEN to_u64(u32, -1) ELSE 0

selp(T, a, b, c) == to_u64(T, reg_cast(T, IF c # 0 THEN a ELSE b))

\* The condition of slct for integers is # 0, of type s32.
slct(T, a, b, c) == to_u64(T, reg_cast(T, IF reg_cast(s32, c) # 0 THEN a ELSE b))

add(T, a, b) == to_u64(T, reg_cast(T, a) + reg_cast(T, b))
sub(T, a, b) == to_u64(T, reg_cast(T, a) - reg_cast(T, b))

\* The carries are ignored.
addc(T, a, b) == add(T, a, b)
subc(T, a, b) == sub(T, a, b)

abs(T, a) ==
  LET val == reg_cast(T, a)
  IN  to_u64(T, IF val < 0 THEN -val ELSE val)

neg(T, a) == to_u64(T, -reg_cast(T, a))

min(T, a, b) ==
  LET s1 == reg_cast(T, a)
      s2 == reg_cast(T, b)
  IN  to_u64(T, IF s1 < s2 THEN s1 ELSE s2)

max(T, a, b) ==
  LET s1 == reg_cast(T, a)
      s2 == reg_cast(T, b)
  IN  to_u64(T, IF s1 > s2 THEN s1 ELSE s2)

\* The difference is a value of T before the sum is taken.
sad(T, a, b, c) ==
  LET s1 == reg_cast(T, a)
      s2 == reg_cast(T, b)
  IN  to_u64(T, Cast(T, IF s1 > s2 THEN s1 - s2 ELSE s2 - s1) + reg_cast(T, c))

\* A zero divisor gives 0; the remainder has the sign of the dividend.
rem(T, a, b) ==
  LET s1 == reg_cast(T, a)
      s2 == reg_cast(T, b)
      size == (IF s1 < 0 THEN -s1 ELSE s1) % (IF s2 < 0 THEN -s2 ELSE s2)
  IN  IF s2 = 0 THEN 0 ELSE to_u64(T, IF s1 < 0 THEN -size ELSE size)

\* The quotient behind the remainder is no value of T: the processor traps.
RemTraps(T, a, b) ==
  T.signed /\ reg_cast(T, a) = -(2^(T.bits - 1)) /\ reg_cast(T, b) = -1

mul(mode, T, a, b) ==
  LET wide == reg_cast(T, a) * reg_cast(T, b)
  IN  CASE mode = "hi"   -> to_u64(T, wide \div 2^T.bits)
        [] mode = "wide" -> to_u64(u64, wide)
        [] OTHER         -> to_u64(T, wide)

\* The addend is read as a T in every mode.
mad(mode, T, a, b, c) ==
  LET wide == reg_cast(T, a) * reg_cast(T, b)
      s3 == reg_cast(T, c)
  IN  CASE mode = "hi"   -> to_u64(T, (wide \div 2^T.bits) + s3)
        [] mode = "wide" -> to_u64(u64, wide + s3)
        [] OTHER         -> to_u64(T, wide + s3)

\* The carries are ignored.
madc(mode, T, a, b, c) == mad(mode, T, a, b, c)

\* The low 24 bits of a source, 8 less than a 32-bit word has.
Low24(T, raw) == Cast([T EXCEPT !.bits = @ - N \div 4], reg_cast(T, raw))

mul24(mode, T, a, b) ==
  LET wide == Low24(T, a) * Low24(T, b)
  IN  to_u64(T, IF mode = "lo" THEN wide ELSE wide \div 2^N)

mad24(mode, T, a, b, c) ==
  to_u64(T, mul24(mode, T, a, b) + reg_cast(T, c))

\* szext: the slot is cast to the narrow type, and that to T.
szext(T, ext, a) == to_u64(T, Cast(ext, a))

\* cvt of integers: T is the type of the result, from that of the source.
cvt(T, from, a) == to_u64(T, reg_cast(from, a))

-----------------------------------------------------------------------------
and(T, a, b) == WordOf(BitsOf(to_u64(T, reg_cast(T, a))) \cap BitsOf(to_u64(T, reg_cast(T, b))))
or(T, a, b) == WordOf(BitsOf(to_u64(T, reg_cast(T, a))) \cup BitsOf(to_u64(T, reg_cast(T, b))))
xor(T, a, b) ==
  LET s1 == BitsOf(to_u64(T, reg_cast(T, a)))
      s2 == BitsOf(to_u64(T, reg_cast(T, b)))
  IN  WordOf((s1 \cup s2) \ (s1 \cap s2))

\* On pred, the negation.
not(T, a) == to_u64(T, -reg_cast(T, a) - 1)

cnot(T, a) == IF reg_cast(T, a) = 0 THEN to_u64(T, -1) ELSE 0

shl(T, a, b) == to_u64(T, reg_cast(T, a) * 2^(Word32(b) % Promoted(T)))
shr(T, a, b) == to_u64(T, reg_cast(T, a) \div 2^(Word32(b) % Promoted(T)))

\* shf: the words b:a, shifted, upper or lower half.
shf(dir, mode, a, b, c) ==
  LET concat == Word32(b) * 2^N + Word32(a)
      count == IF mode = "clamp" THEN Lesser(Word32(c), N) ELSE Word32(c) % N
  IN  IF dir = "l"
      THEN ((concat * 2^count) % 2^(2 * N)) \div 2^N
      ELSE (concat \div 2^count) % 2^N

popc(T, a) == Cardinality(BitsOf(reg_cast(T, a)))

\* __builtin_clzll of n # 0, a word of 64 bits.
clzll(n) == 2 * N - 1 - Max(BitsOf(n))

clz(T, a) ==
  LET val == reg_cast(T, a)
  IN  IF val = 0 THEN T.bits ELSE clzll(val) - (2 * N - T.bits)

\* result = (result << 1) | bit i of val, for each i from 0
brev(T, a) ==
  LET val == reg_cast(T, a)
      result[i \in 0..T.bits] ==
        IF i = 0 THEN 0 ELSE 2 * result[i - 1] + ((val \div 2^(i - 1)) % 2)
  IN  result[T.bits]

\* Mutant: a field that ends at the top of the word is not cut there.
bfe_Uncut(T, a, b, c) ==
  LET val == to_u64(T, reg_cast(T, a))
      pos == Lesser(Word32(b) % (8 * N), T.bits)
      len == Lesser(Word32(c) % (8 * N), T.bits)
      extracted == (val \div 2^pos) % 2^len
      negative == T.signed /\ len \in 1..T.bits - 1 /\ extracted >= 2^(len - 1)
  IN  IF Word32(c) % (8 * N) = 0 THEN 0
      ELSE to_u64(T, IF negative THEN extracted - 2^len ELSE extracted)

\* The & 0xFF of position and length keeps 8 values per bit of a word.
bfe(T, a, b, c) ==
  LET val == to_u64(T, reg_cast(T, a))
      pos == Lesser(Word32(b) % (8 * N), T.bits)
      len == Lesser(Word32(c) % (8 * N), T.bits - pos)
      extracted == (val \div 2^pos) % 2^len
      negative == T.signed /\ len \in 1..T.bits - 1 /\ extracted >= 2^(len - 1)
  IN  IF Word32(c) % (8 * N) = 0 THEN 0
      ELSE to_u64(T, IF negative THEN extracted - 2^len ELSE extracted)

bfi(T, a, b, c, e) ==
  LET ins == reg_cast(T, a)
      val == reg_cast(T, b)
      pos == Word32(c) % (8 * N)
      len == Lesser(Word32(e) % (8 * N), T.bits - pos)
      mask == BitsOf((2^len - 1) * 2^pos)
  IN  IF Word32(e) % (8 * N) = 0 \/ pos >= T.bits THEN val
      ELSE WordOf((BitsOf(val) \ mask) \cup (BitsOf(to_u64(T, ins * 2^pos)) \cap mask))

\* The leading zeros are those of a 64-bit word, whatever T.
bfind(T, shiftamt, a) ==
  LET val == reg_cast(T, a)
      uval == IF val < 0 THEN -val - 1 ELSE val
      position == IF uval = 0 THEN 0 ELSE T.bits - 1 - clzll(uval)
  IN  to_u64(u32, IF val = 0 THEN -1 ELSE IF shiftamt THEN T.bits - 1 - position ELSE position)

lop3(lut, a, b, c) ==
  LET bit(n, i) == (n \div 2^i) % 2
  IN  WordOf({i \in 0..N - 1 : bit(lut, 4 * bit(a, i) + 2 * bit(b, i) + bit(c, i)) = 1})

\* count: the bits counted up to position i.
fns(a, b, c) ==
  LET bits == BitsOf(Word32(a)) \cap BitsOf(Word32(b))
      count(i) == Cardinality({j \in bits : j <= i})
      found == {i \in bits : count(i) = Word32(c)}
  IN  IF found = {} THEN to_u64(u32, -1) ELSE Min(found)

bmsk(mode, a, b) ==
  LET pos == IF mode = "clamp" THEN Lesser(Word32(a), N - 1) ELSE Word32(a) % N
      len == IF mode = "clamp" THEN Lesser(Word32(b), N - pos) ELSE Word32(b) % N
  IN  IF len < N THEN ((2^len - 1) * 2^pos) % 2^N ELSE to_u64(u32, -1)
=============================================================================
