----------------------------- MODULE MCAtomics ------------------------------
(***************************************************************************)
(* Instructions for module Atomics: two-bit words, two warps of two lanes. *)
(***************************************************************************)
EXTENDS Atomics

CONSTANTS w1, w2, c1, c2

BitsOf(n) == {b \in {1, 2} : (n \div b) % 2 = 1}
WordOf(S) == CHOOSE n \in 0..3 : BitsOf(n) = S
BitTables ==
  [o \in {"and", "or", "xor"} |-> [a \in 0..3 |-> [b \in 0..3 |->
    LET A == BitsOf(a)  B == BitsOf(b)
    IN  CASE o = "and" -> WordOf(A \cap B)
          [] o = "or"  -> WordOf(A \cup B)
          [] o = "xor" -> WordOf((A \cup B) \ (A \cap B))]]]

\* Every operation: operands 1 and 2, or the same in both lanes; the lanes on
\* one cell or, if C has another, on two.
Some(Masks, C) ==
  {i \in [op : Ops, returns : BOOLEAN, signed : BOOLEAN, mask : Masks,
          cell : {[l \in {0, 1} |-> IF l = 0 THEN c1 ELSE c] : c \in C},
          operand : {<<1, 2>>, <<3, 3>>}, second : {<<0, 3>>}] :
     /\ i.signed => i.op \in {"min", "max"}
     /\ ~i.returns => i.op \in {"add", "dec"}}

\* A register file is indexed by lanes.
ByLane(i) ==
  [i EXCEPT !.operand = [l \in {0, 1} |-> i.operand[l + 1]],
            !.second = [l \in {0, 1} |-> i.second[l + 1]]]

SharedCode ==
  [w \in {w1, w2} |->
    {ByLane(i) : i \in Some(IF w = w1 THEN {{1}, {0, 1}} ELSE {{0, 1}}, {c1, c2})}]

\* red.add only.
AddCode == [w \in {w1, w2} |-> {i \in SharedCode[w] : i.op = "add" /\ ~i.returns}]
=============================================================================
