---------------------------- MODULE AtomicMemory ----------------------------
(***************************************************************************)
(* What PTX promises of atom and red, whoever executes them: each request  *)
(* of a thread takes effect at one instant, as if it were alone, and atom  *)
(* returns the value its cell had just before.  In which order the pending *)
(* requests are performed is left open.                                    *)
(***************************************************************************)
EXTENDS Integers

CONSTANTS
  Threads,    \* who makes requests
  Cells,      \* the memory locations
  Half,       \* words are 0 .. 2 * Half - 1, the upper half negative if signed
  Bits        \* and, or and xor of words, as tables

Words == 0..2 * Half - 1
Ops == {"add", "min", "max", "exch", "cas", "inc", "dec", "and", "or", "xor"}

\* returns: whether it is atom or red.
Requests ==
  [op : Ops, returns : BOOLEAN, signed : BOOLEAN, cell : Cells, operand : Words, second : Words]
NoRequest == [op |-> "none"]

VARIABLES
  memory,    \* the value of each cell
  pending,   \* the request of each thread, or NoRequest
  result     \* what each thread's last atom returned

vars == <<memory, pending, result>>

\* a is the lesser of two numbers that words stand for.
Precedes(a, b, signed) ==
  IF signed /\ (a < Half) # (b < Half) THEN b < Half ELSE a <= b

\* The value of a cell after request r, when it was n before.
Meaning(r, n) ==
  CASE r.op = "add"  -> (n + r.operand) % (2 * Half)
    [] r.op = "min"  -> IF Precedes(n, r.operand, r.signed) THEN n ELSE r.operand
    [] r.op = "max"  -> IF Precedes(n, r.operand, r.signed) THEN r.operand ELSE n
    [] r.op = "exch" -> r.operand
    [] r.op = "cas"  -> IF n = r.operand THEN r.second ELSE n
    [] r.op = "inc"  -> IF n + 1 \in 0..r.operand THEN n + 1 ELSE 0
    [] r.op = "dec"  -> IF n \in 1..r.operand THEN n - 1 ELSE r.operand
    [] r.op \in {"and", "or", "xor"} -> Bits[r.op][n][r.operand]

Init ==
  /\ memory \in [Cells -> Words]
  /\ pending = [t \in Threads |-> NoRequest]
  /\ result = [t \in Threads |-> 0]

\* Some threads that have no request make one each.
Submit ==
  /\ pending' \in [Threads -> Requests \cup {NoRequest}]
  /\ \A t \in Threads : pending[t] # NoRequest => pending'[t] = pending[t]
  /\ UNCHANGED <<memory, result>>

Perform(t) ==
  LET r == pending[t]
      n == memory[r.cell]
  IN  /\ r # NoRequest
      /\ memory' = [memory EXCEPT ![r.cell] = Meaning(r, n)]
      /\ result' = IF r.returns THEN [result EXCEPT ![t] = n] ELSE result
      /\ pending' = [pending EXCEPT ![t] = NoRequest]

Next == Submit \/ \E t \in Threads : Perform(t)

Spec == Init /\ [][Next]_vars
=============================================================================
