---------------------------- MODULE SharedMemory ----------------------------
(***************************************************************************)
(* The shared-memory arena of a block (app/context/block_context.cpp) and  *)
(* the warps that use it, each on a thread of its own.  A kernel begins    *)
(* with its .shared declarations, which every warp executes; the first to  *)
(* execute one places the symbol, under shared_mutex_.  The rest of the    *)
(* kernel reads the arena and the symbols without the mutex: mov and ld    *)
(* turn a symbol into an offset (WarpContext::getParamPtr), and ld and st  *)
(* add the offset to the address the arena has when they execute.          *)
(***************************************************************************)
EXTENDS Integers, Sequences

CONSTANTS
  Warps,        \* the warps of the block
  Kernels,      \* for each kernel considered, its .shared declarations
  DynamicSize,  \* sharedMem, the size the arena has from the launch
  MaxUses       \* bound: accesses one warp makes

\* Sizes are positive; an .align is a power of two, or 0 for none.
ASSUME SharedMemoryAssumption ==
  /\ Kernels \subseteq
       Seq([size : Nat \ {0}, align : {0, 1, 2, 4, 8, 16, 32, 64, 128}])
  /\ DynamicSize \in Nat /\ MaxUses \in Nat

NoWarp == "no warp"
ASSUME NoWarpAssumption == NoWarp \notin Warps

VARIABLES
  decls,          \* the declarations of the kernel
  mutex,          \* the warp that holds shared_mutex_, or NoWarp
  offsets,        \* shared_symbol_offsets_, symbols numbered as declared
  shared_offset,  \* shared_offset_
  size,           \* shared_memory_.size()
  arena,          \* the buffer of shared_memory_: changes when it is moved
  place,          \* where each warp is, see Places
  next,           \* the declaration each warp executes next
  symbol,         \* the symbol each warp is accessing
  ptr,            \* what GetSharedPtr returned to each warp
  addr,           \* the offset each warp computed for the symbol
  base,           \* the buffer each warp is about to access
  uses            \* accesses made by each warp

vars == <<decls, mutex, offsets, shared_offset, size, arena, place, next,
          symbol, ptr, addr, base, uses>>

(***************************************************************************)
(* "prelude":   about to execute declaration next, or the rest             *)
(* "placing":   inside RegisterSharedSymbol, the symbol was not found      *)
(* "pointer":   GetSharedPtr has returned                                  *)
(* "offset":    the offset of the symbol is in a register                  *)
(* "accessing": getSharedBase has returned, memcpy is next                 *)
(***************************************************************************)
Places == {"prelude", "placing", "pointer", "offset", "accessing"}

Symbols == 1..Len(decls)
Garbage == -1   \* the difference of pointers into two buffers

Init ==
  /\ decls \in Kernels
  /\ mutex = NoWarp
  /\ offsets = <<>>
  /\ shared_offset = 0
  /\ size = DynamicSize
  /\ arena = 0
  /\ place = [w \in Warps |-> "prelude"]
  /\ next = [w \in Warps |-> 1]
  /\ symbol = [w \in Warps |-> 0]
  /\ ptr = [w \in Warps |-> [arena |-> 0, offset |-> 0]]
  /\ addr = [w \in Warps |-> 0]
  /\ base = [w \in Warps |-> 0]
  /\ uses = [w \in Warps |-> 0]

\* What RegisterSharedSymbol does not touch.
body == <<symbol, ptr, addr, base, uses>>

\* Mutant: the lookup comes before the lock.
Lookup_BeforeLock(w) ==
  /\ place[w] = "prelude" /\ next[w] \in Symbols
  /\ IF next[w] \in DOMAIN offsets
     THEN /\ next' = [next EXCEPT ![w] = @ + 1]
          /\ UNCHANGED <<mutex, place>>
     ELSE /\ place' = [place EXCEPT ![w] = "placing"]
          /\ UNCHANGED <<mutex, next>>
  /\ UNCHANGED <<decls, offsets, shared_offset, size, arena, body>>

\* Mutant: every warp places the symbol.
Lookup_Never(w) ==
  /\ place[w] = "prelude" /\ next[w] \in Symbols
  /\ mutex = NoWarp
  /\ mutex' = w
  /\ place' = [place EXCEPT ![w] = "placing"]
  /\ UNCHANGED <<next, decls, offsets, shared_offset, size, arena, body>>

\* RegisterSharedSymbol: lock shared_mutex_; return if another warp was first.
Lookup(w) ==
  /\ place[w] = "prelude" /\ next[w] \in Symbols
  /\ mutex = NoWarp
  /\ IF next[w] \in DOMAIN offsets
     THEN /\ next' = [next EXCEPT ![w] = @ + 1]
          /\ UNCHANGED <<mutex, place>>
     ELSE /\ mutex' = w
          /\ place' = [place EXCEPT ![w] = "placing"]
          /\ UNCHANGED next
  /\ UNCHANGED <<decls, offsets, shared_offset, size, arena, body>>

\* Mutant: rounded down.
AlignUp_Down(n, align) == IF align > 0 THEN (n \div align) * align ELSE n

\* (n + align - 1) & ~(align - 1), for a power of two
AlignUp(n, align) == IF align > 0 THEN ((n + align - 1) \div align) * align ELSE n

\* RegisterSharedSymbol, the rest: align, grow the arena, enter the symbol,
\* unlock.  std::vector::resize may or may not move the buffer.
Place(w) ==
  LET d == decls[next[w]]
      offset == AlignUp(shared_offset, d.align)
      required == offset + d.size
  IN  /\ place[w] = "placing"
      /\ offsets' = [s \in DOMAIN offsets \cup {next[w]} |->
                      IF s = next[w] THEN offset ELSE offsets[s]]
      /\ shared_offset' = offset + d.size
      /\ IF required > size
         THEN size' = required /\ arena' \in {arena, arena + 1}
         ELSE UNCHANGED <<size, arena>>
      /\ mutex' = NoWarp
      /\ place' = [place EXCEPT ![w] = "prelude"]
      /\ next' = [next EXCEPT ![w] = @ + 1]
      /\ UNCHANGED <<decls, body>>

registry == <<decls, mutex, offsets, shared_offset, size, arena, next>>

\* getParamPtr(s): block_context->GetSharedPtr(s), without the mutex.
GetSharedPtr(w, s) ==
  /\ place[w] = "prelude" /\ next[w] \notin Symbols
  /\ uses[w] < MaxUses
  /\ s \in DOMAIN offsets
  /\ ptr' = [ptr EXCEPT ![w] = [arena |-> arena, offset |-> offsets[s]]]
  /\ symbol' = [symbol EXCEPT ![w] = s]
  /\ uses' = [uses EXCEPT ![w] = @ + 1]
  /\ place' = [place EXCEPT ![w] = "pointer"]
  /\ UNCHANGED <<registry, addr, base>>

\* getParamPtr(s), the rest: the offset is the pointer minus GetSharedBase().
GetOffset(w) ==
  /\ place[w] = "pointer"
  /\ addr' = [addr EXCEPT ![w] = IF ptr[w].arena = arena THEN ptr[w].offset ELSE Garbage]
  /\ place' = [place EXCEPT ![w] = "offset"]
  /\ UNCHANGED <<registry, symbol, ptr, base, uses>>

\* ld or st in the shared space: base + addr, with the base of this moment.
GetSharedBase(w) ==
  /\ place[w] = "offset"
  /\ base' = [base EXCEPT ![w] = arena]
  /\ place' = [place EXCEPT ![w] = "accessing"]
  /\ UNCHANGED <<registry, symbol, ptr, addr, uses>>

\* memcpy; the register may serve for another access.
Access(w) ==
  /\ place[w] = "accessing"
  /\ \E p \in {"prelude", "offset"} : place' = [place EXCEPT ![w] = p]
  /\ UNCHANGED <<registry, body>>

\* Every warp has made all its accesses: the only place to stop.
Over ==
  /\ \A w \in Warps : place[w] = "prelude" /\ next[w] \notin Symbols
  /\ (\A w \in Warps : uses[w] = MaxUses) \/ decls = <<>>
  /\ UNCHANGED vars

Step(w) ==
  \/ Lookup(w) \/ Place(w)
  \/ \E s \in Symbols : GetSharedPtr(w, s)
  \/ GetOffset(w) \/ GetSharedBase(w) \/ Access(w)

Next == Over \/ \E w \in Warps : Step(w)

Spec == Init /\ [][Next]_vars

-----------------------------------------------------------------------------
(***************************************************************************)
(* The symbols placed so far lie in the arena, each aligned as declared    *)
(* and none overlapping another.                                           *)
(***************************************************************************)
Layout ==
  \A s \in DOMAIN offsets :
    /\ decls[s].align > 0 => offsets[s] % decls[s].align = 0
    /\ offsets[s] + decls[s].size <= size
    /\ \A t \in DOMAIN offsets : s < t => offsets[s] + decls[s].size <= offsets[t]

(***************************************************************************)
(* The reads without the mutex race with no write: while a warp places a   *)
(* symbol, no other warp is past its declarations.                         *)
(***************************************************************************)
UnlockedReadsAreSafe ==
  \A w \in Warps : place[w] = "placing" =>
    \A v \in Warps : next[v] \in Symbols

(***************************************************************************)
(* memcpy accesses the symbol the instruction names: the buffer it is      *)
(* about to use is the arena's, and the offset is the symbol's, although   *)
(* other warps may have moved the arena since the warp started.            *)
(***************************************************************************)
AccessesOwnSymbol ==
  \A w \in Warps : place[w] = "accessing" =>
    /\ base[w] = arena
    /\ symbol[w] \in DOMAIN offsets
    /\ addr[w] = offsets[symbol[w]]
    /\ addr[w] + decls[symbol[w]].size <= size

\* A symbol never moves within the arena: all warps see one layout.
SymbolsStay ==
  [][\A s \in DOMAIN offsets : s \in DOMAIN offsets' /\ offsets'[s] = offsets[s]]_vars
=============================================================================
