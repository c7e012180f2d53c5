------------------------- MODULE SharedMemoryProofs -------------------------
(***************************************************************************)
(* Proofs about module SharedMemory, for any number of warps, any kernels  *)
(* and any size of the arena.  All of it rests on one fact about the order *)
(* of things (Order): symbols are placed as they are declared, and no warp *)
(* passes a declaration before its symbol is placed.  So while one is      *)
(* still missing, every warp is among its declarations and none holds a    *)
(* pointer, an offset or a base that placing a symbol could spoil.         *)
(***************************************************************************)
EXTENDS SharedMemory, TLAPS

USE SharedMemoryAssumption, NoWarpAssumption DEF Places

Aligns == {0, 1, 2, 4, 8, 16, 32, 64, 128}
Decls == [size : Nat \ {0}, align : Aligns]

Types ==
  /\ decls \in Kernels
  /\ mutex \in Warps \cup {NoWarp}
  /\ shared_offset \in Nat /\ size \in Nat
  /\ place \in [Warps -> Places]
  /\ next \in [Warps -> 1..Len(decls) + 1]
  /\ DOMAIN symbol = Warps /\ DOMAIN ptr = Warps /\ DOMAIN addr = Warps
  /\ DOMAIN base = Warps

\* Symbols are placed in their order, by the warp with the mutex, and nobody
\* is ahead of them.
Order ==
  \E k \in 0..Len(decls) :
    /\ offsets \in [1..k -> Nat]
    /\ \A w \in Warps : next[w] <= k + 1
    /\ \A w \in Warps : place[w] = "placing" =>
         mutex = w /\ next[w] = k + 1 /\ k < Len(decls)

\* The symbols fill the arena from the bottom.
Filled ==
  /\ shared_offset <= size
  /\ \A s \in DOMAIN offsets : offsets[s] + decls[s].size <= shared_offset

Past(w) == place[w] \in {"pointer", "offset", "accessing"}

\* What the warps that are past their declarations hold is true.
Held ==
  \A w \in Warps : Past(w) =>
    /\ next[w] \notin Symbols
    /\ symbol[w] \in DOMAIN offsets
    /\ place[w] = "pointer" => ptr[w] = [arena |-> arena, offset |-> offsets[symbol[w]]]
    /\ place[w] # "pointer" => addr[w] = offsets[symbol[w]]
    /\ place[w] = "accessing" => base[w] = arena

Inv == Types /\ Order /\ Filled /\ Layout /\ Held

-----------------------------------------------------------------------------
\* Rounding up does not round down, and reaches a multiple.
LEMMA AlignUpRight ==
  ASSUME NEW n \in Nat, NEW align \in Aligns
  PROVE  /\ AlignUp(n, align) \in Nat
         /\ AlignUp(n, align) >= n
         /\ align > 0 => AlignUp(n, align) % align = 0
<1>0. CASE align = 0
  BY <1>0 DEF AlignUp
<1>1. CASE align = 1
  BY <1>1 DEF AlignUp
<1>2. CASE align = 2
  BY <1>2 DEF AlignUp
<1>3. CASE align = 4
  BY <1>3 DEF AlignUp
<1>4. CASE align = 8
  BY <1>4 DEF AlignUp
<1>5. CASE align = 16
  BY <1>5 DEF AlignUp
<1>6. CASE align = 32
  BY <1>6 DEF AlignUp
<1>7. CASE align = 64
  BY <1>7 DEF AlignUp
<1>8. CASE align = 128
  BY <1>8 DEF AlignUp
<1> QED
  BY <1>0, <1>1, <1>2, <1>3, <1>4, <1>5, <1>6, <1>7, <1>8 DEF Aligns

LEMMA DeclsTyped ==
  ASSUME decls \in Kernels
  PROVE  /\ Len(decls) \in Nat
         /\ \A s \in 1..Len(decls) :
              decls[s].size \in Nat \ {0} /\ decls[s].align \in Aligns
<1>1. decls \in Seq(Decls)
  BY DEF Decls, Aligns
<1>2. \A s \in 1..Len(decls) : decls[s] \in Decls
  BY <1>1
<1> QED
  BY <1>1, <1>2 DEF Decls

LEMMA InitInv == Init => Inv
<1> SUFFICES ASSUME Init PROVE Inv
  OBVIOUS
<1> USE DEF Init
<1>0. Len(decls) \in Nat
  BY DeclsTyped
<1>1. Types
  BY <1>0 DEF Types
<1>2. Order
  <2>1. offsets \in [1..0 -> Nat]
    OBVIOUS
  <2> QED
    BY <1>0, <2>1 DEF Order
<1>3. DOMAIN offsets = {}
  OBVIOUS
<1>4. Filled /\ Layout
  BY <1>3 DEF Filled, Layout
<1>5. Held
  BY DEF Held, Past
<1> QED
  BY <1>1, <1>2, <1>4, <1>5 DEF Inv

-----------------------------------------------------------------------------
LEMMA LookupInv ==
  ASSUME Inv, NEW w \in Warps, Lookup(w)
  PROVE  Inv'
<1>0. /\ Types /\ Order /\ Filled /\ Layout /\ Held
      /\ Len(decls) \in Nat
      /\ UNCHANGED <<decls, offsets, shared_offset, size, arena, symbol, ptr, addr, base>>
  BY DeclsTyped DEF Inv, Types, Lookup, body
<1>1. PICK k \in 0..Len(decls) :
        /\ offsets \in [1..k -> Nat]
        /\ \A v \in Warps : next[v] <= k + 1
        /\ \A v \in Warps : place[v] = "placing" =>
             mutex = v /\ next[v] = k + 1 /\ k < Len(decls)
  BY <1>0 DEF Order
<1>2. CASE next[w] \in DOMAIN offsets
  <2>1. /\ next' = [next EXCEPT ![w] = @ + 1] /\ UNCHANGED <<mutex, place>>
        /\ next[w] \in 1..k
    BY <1>1, <1>2 DEF Lookup
  <2>2. Types'
    BY <1>0, <1>1, <2>1 DEF Types
  <2>3. \A v \in Warps : next'[v] <= k + 1
    BY <1>0, <1>1, <2>1 DEF Types
  <2>4. place[w] = "prelude"
    BY DEF Lookup
  <2>5. \A v \in Warps : place'[v] = "placing" =>
          mutex' = v /\ next'[v] = k + 1 /\ k < Len(decls)
    BY <1>0, <1>1, <2>1, <2>4 DEF Types
  <2>6. Order'
    BY <1>0, <1>1, <2>3, <2>5 DEF Order
  <2>7. Filled' /\ Layout'
    BY <1>0 DEF Filled, Layout
  <2>8. Held'
    BY <1>0, <2>1, <2>4 DEF Held, Past, Types, Symbols
  <2> QED
    BY <2>2, <2>6, <2>7, <2>8 DEF Inv
<1>3. CASE next[w] \notin DOMAIN offsets
  <2>1. /\ mutex' = w /\ place' = [place EXCEPT ![w] = "placing"] /\ next' = next
        /\ mutex = NoWarp /\ next[w] \in Symbols
    BY <1>3 DEF Lookup
  <2>2. next[w] = k + 1 /\ k < Len(decls)
    BY <1>0, <1>1, <1>3, <2>1 DEF Symbols, Types
  <2>3. Types'
    BY <1>0, <2>1 DEF Types
  <2>4. \A v \in Warps : place'[v] = "placing" =>
          mutex' = v /\ next'[v] = k + 1 /\ k < Len(decls)
    BY <1>0, <1>1, <2>1, <2>2 DEF Types
  <2>5. Order'
    BY <1>0, <1>1, <2>1, <2>4 DEF Order
  <2>6. Filled' /\ Layout'
    BY <1>0 DEF Filled, Layout
  <2>7. Held'
    BY <1>0, <2>1 DEF Held, Past, Types, Symbols
  <2> QED
    BY <2>3, <2>5, <2>6, <2>7 DEF Inv
<1> QED
  BY <1>2, <1>3

\* While a symbol is placed nobody is past the declarations.
LEMMA PlacingFirst ==
  ASSUME Inv, NEW w \in Warps, place[w] = "placing"
  PROVE  \A v \in Warps : next[v] \in Symbols /\ ~Past(v)
<1>0. Types /\ Order /\ Held /\ Len(decls) \in Nat
  BY DeclsTyped DEF Inv, Types
<1>1. PICK k \in 0..Len(decls) :
        /\ \A v \in Warps : next[v] <= k + 1
        /\ k < Len(decls)
  BY <1>0 DEF Order
<1>2. ASSUME NEW v \in Warps PROVE next[v] \in Symbols
  <2>1. next[v] \in 1..Len(decls) + 1 /\ next[v] <= k + 1 /\ k < Len(decls)
    BY <1>0, <1>1 DEF Types
  <2>2. k \in Int /\ Len(decls) \in Int
    BY <1>0
  <2> QED
    BY <2>1, <2>2 DEF Symbols
<1> QED
  BY <1>0, <1>2 DEF Held

LEMMA PlaceInv ==
  ASSUME Inv, NEW w \in Warps, Place(w)
  PROVE  /\ Inv'
         /\ \A s \in DOMAIN offsets : s \in DOMAIN offsets' /\ offsets'[s] = offsets[s]
<1> DEFINE d == decls[next[w]]
           offset == AlignUp(shared_offset, d.align)
<1>0. /\ Types /\ Order /\ Filled /\ Layout /\ Held
      /\ Len(decls) \in Nat
      /\ place[w] = "placing"
      /\ UNCHANGED <<decls, symbol, ptr, addr, base>>
  BY DeclsTyped DEF Inv, Types, Place, body
<1>1. PICK k \in 0..Len(decls) :
        /\ offsets \in [1..k -> Nat]
        /\ \A v \in Warps : next[v] <= k + 1
        /\ \A v \in Warps : place[v] = "placing" =>
             mutex = v /\ next[v] = k + 1 /\ k < Len(decls)
  BY <1>0 DEF Order
<1>2. next[w] = k + 1 /\ k + 1 \in 1..Len(decls)
  BY <1>0, <1>1
<1>3. d.size \in Nat \ {0} /\ d.align \in Aligns
  BY <1>0, <1>2, DeclsTyped DEF Types
<1>4. /\ offset \in Nat /\ offset >= shared_offset
      /\ d.align > 0 => offset % d.align = 0
  BY <1>0, <1>3, AlignUpRight DEF Types
<1>5. /\ offsets' = [s \in DOMAIN offsets \cup {next[w]} |->
                      IF s = next[w] THEN offset ELSE offsets[s]]
      /\ shared_offset' = offset + d.size
      /\ mutex' = NoWarp
      /\ place' = [place EXCEPT ![w] = "prelude"]
      /\ next' = [next EXCEPT ![w] = @ + 1]
  BY DEF Place
<1>6. size' \in Nat /\ size' >= size /\ size' >= shared_offset'
  <2>1. offset + d.size \in Nat /\ size \in Nat
    BY <1>0, <1>3, <1>4 DEF Types
  <2>2. IF offset + d.size > size THEN size' = offset + d.size ELSE size' = size
    BY DEF Place
  <2> HIDE DEF d, offset
  <2> QED
    BY <1>5, <2>1, <2>2
<1> HIDE DEF d, offset
<1>7. DOMAIN offsets \cup {next[w]} = 1..k + 1 /\ DOMAIN offsets = 1..k
  BY <1>1, <1>2
<1>8. /\ offsets' \in [1..k + 1 -> Nat]
      /\ offsets'[k + 1] = offset
      /\ \A s \in 1..k : offsets'[s] = offsets[s]
  BY <1>1, <1>2, <1>4, <1>5, <1>7
<1>9. Types'
  <2>1. shared_offset' \in Nat
    BY <1>3, <1>4, <1>5
  <2>2. next' \in [Warps -> 1..Len(decls) + 1]
    BY <1>0, <1>2, <1>5 DEF Types
  <2> QED
    BY <1>0, <1>5, <1>6, <2>1, <2>2 DEF Types
<1>10. Order'
  <2>1. k + 1 \in 0..Len(decls)
    BY <1>2
  <2>2. \A v \in Warps : next'[v] <= (k + 1) + 1
    BY <1>0, <1>1, <1>5 DEF Types
  <2>3. \A v \in Warps : place'[v] # "placing"
    BY <1>0, <1>1, <1>5 DEF Types
  <2> QED
    BY <1>0, <1>8, <2>1, <2>2, <2>3 DEF Order
<1>11. DOMAIN offsets' = 1..k + 1 /\ \A s \in 1..k + 1 : s \in 1..k \/ s = k + 1
  BY <1>1, <1>8
<1>12. \A s \in 1..k :
         /\ decls[s].size \in Nat \ {0}
         /\ offsets[s] \in Nat
         /\ offsets[s] + decls[s].size <= shared_offset
  BY <1>0, <1>1, <1>7, DeclsTyped DEF Filled, Types
<1>13. Filled'
  <2>1. shared_offset <= shared_offset'
    BY <1>0, <1>3, <1>4, <1>5 DEF Types
  <2>2. ASSUME NEW s \in 1..k PROVE offsets'[s] + decls[s].size <= shared_offset'
    <3>1. /\ offsets[s] + decls[s].size <= shared_offset
          /\ offsets[s] \in Nat /\ decls[s].size \in Nat
      BY <1>12
    <3>2. shared_offset \in Nat /\ shared_offset' \in Nat
      BY <1>0, <1>9 DEF Types
    <3> QED
      BY <1>8, <2>1, <3>1, <3>2
  <2>3. offsets'[k + 1] + decls[k + 1].size <= shared_offset'
    BY <1>2, <1>3, <1>4, <1>5, <1>8 DEF d
  <2> QED
    BY <1>0, <1>6, <1>11, <2>2, <2>3 DEF Filled
<1>14. Layout'
  <2>1. ASSUME NEW s \in 1..k + 1
        PROVE  decls[s].align > 0 => offsets'[s] % decls[s].align = 0
    <3>1. CASE s = k + 1
      BY <1>2, <1>4, <1>8, <3>1 DEF d
    <3>2. CASE s \in 1..k
      BY <1>0, <1>7, <1>8, <3>2 DEF Layout
    <3> QED
      BY <1>11, <3>1, <3>2
  <2>2. ASSUME NEW s \in 1..k + 1
        PROVE  offsets'[s] + decls[s].size <= size'
    <3>1. offsets'[s] + decls[s].size <= shared_offset'
      BY <1>0, <1>11, <1>13 DEF Filled
    <3>2. offsets'[s] \in Nat /\ shared_offset' \in Nat
      BY <1>8, <1>9 DEF Types
    <3>3. decls[s].size \in Nat
      BY <1>2, <1>3, <1>11, <1>12 DEF d
    <3> QED
      BY <1>6, <3>1, <3>2, <3>3
  <2>3. ASSUME NEW s \in 1..k + 1, NEW t \in 1..k + 1, s < t
        PROVE  offsets'[s] + decls[s].size <= offsets'[t]
    <3>1. s \in 1..k
      BY <2>3
    <3>2. CASE t = k + 1
      <4>1. /\ offsets[s] + decls[s].size <= shared_offset
            /\ offsets[s] \in Nat /\ decls[s].size \in Nat
        BY <1>12, <3>1
      <4>2. offsets'[s] = offsets[s] /\ offsets'[t] = offset
        BY <1>8, <3>1, <3>2
      <4>3. shared_offset \in Nat
        BY <1>0 DEF Types
      <4> QED
        BY <1>4, <4>1, <4>2, <4>3
    <3>3. CASE t \in 1..k
      <4>1. offsets[s] + decls[s].size <= offsets[t]
        BY <1>0, <1>7, <2>3, <3>1, <3>3 DEF Layout
      <4>2. offsets'[s] = offsets[s] /\ offsets'[t] = offsets[t]
        BY <1>8, <3>1, <3>3
      <4> QED
        BY <4>1, <4>2
    <3> QED
      BY <1>11, <3>2, <3>3
  <2> QED
    BY <1>0, <1>11, <2>1, <2>2, <2>3 DEF Layout
<1>15. Held'
  <2>1. \A v \in Warps : ~Past(v)
    BY <1>0, PlacingFirst
  <2>2. \A v \in Warps : ~Past(v)'
    BY <1>0, <1>5, <2>1 DEF Past, Types
  <2> QED
    BY <2>2 DEF Held
<1>16. \A s \in DOMAIN offsets : s \in DOMAIN offsets' /\ offsets'[s] = offsets[s]
  BY <1>7, <1>8, <1>11
<1> QED
  BY <1>9, <1>10, <1>13, <1>14, <1>15, <1>16 DEF Inv

\* A step of a warp past its declarations leaves the registry alone.
LEMMA BodyInv ==
  ASSUME Inv, NEW w \in Warps,
         \/ \E s \in Symbols : GetSharedPtr(w, s)
         \/ GetOffset(w) \/ GetSharedBase(w) \/ Access(w)
  PROVE  Inv'
<1>0. /\ Types /\ Order /\ Filled /\ Layout /\ Held
      /\ Len(decls) \in Nat
      /\ UNCHANGED registry
  BY DeclsTyped DEF Inv, Types, GetSharedPtr, GetOffset, GetSharedBase, Access
<1>1. UNCHANGED <<decls, mutex, offsets, shared_offset, size, arena, next>>
  BY <1>0 DEF registry
<1>2. /\ place[w] # "placing"
      /\ \E p \in {"prelude", "pointer", "offset", "accessing"} :
           place' = [place EXCEPT ![w] = p]
  BY DEF GetSharedPtr, GetOffset, GetSharedBase, Access
<1>3. /\ DOMAIN symbol' = Warps /\ DOMAIN ptr' = Warps
      /\ DOMAIN addr' = Warps /\ DOMAIN base' = Warps
  BY <1>0 DEF Types, GetSharedPtr, GetOffset, GetSharedBase, Access, body
<1>4. Types'
  BY <1>0, <1>1, <1>2, <1>3 DEF Types
<1>5. Order'
  <2>1. \A v \in Warps : place'[v] = "placing" => place[v] = "placing"
    BY <1>0, <1>2 DEF Types
  <2> QED
    BY <1>0, <1>1, <2>1 DEF Order
<1>6. Filled' /\ Layout'
  BY <1>0, <1>1 DEF Filled, Layout
<1>7. Held'
  <2>0. Symbols' = Symbols
    BY <1>1 DEF Symbols
  <2>1. CASE \E s \in Symbols : GetSharedPtr(w, s)
    BY <1>0, <1>1, <2>0, <2>1 DEF Held, Past, Types, GetSharedPtr
  <2>2. CASE GetOffset(w)
    BY <1>0, <1>1, <2>0, <2>2 DEF Held, Past, Types, GetOffset
  <2>3. CASE GetSharedBase(w)
    BY <1>0, <1>1, <2>0, <2>3 DEF Held, Past, Types, GetSharedBase
  <2>4. CASE Access(w)
    BY <1>0, <1>1, <2>0, <2>4 DEF Held, Past, Types, Access, body
  <2> QED
    BY <2>1, <2>2, <2>3, <2>4
<1> QED
  BY <1>4, <1>5, <1>6, <1>7 DEF Inv

LEMMA StutterInv ==
  ASSUME Inv, UNCHANGED vars
  PROVE  Inv'
<1>1. UNCHANGED <<decls, mutex, offsets, shared_offset, size, arena, place, next,
                  symbol, ptr, addr, base>>
  BY DEF vars
<1>2. Types' /\ Order' /\ Filled' /\ Layout'
  BY <1>1 DEF Inv, Types, Order, Filled, Layout
<1>3. Held'
  BY <1>1 DEF Inv, Held, Past, Symbols
<1> QED
  BY <1>2, <1>3 DEF Inv

LEMMA NextInv == Inv /\ [Next]_vars => Inv'
<1> SUFFICES ASSUME Inv, [Next]_vars PROVE Inv'
  OBVIOUS
<1>1. CASE Over \/ UNCHANGED vars
  BY <1>1, StutterInv DEF Over
<1>2. ASSUME NEW w \in Warps, Step(w) PROVE Inv'
  BY <1>2, LookupInv, PlaceInv, BodyInv DEF Step
<1> QED
  BY <1>1, <1>2 DEF Next

\* Every reachable state satisfies the invariant.
THEOREM SpecInv == Spec => []Inv
<1> QED
  BY InitInv, NextInv, PTL DEF Spec

-----------------------------------------------------------------------------
\* Symbols lie in the arena, aligned and apart, whatever a kernel declares and
\* whichever warps race to place them.
THEOREM SpecLayout == Spec => []Layout
<1>1. Inv => Layout
  BY DEF Inv
<1> QED
  BY <1>1, SpecInv, PTL

\* No warp reads the arena or the symbols while another one changes them.
THEOREM SpecUnlockedReadsAreSafe == Spec => []UnlockedReadsAreSafe
<1>1. Inv => UnlockedReadsAreSafe
  BY PlacingFirst DEF UnlockedReadsAreSafe
<1> QED
  BY <1>1, SpecInv, PTL

\* What a warp is about to access is the symbol its instruction names.
THEOREM SpecAccessesOwnSymbol == Spec => []AccessesOwnSymbol
<1>1. Inv => AccessesOwnSymbol
  BY DEF Inv, Held, Past, Layout, AccessesOwnSymbol
<1> QED
  BY <1>1, SpecInv, PTL

\* No symbol is placed twice, or moved.
THEOREM SpecSymbolsStay == Spec => SymbolsStay
<1> DEFINE Stay == \A s \in DOMAIN offsets : s \in DOMAIN offsets' /\ offsets'[s] = offsets[s]
<1>1. Inv /\ [Next]_vars => [Stay]_vars
  <2> SUFFICES ASSUME Inv, Next PROVE Stay
    OBVIOUS
  <2>1. CASE offsets' = offsets
    BY <2>1
  <2>2. ASSUME NEW w \in Warps, Place(w) PROVE Stay
    BY <2>2, PlaceInv
  <2>3. ASSUME NEW w \in Warps, Step(w), ~Place(w) PROVE offsets' = offsets
    BY <2>3 DEF Step, Lookup, GetSharedPtr, GetOffset, GetSharedBase, Access, registry
  <2>4. Over => offsets' = offsets
    BY DEF Over, vars
  <2> QED
    BY <2>1, <2>2, <2>3, <2>4 DEF Next
<1> QED
  BY <1>1, SpecInv, PTL DEF Spec, SymbolsStay
=============================================================================
