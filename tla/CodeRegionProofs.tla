--------------------------- MODULE CodeRegionProofs ---------------------------
(***************************************************************************)
(* CodeRegion for any size of units, pages, region and requests: the       *)
(* bitmap and the pointer keep the pieces of code apart.                   *)
(***************************************************************************)
EXTENDS CodeRegion, TLAPS

-----------------------------------------------------------------------------
(* Arithmetic. *)

LEMMA TimesMonotone ==
  ASSUME NEW a \in Int, NEW b \in Int, NEW n \in Nat, a <= b
  PROVE  a * n <= b * n
  OBVIOUS

LEMMA Quotient ==
  ASSUME NEW a \in Nat, NEW n \in Nat \ {0}
  PROVE  /\ a \div n \in Nat
         /\ (a \div n) * n <= a
         /\ a < (a \div n + 1) * n
  OBVIOUS

-----------------------------------------------------------------------------
(* Facts about the operators. *)

\* A request takes at least one unit, and its units are more bytes than it asks.
LEMMA UnitsCover ==
  ASSUME NEW size \in Nat
  PROVE  /\ Units(size) \in Nat \ {0}
         /\ size < Units(size) * UnitSize
  BY CodeRegionAssumption, Quotient DEF Units

LEMMA LargerType ==
  ASSUME NEW a \in Nat \ {0}, NEW b \in Nat
  PROVE  Larger(a, b) \in Nat \ {0}
  BY DEF Larger

\* The units of the region are in it, and the upper half has some of them.
LEMMA Region ==
  /\ End \in Nat /\ halfBoundary \in Nat /\ adjustTotalUnits \in Nat
  /\ adjustTotalUnits * UnitSize <= End
  /\ halfBoundary < adjustTotalUnits
<1>1. halfBoundary \in Nat
  BY CodeRegionAssumption DEF halfBoundary
<1>2. /\ End \in Nat
      /\ (halfBoundary + 1) * UnitSize <= End
  <2>1. TotalUnits * UnitSize \in Nat /\ Adjust \in Nat
    BY CodeRegionAssumption
  <2>2. (halfBoundary + 1) * UnitSize \in Nat
    BY <1>1, CodeRegionAssumption
  <2> QED BY <2>1, <2>2, CodeRegionAssumption DEF End, halfBoundary
<1>3. /\ adjustTotalUnits \in Nat
      /\ adjustTotalUnits * UnitSize <= End
      /\ End < (adjustTotalUnits + 1) * UnitSize
  BY <1>2, Quotient, CodeRegionAssumption DEF adjustTotalUnits
<1>4. halfBoundary < adjustTotalUnits
  <2>1. SUFFICES ASSUME adjustTotalUnits + 1 <= halfBoundary + 1 PROVE FALSE
    BY <1>1, <1>3
  <2>2. (adjustTotalUnits + 1) * UnitSize <= (halfBoundary + 1) * UnitSize
    BY <2>1, <1>1, <1>3, TimesMonotone, CodeRegionAssumption
  <2>3. /\ (adjustTotalUnits + 1) * UnitSize \in Int
        /\ (halfBoundary + 1) * UnitSize \in Int
    BY <1>1, <1>3, CodeRegionAssumption
  <2> QED BY <2>2, <2>3, <1>2, <1>3
<1> QED BY <1>1, <1>2, <1>3, <1>4

\* A place within n units ends before the end of the region.
LEMMA InRegion ==
  ASSUME NEW base \in Nat, NEW size \in Nat,
         base + Units(size) <= adjustTotalUnits
  PROVE  base * UnitSize + size < End
<1>1. /\ Units(size) \in Nat
      /\ size < Units(size) * UnitSize
  BY UnitsCover
<1>2. (base + Units(size)) * UnitSize <= adjustTotalUnits * UnitSize
  BY <1>1, Region, TimesMonotone, CodeRegionAssumption
<1>3. (base + Units(size)) * UnitSize = base * UnitSize + Units(size) * UnitSize
  BY <1>1, CodeRegionAssumption
<1>4. /\ base * UnitSize \in Int /\ Units(size) * UnitSize \in Int
      /\ adjustTotalUnits * UnitSize \in Int
  BY <1>1, Region, CodeRegionAssumption
<1> QED BY <1>1, <1>2, <1>3, <1>4, Region

-----------------------------------------------------------------------------
(* The invariant.  A place is what was taken for a chunk: it is marked, it   *)
(* is in the region, and two of them have no unit in common.                 *)

Apart(c, d) == \/ c.index + Units(c.size) <= d.index
               \/ d.index + Units(d.size) <= c.index

ChunkOK(c) ==
  /\ c \in [index : Nat, size : Nat \ {0}]
  /\ c.index + Units(c.size) <= adjustTotalUnits
  /\ Span(c.index, c.size) \subseteq used

IInv ==
  /\ TypeOK
  /\ SearchInRegion
  /\ HalvesApart
  /\ \A c \in chunks : ChunkOK(c)
  /\ \A c, d \in chunks : c # d => Apart(c, d)

LEMMA InitInv == Init => IInv
<1> SUFFICES ASSUME Init PROVE IInv
  OBVIOUS
<1>1. TypeOK
  BY Region DEF Init, TypeOK
<1>2. HalvesApart
  BY Region DEF Init, HalvesApart
<1> QED BY <1>1, <1>2 DEF Init, IInv, SearchInRegion

\* A place that is free has no unit in common with any chunk.
LEMMA FreeApart ==
  ASSUME NEW base \in Nat, NEW size \in Nat \ {0}, NEW c,
         ChunkOK(c), Span(base, size) \cap used = {}
  PROVE  Apart(Chunk(base, size), c) /\ Apart(c, Chunk(base, size))
<1> DEFINE n == Units(size)
           m == Units(c.size)
<1>1. n \in Nat \ {0} /\ m \in Nat \ {0} /\ c.index \in Nat
  BY UnitsCover DEF ChunkOK
<1>2. base .. base + n - 1 \cap c.index .. c.index + m - 1 = {}
  BY DEF ChunkOK, Span
<1>3. base + n <= c.index \/ c.index + m <= base
  <2>1. SUFFICES ASSUME c.index < base + n, base < c.index + m PROVE FALSE
    BY <1>1
  <2>2. CASE base <= c.index
    BY <2>1, <2>2, <1>1, <1>2, c.index \in base .. base + n - 1
  <2>3. CASE c.index < base
    BY <2>1, <2>3, <1>1, <1>2, base \in c.index .. c.index + m - 1
  <2> QED BY <2>2, <2>3, <1>1
<1> HIDE DEF n, m
<1> QED BY <1>3 DEF Apart, Chunk, n, m

\* Handing out a free place keeps the chunks as the invariant says.
LEMMA AddChunk ==
  ASSUME NEW base \in Nat, NEW size \in Nat \ {0},
         \A c \in chunks : ChunkOK(c),
         \A c, d \in chunks : c # d => Apart(c, d),
         base + Units(size) <= adjustTotalUnits,
         Span(base, size) \cap used = {},
         Set(base, size),
         chunks' = chunks \cup {Chunk(base, size)}
  PROVE  /\ \A c \in chunks' : ChunkOK(c)'
         /\ \A c, d \in chunks' : c # d => Apart(c, d)
<1>1. \A c \in chunks : ChunkOK(c)'
  BY DEF ChunkOK, Set
<1>2. ChunkOK(Chunk(base, size))'
  BY DEF ChunkOK, Chunk, Set
<1>3. \A c \in chunks : Apart(Chunk(base, size), c) /\ Apart(c, Chunk(base, size))
  BY FreeApart
<1> QED BY <1>1, <1>2, <1>3

LEMMA LinearInv ==
  ASSUME IInv, NEW size \in Sizes, NEW align \in {UnitSize, PageSize},
         Linear(size, align)
  PROVE  IInv'
<1> DEFINE s == Larger(size, align)
<1>1. s \in Nat \ {0} /\ Units(s) \in Nat \ {0}
  BY CodeRegionAssumption, LargerType, UnitsCover
<1>2. CASE ~Free(pointer, s, adjustTotalUnits)
  BY <1>2 DEF Linear, IInv, TypeOK, SearchInRegion, HalvesApart, ChunkOK
<1>3. CASE Free(pointer, s, adjustTotalUnits)
  <2>1. /\ Set(pointer, s)
        /\ pointer' = pointer + Units(s)
        /\ chunks' = chunks \cup {Chunk(pointer, s)}
        /\ UNCHANGED <<state, asking>>
    BY <1>3 DEF Linear
  <2>2. pointer \in Nat /\ halfBoundary <= pointer
    BY Region DEF IInv, TypeOK
  <2>3. /\ pointer + Units(s) < adjustTotalUnits
        /\ Span(pointer, s) \cap used = {}
        /\ used' = used \cup (pointer .. pointer + Units(s) - 1)
    BY <1>3, <2>1 DEF Free, Set, Span
  <2>4. /\ \A c \in chunks' : ChunkOK(c)'
        /\ \A c, d \in chunks' : c # d => Apart(c, d)
    <3> HIDE DEF s
    <3> QED BY <1>1, <2>1, <2>2, <2>3, Region, AddChunk DEF IInv
  <2>5. TypeOK'
    <3>1. used' \subseteq 0 .. adjustTotalUnits - 1
      <4>1. used \subseteq 0 .. adjustTotalUnits - 1
        BY DEF IInv, TypeOK
      <4>2. pointer .. pointer + Units(s) - 1 \subseteq 0 .. adjustTotalUnits - 1
        <5> HIDE DEF s
        <5> QED BY <1>1, <2>2, <2>3, Region
      <4> QED BY <2>3, <4>1, <4>2
    <3>2. pointer' \in halfBoundary .. adjustTotalUnits - 1
      BY <1>1, <2>1, <2>2, <2>3, Region
    <3>3. chunks' \subseteq [index : Nat, size : Nat \ {0}]
      BY <1>1, <2>1, <2>2 DEF IInv, TypeOK, Chunk
    <3> QED BY <2>1, <3>1, <3>2, <3>3 DEF IInv, TypeOK
  <2>6. HalvesApart'
    <3>1. \A u \in used : u \in Int
      BY DEF IInv, TypeOK
    <3> HIDE DEF s
    <3> QED BY <1>1, <2>1, <2>2, <2>3, <3>1, Region DEF IInv, HalvesApart
  <2> QED BY <2>1, <2>4, <2>5, <2>6 DEF IInv, SearchInRegion
<1> QED BY <1>2, <1>3

LEMMA TryInv ==
  ASSUME IInv, NEW index \in 0 .. TotalUnits - 1, Try(index)
  PROVE  IInv'
<1>1. /\ asking \in Nat \ {0} /\ index \in Nat /\ Units(asking) \in Nat \ {0}
  BY CodeRegionAssumption, UnitsCover DEF IInv, TypeOK, Try
<1>2. /\ index + Units(asking) < halfBoundary
      /\ Span(index, asking) \cap used = {}
      /\ used' = used \cup (index .. index + Units(asking) - 1)
      /\ chunks' = chunks \cup {Chunk(index, asking)}
      /\ asking' = 0 /\ pointer' = pointer
  BY DEF Try, Free, Set, Span
<1>3. state' = state
  BY <1>1, <1>2, Region, InRegion DEF Try
<1>4. /\ \A c \in chunks' : ChunkOK(c)'
      /\ \A c, d \in chunks' : c # d => Apart(c, d)
  BY <1>1, <1>2, Region, AddChunk DEF IInv, Try
<1>5. TypeOK'
  <2>1. used' \subseteq 0 .. adjustTotalUnits - 1
    <3>1. used \subseteq 0 .. adjustTotalUnits - 1
      BY DEF IInv, TypeOK
    <3>2. index .. index + Units(asking) - 1 \subseteq 0 .. adjustTotalUnits - 1
      BY <1>1, <1>2, Region
    <3> QED BY <1>2, <3>1, <3>2
  <2>2. chunks' \subseteq [index : Nat, size : Nat \ {0}]
    BY <1>1, <1>2 DEF IInv, TypeOK, Chunk
  <2> QED BY <1>2, <1>3, <2>1, <2>2 DEF IInv, TypeOK
<1>6. HalvesApart'
  BY <1>1, <1>2, Region DEF IInv, TypeOK, HalvesApart
<1> QED BY <1>3, <1>4, <1>5, <1>6 DEF IInv, SearchInRegion

LEMMA NextInv == IInv /\ [Next]_vars => IInv'
<1> SUFFICES ASSUME IInv, [Next]_vars PROVE IInv'
  OBVIOUS
<1>1. ASSUME NEW size \in Sizes, NEW align \in {UnitSize, PageSize}, Linear(size, align)
      PROVE  IInv'
  BY <1>1, LinearInv
<1>2. ASSUME NEW size \in Sizes, Ask(size) PROVE IInv'
  BY <1>2 DEF Ask, IInv, TypeOK, SearchInRegion, HalvesApart, ChunkOK
<1>3. ASSUME NEW index \in 0 .. TotalUnits - 1, Try(index) PROVE IInv'
  BY <1>3, TryInv
<1>4. CASE UNCHANGED vars
  BY <1>4 DEF vars, IInv, TypeOK, SearchInRegion, HalvesApart, ChunkOK
<1> QED BY <1>1, <1>2, <1>3, <1>4 DEF Next

-----------------------------------------------------------------------------
(* Theorems. *)

\* The strengthening holds in every state sgxwasm_allocate_code can leave.
THEOREM Inductive == Spec => []IInv
<1> QED BY InitInv, NextInv, PTL DEF Spec

\* No bit outside the region is set, and the pointer of the linear half never
\* leaves it (check_and_set and sgxwasm_code_pointer).
THEOREM TypeCorrect == Spec => []TypeOK
<1>1. IInv => TypeOK
  BY DEF IInv
<1> QED BY <1>1, Inductive, PTL

\* The assert behind the random search (dynamic_runtime.c 269) cannot fail.
THEOREM SearchStaysInRegion == Spec => []SearchInRegion
<1>1. IInv => SearchInRegion
  BY DEF IInv
<1> QED BY <1>1, Inductive, PTL

\* The random search never takes a unit of the linear half.
THEOREM HalvesStayApart == Spec => []HalvesApart
<1>1. IInv => HalvesApart
  BY DEF IInv
<1> QED BY <1>1, Inductive, PTL

\* No two pieces of code that were handed out share a byte.
THEOREM CodeIsExclusive == Spec => []Exclusive
<1>1. IInv => Exclusive
  <2> SUFFICES ASSUME IInv PROVE Exclusive
    OBVIOUS
  <2>1. ASSUME NEW c \in chunks PROVE First(c) >= 0 /\ Behind(c) <= End
    <3>1. /\ c.index \in Nat /\ c.size \in Nat
          /\ c.index + Units(c.size) <= adjustTotalUnits
      BY <2>1 DEF IInv, ChunkOK
    <3>2. c.index * UnitSize + c.size < End
      BY <3>1, InRegion
    <3>3. c.index * UnitSize \in Nat
      BY <3>1, CodeRegionAssumption
    <3> QED BY <3>1, <3>2, <3>3, Region DEF First, Behind
  <2>2. ASSUME NEW c \in chunks, NEW d \in chunks,
               c.index + Units(c.size) <= d.index
        PROVE  Behind(c) <= First(d)
    <3>1. c.index \in Nat /\ c.size \in Nat /\ d.index \in Nat
      BY <2>2 DEF IInv, ChunkOK
    <3>2. Units(c.size) \in Nat /\ c.size < Units(c.size) * UnitSize
      BY <3>1, UnitsCover
    <3>3. (c.index + Units(c.size)) * UnitSize <= d.index * UnitSize
      BY <2>2, <3>1, <3>2, TimesMonotone, CodeRegionAssumption
    <3>4. (c.index + Units(c.size)) * UnitSize
            = c.index * UnitSize + Units(c.size) * UnitSize
      BY <3>1, <3>2, CodeRegionAssumption
    <3>5. /\ c.index * UnitSize \in Int /\ Units(c.size) * UnitSize \in Int
          /\ d.index * UnitSize \in Int
      BY <3>1, <3>2, CodeRegionAssumption
    <3> QED BY <3>1, <3>2, <3>3, <3>4, <3>5 DEF First, Behind
  <2> QED BY <2>1, <2>2 DEF IInv, Exclusive, Apart
<1> QED BY <1>1, Inductive, PTL

=============================================================================
