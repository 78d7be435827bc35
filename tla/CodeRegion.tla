------------------------------ MODULE CodeRegion ------------------------------
(***************************************************************************)
(* The region that compiled code is placed in (dynamic_runtime.c, built    *)
(* with __LARGE_PROGRAM__, as config.h does): a bitmap of units, a pointer *)
(* that hands out the upper half in order, and a random search of the      *)
(* lower half, for the small code units of a randomised layout.            *)
(*                                                                         *)
(* Addresses count from sgxwasm_code_base, which is the region's start     *)
(* moved up to a page border: Adjust bytes of the region are lost.  The    *)
(* pointer moves by whole units and is kept as an index.                   *)
(***************************************************************************)
EXTENDS Integers

CONSTANTS UnitSize,
          PageSize,
          TotalUnits,  \* CodeSize / UnitSize
          Adjust,      \* bytes between the region's start and its base
          Threshold,   \* CHUNK_THRESHOLD
          Sizes        \* what is asked for, in bytes

ASSUME CodeRegionAssumption ==
  /\ UnitSize \in Nat \ {0} /\ PageSize \in Nat \ {0} /\ TotalUnits \in Nat
  /\ Adjust \in 1 .. PageSize
  /\ Threshold \in Nat /\ Sizes \subseteq Nat \ {0}
  /\ (TotalUnits \div 2 + 1) * UnitSize <= TotalUnits * UnitSize - Adjust

VARIABLES used,     \* sgxwasm_code_bitmap, the units whose bit is set
          pointer,  \* sgxwasm_code_pointer, as a unit
          asking,   \* the size a random search is on for, 0 if there is none
          state,    \* running, full or failed: which assert has failed
          chunks    \* not in the program: what was handed out

vars == <<used, pointer, asking, state, chunks>>

End               == TotalUnits * UnitSize - Adjust  \* sgxwasm_code_end
adjustTotalUnits  == End \div UnitSize
halfBoundary      == TotalUnits \div 2

Larger(a, b) == IF a < b THEN b ELSE a

Init ==
  /\ used = {}
  /\ pointer = halfBoundary
  /\ asking = 0
  /\ state = "running"
  /\ chunks = {}

-----------------------------------------------------------------------------
(* check_and_set. *)

\* Mutant: a size that fills no whole unit at its end.
UnitsCut(size) == Larger(size \div UnitSize, 1)

Units(size) == size \div UnitSize + 1

Span(base, size) == base .. base + Units(size) - 1

\* Mutant: the last unit may be taken as well.
FreeToLast(base, size, limit) ==
  base + Units(size) <= limit /\ Span(base, size) \cap used = {}

Free(base, size, limit) ==
  base + Units(size) < limit /\ Span(base, size) \cap used = {}

Set(base, size) == used' = used \cup Span(base, size)

-----------------------------------------------------------------------------
(* sgxwasm_allocate_code. *)

Chunk(index, size) == [index |-> index, size |-> size]

Idle == state = "running" /\ asking = 0

\* A page at least for a springboard, a unit for anything else.
Linear(size, align) ==
  LET s == Larger(size, align)
  IN  /\ Idle
      /\ IF Free(pointer, s, adjustTotalUnits)
         THEN /\ Set(pointer, s)
              /\ pointer' = pointer + Units(s)
              /\ chunks' = chunks \cup {Chunk(pointer, s)}
              /\ UNCHANGED state
         ELSE /\ state' = "full"
              /\ UNCHANGED <<used, pointer, chunks>>
      /\ UNCHANGED asking

Ask(size) ==
  /\ Idle
  /\ size <= Threshold
  /\ asking' = size
  /\ UNCHANGED <<used, pointer, state, chunks>>

\* Mutant: indexes are drawn page by page.
IndexesOfPages == {i \in 0 .. TotalUnits - 1 : i * UnitSize % PageSize = 0}

Indexes == 0 .. TotalUnits - 1

\* Mutant: the search has the whole region to itself.
TryAnywhere(index) ==
  /\ state = "running" /\ asking # 0
  /\ index \in Indexes
  /\ Free(index, asking, TotalUnits)
  /\ Set(index, asking)
  /\ state' = IF index * UnitSize + asking < End THEN state ELSE "failed"
  /\ chunks' = chunks \cup {Chunk(index, asking)}
  /\ asking' = 0
  /\ UNCHANGED pointer

\* One round of the search.  A round that finds the place taken changes nothing.
Try(index) ==
  /\ state = "running" /\ asking # 0
  /\ index \in Indexes
  /\ Free(index, asking, halfBoundary)
  /\ Set(index, asking)
  /\ state' = IF index * UnitSize + asking < End THEN state ELSE "failed"
  /\ chunks' = chunks \cup {Chunk(index, asking)}
  /\ asking' = 0
  /\ UNCHANGED pointer

Next ==
  \/ \E size \in Sizes : \/ Linear(size, UnitSize)
                         \/ Linear(size, PageSize)
                         \/ Ask(size)
  \/ \E index \in 0 .. TotalUnits - 1 : Try(index)

\* rand() reads the processor's random numbers: every index comes up in the end.
Spec == /\ Init /\ [][Next]_vars
        /\ \A index \in 0 .. TotalUnits - 1 : WF_vars(Try(index))

-----------------------------------------------------------------------------
(* Properties. *)

TypeOK ==
  /\ used \subseteq 0 .. adjustTotalUnits - 1
  /\ pointer \in halfBoundary .. adjustTotalUnits - 1
  /\ asking \in Sizes \cup {0}
  /\ state \in {"running", "full", "failed"}
  /\ chunks \subseteq [index : Nat, size : Nat \ {0}]

\* No random search ends beyond the region (dynamic_runtime.c 269).
SearchInRegion == state # "failed"

\* No two pieces of code share a byte, however sizes and unit borders meet, and
\* all of them are inside the region.
First(c) == c.index * UnitSize
Behind(c) == First(c) + c.size

Exclusive ==
  /\ \A c \in chunks : First(c) >= 0 /\ Behind(c) <= End
  /\ \A c, d \in chunks : c # d => Behind(c) <= First(d) \/ Behind(d) <= First(c)

\* The upper half is packed up to the pointer and free behind it: random units
\* never get in its way, and the region is called full only at its end.
HalvesApart == {u \in used : u >= halfBoundary} = halfBoundary .. pointer - 1

\* A search ends if the lower half has a free run that is long enough; without
\* one it goes on for ever.
HasRoom(size) == \E index \in 0 .. TotalUnits - 1 : Free(index, size, halfBoundary)

SearchEnds == asking # 0 /\ HasRoom(asking) ~> asking = 0

=============================================================================
