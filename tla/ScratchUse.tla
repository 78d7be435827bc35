----------------------------- MODULE ScratchUse -----------------------------
(***************************************************************************)
(* Reuse of r11 (compile.c, __OPT_REUSE_REGISTER__, which config.h turns   *)
(* on).  A memory access needs the address of the memory or of a global in *)
(* r11.  The compiler keeps a note of the address it put there last, and   *)
(* loads none if it is the one that is needed: a guess about every path    *)
(* that gets here, made while the code is written in one direction.        *)
(*                                                                         *)
(* holds is what r11 may hold when the code emitted next is run, over all  *)
(* the paths that lead there; it is empty where none does.  A function of  *)
(* its own, as the first one compiled may use r11 for operands, is the     *)
(* matter of ValueStack's FirstFunction.                                   *)
(***************************************************************************)
EXTENDS Naturals, SequencesExt

CONSTANTS Refs,     \* what has an address: the memory, each global
          MaxDepth  \* nesting of blocks, the body counts

None   == "none"   \* no note (MEMREF_NONE); as a content: anything else
Held   == Refs \cup {None}

ASSUME ScratchUseAssumption == MaxDepth \in Nat \ {0} /\ None \notin Refs

VARIABLES control,  \* the control stack, innermost block last
          note,     \* register_reuse_map[ScratchGP2]
          holds,    \* what r11 may hold; not in the program
          used      \* address that the last access takes r11 to hold

vars == <<control, note, holds, used>>

-----------------------------------------------------------------------------
(* Blocks.  atEnd and atElse collect what r11 may hold on the jumps to the  *)
(* end and to the else arm; the program does not keep them.                 *)

Reaches == {"reachable", "specOnly", "unreachable"}

Block(type, reach, atElse) ==
  [type |-> type, reach |-> reach, endReached |-> FALSE, atEnd |-> {}, atElse |-> atElse]

Depth     == Len(control)
Current   == control[Depth]
Live(c)   == c.reach = "reachable"
Compiling == Current.reach # "unreachable"
Inner(c)  == IF Live(c) THEN "reachable" ELSE "specOnly"

\* What is left of it at a border between units: the jump that the passes put
\* there may go by the springboard, which uses r11 when it is built to test for
\* co-location (__COLOC_TEST__).
Across(contents) == IF contents = {} THEN {} ELSE contents \cup {None}

EndControl(c) == [c EXCEPT ![Depth].reach = "unreachable"]

\* The jump to the label of block k, counted from the innermost; the outermost
\* is a return.
Outermost(k) == k = Depth - 1
Jump(c, k) ==
  IF c[Depth - k].type = "loop" \/ Outermost(k) THEN c
  ELSE [c EXCEPT ![Depth - k].endReached = TRUE,
                 ![Depth - k].atEnd = @ \cup Across(holds)]

Forget == note' = None

Body == <<Block("body", "reachable", {})>>

Init ==
  /\ control = Body
  /\ note = None
  /\ holds = {None}
  /\ used = None

-----------------------------------------------------------------------------
(* Straight-line code. *)

\* load_mem, store_mem, get_global_addr.
Access(ref) ==
  /\ Compiling
  /\ note' = ref
  /\ holds' = IF note = ref \/ holds = {} THEN holds ELSE {ref}
  /\ used' = ref
  /\ UNCHANGED control

\* A call, or a copysign: r11 holds anything after it.
Clobber ==
  /\ Compiling
  /\ Forget
  /\ holds' = IF holds = {} THEN {} ELSE {None}
  /\ used' = None
  /\ UNCHANGED control

Select ==
  /\ Compiling
  /\ Forget /\ used' = None
  /\ UNCHANGED <<control, holds>>

-----------------------------------------------------------------------------
(* Control flow. *)

Opens == Compiling /\ Depth < MaxDepth /\ used' = None

OpenBlock ==
  /\ Opens
  /\ control' = Append(control, Block("block", Inner(Current), {}))
  /\ holds' = Across(holds)
  /\ Forget

\* Mutant: the note stays what it was before the loop.
OpenLoopKnowing ==
  /\ Opens
  /\ control' = Append(control, Block("loop", Inner(Current), {}))
  /\ holds' = IF holds = {} THEN {} ELSE Held
  /\ UNCHANGED note

\* Code further on may jump back here with anything in r11.
OpenLoop ==
  /\ Opens
  /\ control' = Append(control, Block("loop", Inner(Current), {}))
  /\ holds' = IF holds = {} THEN {} ELSE Held
  /\ Forget

OpenIf ==
  /\ Opens
  /\ control' = Append(control, Block("if", Inner(Current), Across(holds)))
  /\ holds' = Across(holds)
  /\ Forget

\* An arm that ends jumps over the else arm.  One that does not may still run
\* into it, behind an unreachable.
Else ==
  /\ Depth > 1 /\ Current.type = "if"
  /\ LET ends == Live(Current)
         arm  == Block("else", Inner(control[Depth - 1]), {})
     IN  /\ control' = [control EXCEPT
              ![Depth] = [arm EXCEPT
                !.endReached = Current.endReached \/ ends,
                !.atEnd = Current.atEnd \cup IF ends THEN Across(holds) ELSE {}]]
         /\ holds' = Current.atElse \cup IF ends THEN {} ELSE Across(holds)
  /\ Forget /\ used' = None

\* Paths meet: those that fall through, those that jumped here and, if there was
\* no else, those that jumped over the first arm.
End ==
  /\ Depth > 1
  /\ LET outer   == Front(control)
         reached == Live(Current) \/ Current.endReached \/ Current.type = "if"
     IN  control' = IF ~reached /\ Live(outer[Depth - 1])
                    THEN [outer EXCEPT ![Depth - 1].reach = "specOnly"]
                    ELSE outer
  /\ holds' = Across(holds) \cup Current.atEnd \cup Current.atElse
  /\ Forget /\ used' = None

Leave(c) ==
  /\ control' = EndControl(c)
  /\ holds' = {}
  /\ used' = None

\* RETURN does not touch the note; nothing is compiled before the next end.
Return ==
  /\ Compiling
  /\ Leave(control)
  /\ UNCHANGED note

\* Nothing is emitted.
Unreachable ==
  /\ Compiling
  /\ control' = IF Current.type = "else" THEN control ELSE EndControl(control)
  /\ used' = None
  /\ UNCHANGED <<note, holds>>

Br(k) ==
  /\ Compiling
  /\ Live(Current) \/ Outermost(k)
  /\ Leave(Jump(control, k))
  /\ Forget

\* The path that does not branch keeps r11 and the note.
BrIf(k) ==
  /\ Compiling /\ Live(Current)
  /\ control' = Jump(control, k)
  /\ used' = None
  /\ UNCHANGED <<note, holds>>

BrTable(ks) ==
  /\ Compiling /\ Live(Current)
  /\ Leave(FoldLeft(Jump, control, SetToSeq(ks)))
  /\ Forget

\* Where nothing jumps: br and br_table only end the block.
BranchDropped ==
  /\ Compiling /\ ~Live(Current)
  /\ control' = EndControl(control)
  /\ used' = None
  /\ Forget
  /\ UNCHANGED holds

\* The last end; the next function starts with no note, and with r11 as its
\* callers leave it.
NextFunction ==
  /\ Depth = 1
  /\ control' = Body
  /\ holds' = Held
  /\ Forget /\ used' = None

Next ==
  \/ \E ref \in Refs : Access(ref)
  \/ Clobber \/ Select
  \/ OpenBlock \/ OpenLoop \/ OpenIf
  \/ Else \/ End
  \/ Return \/ Unreachable
  \/ \E k \in 0 .. Depth - 1 : Br(k) \/ BrIf(k)
  \/ \E ks \in SUBSET (0 .. Depth - 1) \ {{}} : BrTable(ks)
  \/ BranchDropped
  \/ NextFunction

Spec == Init /\ [][Next]_vars

-----------------------------------------------------------------------------
(* Properties. *)

\* find_register_use is never wrong: load_mem, store_mem and get_global_addr
\* find in r11 the address they take it to hold, whichever path has led there,
\* through loops, joins, calls and what the passes put between units.
AccessRight == used # None => holds \subseteq {used}

=============================================================================
