--------------------------- MODULE ScratchUseProofs ---------------------------
(***************************************************************************)
(* The reuse of r11 for any number of memories and globals and any depth   *)
(* of nesting: the note the compiler keeps is right on every path, so that *)
(* every access that relies on it is.                                      *)
(***************************************************************************)
EXTENDS ScratchUse, TLAPS

\* What the note says is all that r11 may hold.
NoteRight == note # None => holds \subseteq {note}

\* The last access made the note it relies on.
AccessNoted == used # None => note = used

IInv == NoteRight /\ AccessNoted

LEMMA InitInv == Init => IInv
BY DEF Init, IInv, NoteRight, AccessNoted

LEMMA NextInv == IInv /\ [Next]_vars => IInv'
<1> SUFFICES ASSUME IInv, [Next]_vars PROVE IInv'
  OBVIOUS
<1> USE DEF IInv, NoteRight, AccessNoted
<1>1. ASSUME NEW ref \in Refs, Access(ref) PROVE IInv'
  BY <1>1, ScratchUseAssumption DEF Access
<1>2. CASE Clobber
  BY <1>2 DEF Clobber, Forget
<1>3. CASE Select
  BY <1>3 DEF Select, Forget
<1>4. CASE OpenBlock \/ OpenLoop \/ OpenIf
  BY <1>4 DEF OpenBlock, OpenLoop, OpenIf, Opens, Forget
<1>5. CASE Else \/ End \/ NextFunction
  BY <1>5 DEF Else, End, NextFunction, Forget
<1>6. CASE Return
  BY <1>6 DEF Return, Leave
<1>7. CASE Unreachable
  BY <1>7 DEF Unreachable
<1>8. ASSUME NEW k \in 0 .. Depth - 1, Br(k) \/ BrIf(k) PROVE IInv'
  BY <1>8 DEF Br, BrIf, Leave, Forget
<1>9. ASSUME NEW ks \in SUBSET (0 .. Depth - 1) \ {{}}, BrTable(ks) PROVE IInv'
  BY <1>9 DEF BrTable, Leave, Forget
<1>10. CASE BranchDropped
  BY <1>10 DEF BranchDropped, Forget
<1>11. CASE UNCHANGED vars
  BY <1>11 DEF vars
<1> QED
  BY <1>1, <1>2, <1>3, <1>4, <1>5, <1>6, <1>7, <1>8, <1>9, <1>10, <1>11 DEF Next

\* The note is never a wrong guess: what find_register_use returns is in r11.
THEOREM NoteIsRight == Spec => []IInv
<1> QED BY InitInv, NextInv, PTL DEF Spec

\* Every access to the memory or to a global has the right address in r11.
THEOREM AccessIsRight == Spec => []AccessRight
<1>1. IInv => AccessRight
  BY DEF IInv, NoteRight, AccessNoted, AccessRight
<1> QED BY <1>1, NoteIsRight, PTL

=============================================================================
