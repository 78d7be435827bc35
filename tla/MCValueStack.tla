----------------------------- MODULE MCValueStack -----------------------------
(***************************************************************************)
(* Small instances of ValueStack.  With two values, v and not w is not     *)
(* commutative and tells a value from its copy made too late.              *)
(***************************************************************************)
EXTENDS ValueStack

MCValues   == {0, 1}
MCUnaryOp  == [v \in MCValues |-> 1 - v]
MCBinaryOp == [p \in MCValues \X MCValues |-> p[1] * (1 - p[2])]

\* One value is enough where only the location of a value matters.
OneUnaryOp  == [v \in {0} |-> 0]
OneBinaryOp == [p \in {<<0, 0>>} |-> 0]

\* rax, rcx and rdx can be allocated, r10 is the scratch register.
ThreeRegs == {0, 1, 2, 10}
FourRegs  == {0, 1, 2, 7, 10}
FiveRegs  == {0, 1, 2, 6, 7, 10}
Scratch   == {10}

\* rbx, rsp and rbp, which the code reserves as well.
WithCalleeSaved == {0, 1, 2, 3, 4, 10}
CalleeSaved     == {3, 4, 10}

\* GPParameterList, cut down.
Dx   == <<2>>
DxCx == <<2, 1>>
DiDx == <<7, 2>>

\* No action reads effect, so states that differ in it alone are explored once;
\* every step is still checked.
View == <<cache, regs, mem>>

=============================================================================
