---------------------------- MODULE MCControlFlow ----------------------------
(***************************************************************************)
(* Small instances of ControlFlow.                                         *)
(***************************************************************************)
EXTENDS ControlFlow

MCValues   == {0, 1}
MCUnaryOp  == [v \in MCValues |-> 1 - v]
MCBinaryOp == [p \in MCValues \X MCValues |-> p[1] * (1 - p[2])]

\* One value is enough where only the location of a value matters.
OneUnaryOp  == [v \in {0} |-> 0]
OneBinaryOp == [p \in {<<0, 0>>} |-> 0]

\* rax and rcx can be allocated, r10 is the scratch register.  Two are enough
\* here, fewer than ValueStack asks for: no handler of ControlFlow pins more
\* than one register.
TwoRegs == {0, 1, 10}
Scratch == {10}
Cx      == <<1>>

\* No action reads effect, so states that differ in it alone are explored once;
\* every step is still checked.
View == <<stack, used, count, last, spills, ok, regs, mem, control, height>>

=============================================================================
