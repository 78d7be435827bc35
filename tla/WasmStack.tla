------------------------------ MODULE WasmStack ------------------------------
(***************************************************************************)
(* What a straight-line WebAssembly function body means: a frame of local  *)
(* variables below a stack of operands, both holding plain values.  This   *)
(* is the specification the generated code has to implement; the value of  *)
(* a slot has no location here.                                            *)
(***************************************************************************)
EXTENDS Integers, Sequences

CONSTANTS Values,      \* WebAssembly values
          UnaryOp,     \* [Values -> Values]
          BinaryOp,    \* [Values \X Values -> Values]
          NumLocals,   \* number of locals, parameters included
          MaxHeight,   \* bound on locals plus operands
          MaxParams    \* bound on the parameters of a called function

VARIABLES frame,       \* the locals, then the operands
          effect       \* the last instruction: its kind, immediates and what it
                      \* did outside the frame

Effect(k, args) == [kind |-> k, args |-> args]

Operands    == Len(frame) - NumLocals
Operand(k)  == frame[Len(frame) + 1 - k]           \* Operand(1) is the top
Keep(n)     == SubSeq(frame, 1, Len(frame) - n)
Args(n)     == SubSeq(frame, Len(frame) - n + 1, Len(frame))

Init == /\ frame \in [1 .. NumLocals -> Values]
        /\ effect = Effect("none", <<>>)

\* An instruction of kind k pops n operands and pushes the values vs.  The kind
\* comes first: TLC compares arguments of one kind only.
Does(k, args)        == effect'.kind = k /\ effect' = Effect(k, args)
Step(k, args, n, vs) == /\ Does(k, args)
                        /\ Operands >= n
                        /\ Len(frame) - n + Len(vs) <= MaxHeight
                        /\ frame' = Keep(n) \o vs

Produce == \E v \in Values : Step("const", <<v>>, 0, <<v>>)      \* constants, globals
Unary   == Operands >= 1 /\ Step("unary", <<>>, 1, <<UnaryOp[Operand(1)]>>)
Binary  == Operands >= 2 /\ Step("binary", <<>>, 2, <<BinaryOp[Operand(2), Operand(1)]>>)
Select  == /\ Operands >= 3
           /\ Step("select", <<>>, 3, <<IF Operand(1) # 0 THEN Operand(3) ELSE Operand(2)>>)
Loop    == Step("loop", <<>>, 0, <<>>)                           \* entering a loop
Drop    == Step("drop", <<>>, 1, <<>>)
Grow    == \E v \in Values : Step("grow", <<v>>, 1, <<v>>)       \* memory.grow

GetLocal(x) == Step("get_local", <<x>>, 0, <<frame[x]>>)
TeeLocal(x) == /\ Does("tee_local", <<x>>) /\ Operands >= 1
               /\ frame' = [frame EXCEPT ![x] = Operand(1)]
SetLocal(x) == /\ Does("set_local", <<x>>) /\ Operands >= 1
               /\ frame' = [Keep(1) EXCEPT ![x] = Operand(1)]

Store     == Step("store", Args(2), 2, <<>>)
SetGlobal == Step("global", Args(1), 1, <<>>)

\* A call consumes its arguments and may return a value.
Results == {<<>>} \cup {<<v>> : v \in Values}

Call == \E n \in 0 .. MaxParams, result \in Results :
          Operands >= n /\ Step("call", <<Args(n), result>>, n, result)

\* An indirect call pops the table index before the arguments.
CallIndirect == \E n \in 0 .. MaxParams, result \in Results :
                  Operands > n /\ Step("indirect", <<Args(n + 1), result>>, n + 1, result)

Next == \/ Produce \/ Unary \/ Binary \/ Select \/ Loop \/ Drop \/ Grow
        \/ \E x \in 1 .. NumLocals : GetLocal(x) \/ SetLocal(x) \/ TeeLocal(x)
        \/ Store \/ SetGlobal \/ Call \/ CallIndirect

vars == <<frame, effect>>

Spec == Init /\ [][Next]_vars

=============================================================================
