----------------------------- MODULE WasmControl -----------------------------
(***************************************************************************)
(* What structured WebAssembly code means: WasmStack's frame, a stack of   *)
(* blocks, and jumps that leave blocks with the results on top.  A         *)
(* function body is read from its first instruction to its last; what runs *)
(* is any path through it.  A block remembers the frame of a path that has *)
(* jumped to its end, and an if the frame its other arm starts with.       *)
(***************************************************************************)
EXTENDS Integers, Sequences

CONSTANTS Values, UnaryOp, BinaryOp, NumLocals, MaxHeight, MaxParams,   \* of WasmStack
          Arity,        \* number of results of the function
          MaxDepth      \* bound on the nesting of blocks

VARIABLES frame,        \* locals and operands of the running path
          effect,       \* the last instruction; values returned or carried back to a loop
          live,         \* does a path run through the current instruction
          blocks        \* the enclosing blocks, the function body first

Body == INSTANCE WasmStack

vars == <<frame, effect, live, blocks>>

\* exit and else hold at most one frame.
Block(type, arity) == [type |-> type, arity |-> arity, base |-> Len(frame),
                       exit |-> {}, else |-> {}]

Last      == blocks[Len(blocks)]
Target(d) == blocks[Len(blocks) - d]
Labels    == 0 .. Len(blocks) - 1

Init == /\ Body!Init
        /\ live = TRUE
        /\ blocks = <<[Block("block", Arity) EXCEPT !.base = NumLocals]>>

\* An instruction of the operands of the current block.
Straight == /\ live
            /\ \/ Body!Produce \/ Body!Drop
               \/ \E x \in 1 .. NumLocals : Body!GetLocal(x) \/ Body!SetLocal(x)
            /\ UNCHANGED <<live, blocks>>

\* What is left of frame f when n values leave a block of the given base.
Leave(f, base, n) == SubSeq(f, 1, base) \o SubSeq(f, Len(f) - n + 1, Len(f))

Outermost(d) == d = Len(blocks) - 1
Forward(d)   == ~Outermost(d) /\ Target(d).type # "loop"

\* A path with frame f jumps to one of the labels of D.
Arrive(f, D) ==
  [i \in DOMAIN blocks |->
     IF \E d \in D : Forward(d) /\ i = Len(blocks) - d
     THEN [blocks[i] EXCEPT !.exit = {Leave(f, blocks[i].base, blocks[i].arity)}]
     ELSE blocks[i]]

Carries(d) == IF Target(d).type = "loop" THEN 0 ELSE Target(d).arity

\* Results of the function, or the frame a loop starts again with.
Backward(f, D) == [d \in D |-> IF Forward(d) THEN <<>>
                               ELSE IF Outermost(d) THEN Leave(f, 0, Arity)
                               ELSE SubSeq(f, 1, Target(d).base)]

Jump(k, f, D) == /\ Body!Does(k, Backward(f, D))
                 /\ blocks' = Arrive(f, D)

Dead == live' = FALSE /\ frame' = <<>>

\* n operands are consumed and the path goes on with the instruction that follows.
Consume(n) == live /\ Body!Operands >= n /\ frame' = Body!Keep(n) /\ live' = TRUE

Open(type, arity, n) ==
  /\ Body!Does(type, <<arity>>)
  /\ Len(blocks) < MaxDepth
  /\ Consume(n)
  /\ blocks' = Append(blocks, [Block(type, arity) EXCEPT
                                 !.base = @ - n,
                                 !.else = IF type = "if" THEN {frame'} ELSE {}])

\* A path at the end of a block is one that ran into it or jumped to it.
Continue(frames) == /\ live' = (frames # {})
                    /\ frame' \in (IF frames = {} THEN {<<>>} ELSE frames)

\* The values of a block that is run through are the ones that stay.
Falls == live => Len(frame) = Last.base + Last.arity

Else == /\ Body!Does("else", <<>>)
        /\ Len(blocks) > 1 /\ Last.type = "if" /\ Falls
        /\ Continue(Last.else)
        /\ blocks' = [blocks EXCEPT ![Len(blocks)] =
                        [Last EXCEPT !.type = "else", !.else = {},
                                     !.exit = IF live THEN {frame} ELSE @]]

End == /\ Body!Does("end", <<>>)
       /\ Len(blocks) > 1 /\ Falls
       /\ Continue((IF live THEN {frame} ELSE {}) \cup Last.exit \cup Last.else)
       /\ blocks' = SubSeq(blocks, 1, Len(blocks) - 1)

\* n operands and those that the jump to label d takes along.
Enough(n, d) == live /\ Body!Operands >= n + Carries(d)

Br(d)      == Enough(0, d) /\ Jump("br", frame, {d}) /\ Dead
BrIf(d)    == Enough(1, d) /\ Consume(1) /\ Jump("br_if", frame', {d})
BrTable(D) == (\A d \in D : Enough(1, d)) /\ Jump("br_table", Body!Keep(1), D) /\ Dead

\* What stands in code that no path reaches has no meaning.
Unreachable == Body!Does("unreachable", <<>>) /\ Dead /\ UNCHANGED blocks
Skip        == Body!Does("drop", <<>>) /\ ~live /\ Dead /\ UNCHANGED blocks

\* return, and the end of the function body.
Return == /\ live => Body!Operands >= Arity
          /\ Body!Does("return", IF live THEN Backward(frame, {Len(blocks) - 1}) ELSE <<>>)
          /\ Dead
          /\ blocks' \in {blocks, <<>>}

Next == \/ Straight
        \/ \E type \in {"block", "loop", "if"}, arity \in {0, 1} :
             Open(type, arity, IF type = "if" THEN 1 ELSE 0)
        \/ Else \/ End \/ Unreachable \/ Skip \/ Return
        \/ \E d \in Labels : Br(d) \/ BrIf(d)
        \/ \E D \in SUBSET Labels : BrTable(D)

Spec == Init /\ [][Next]_vars

=============================================================================
