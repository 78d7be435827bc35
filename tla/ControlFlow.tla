----------------------------- MODULE ControlFlow -----------------------------
(***************************************************************************)
(* Structured control flow in sgxwasm_compile_function_body (compile.c):   *)
(* the stack of control blocks, the state of each label, jumps and the     *)
(* merges they need, dead code.  Of the straight-line handlers of          *)
(* ValueStack a few are here: what differs between paths is where slots    *)
(* live.                                                                   *)
(*                                                                         *)
(* The machine runs along with the compiler.  While code is compiled that  *)
(* no path reaches, it holds nothing; a label keeps what the machine holds *)
(* when it arrives there, and a path goes on when the label is bound.      *)
(* A jump back to a loop is an effect.                                     *)
(***************************************************************************)
EXTENDS MergePoint

CONSTANTS UnaryOp, BinaryOp, Immediates, NumLocals, NumParams, MaxParams,   \* of ValueStack
          RAX, RCX, RDX, ScratchGP, ParamRegs, FirstFunction, HasTable, MaxMemory,
          Arity,                  \* number of results of the function, at most 1
          MaxDepth,               \* bound on the nesting of blocks, the body included
          UnreachableInElse,      \* TRUE: an else arm may contain unreachable
          CodeAfterDeadBlock      \* TRUE: instructions may follow a block that never ends

ASSUME ControlFlowAssumption ==
  /\ Immediates \subseteq Values
  /\ NumLocals \in Nat /\ NumParams \in 0 .. NumLocals /\ NumLocals <= MaxHeight
  \* No handler pins more than one register and asks for another.
  /\ Cardinality(Regs \ Reserved) >= 2
  /\ ParamRegs \in Seq(Regs \ Reserved) /\ FirstFunction \in BOOLEAN
  /\ Arity \in {0, 1} /\ MaxDepth \in Nat \ {0}
  /\ UnreachableInElse \in BOOLEAN /\ CodeAfterDeadBlock \in BOOLEAN

VARIABLES stack, used, count, last, spills, ok, regs, mem, effect,    \* of ValueStack
          control,                \* control_stack, the function body first
          height                  \* height of the operand stack for the validator

Code == INSTANCE ValueStack

vars == <<Code!vars, control, height>>

Ctx == Code!Ctx

\* The validator lets code that cannot be reached pop what it likes.
AnyHeight == -1

-----------------------------------------------------------------------------
(* Control blocks. *)

Current   == control[Len(control)]
Target(d) == control[Len(control) - d]                    \* control_at
Labels    == 0 .. Len(control) - 1

Reachable(b) == b.reach = "Reachable"

\* inner_reachability
Inner(b) == IF Reachable(b) THEN "Reachable" ELSE "SpecOnlyReachable"

\* Mutant: the results of the block count as its parameters.
BlockBelow(type, arity, c, valid) ==
  [type |-> type, arity |-> arity, base |-> Height(c) - arity, valid |-> valid,
   reach |-> Inner(Current), reached |-> type = "loop" /\ Reachable(Current),
   label |-> FreshState, else |-> FreshState]

\* push_control.  reached is start_reached of a loop and end_reached of the
\* others; valid is the height at which the validator enters the block.
Block(type, arity, c, valid) ==
  [type |-> type, arity |-> arity, base |-> Height(c), valid |-> valid,
   reach |-> Inner(Current), reached |-> type = "loop" /\ Reachable(Current),
   label |-> FreshState, else |-> FreshState]

Init ==
  /\ Code!Init
  /\ control = <<[type |-> "block", arity |-> Arity, base |-> NumLocals, valid |-> NumLocals,
                  reach |-> "Reachable", reached |-> FALSE,
                  label |-> FreshState, else |-> FreshState]>>
  /\ height = NumLocals

\* Only what a later handler may read is kept of the state of a label.
Kept(c) == [c EXCEPT !.spills = 0, !.ok = TRUE,
                     !.regs = LiveRegs(c), !.mem = LiveMem(c)]

\* The compiler goes on with context c and control stack k.
Proceed(c, k) ==
  /\ control' = k
  /\ Code!Become(IF k # <<>> /\ Reachable(k[Len(k)]) THEN c
                 ELSE [c EXCEPT !.regs = NoRegs, !.mem = NoFrame])

\* end_control
EndControl(k) == [k EXCEPT ![Len(k)].reach = "Unreachable"]

\* The main loop compiles an instruction that is not skipped; n operands of
\* the block are there for it.
Compiles(n) == /\ ok /\ control # <<>> /\ Reachable(Current)
               /\ height - Current.valid >= n

-----------------------------------------------------------------------------
(* Jumps.  m is a context with a control stack. *)

At(c, k) == [c |-> c, k |-> k]

\* Mutant: every jump chooses the state of the label anew.
LabelStateAnew(m, i, s) == InitMerge(s, m.k[i].base, NumLocals, m.k[i].arity)

\* The state of label i, if need be chosen by init_merge from state s.
LabelState(m, i, s) ==
  IF m.k[i].reached THEN m.k[i].label
  ELSE Assert(InitMerge(s, m.k[i].base, NumLocals, m.k[i].arity), m.k[i].label.stack = <<>>)

\* Asserts of the merge functions; full is merge_full_stack_with.  Mergeable
\* is more than the recipe asserts, and what StackTransfer starts from.
MergeAsserts(s, t, arity, full) ==
  /\ t.ok
  /\ IF full THEN Height(t) = Height(s) ELSE Height(t) <= Height(s) /\ arity <= Height(t)
  /\ Mergeable(s, t, arity)

\* Mutant: the label is not marked as reached.
JoinUnmarked(m, i, s, t, full) ==
  LET arity  == IF m.k[i].type = "loop" THEN 0 ELSE m.k[i].arity
      frame  == {m.c.spills} \cup Stored(s, t, arity)
  IN  IF ~MergeAsserts(s, t, arity, full) THEN At(Assert(m.c, FALSE), m.k)
      ELSE At([m.c EXCEPT !.spills = CHOOSE x \in frame : \A y \in frame : y <= x],
              [m.k EXCEPT ![i].label = Kept(Merge(s, t, arity))])

\* Mutant: the slots stored by the merge do not count for the frame.
JoinUnframed(m, i, s, t, full) ==
  LET arity  == IF m.k[i].type = "loop" THEN 0 ELSE m.k[i].arity
      joined == [m.k[i] EXCEPT !.label = Kept(Merge(s, t, arity)), !.reached = TRUE]
  IN  IF ~MergeAsserts(s, t, arity, full) THEN At(Assert(m.c, FALSE), m.k)
      ELSE At(m.c, [m.k EXCEPT ![i] = joined])

\* Merge state s into state t of label i; the label counts as reached.
Join(m, i, s, t, full) ==
  LET arity  == IF m.k[i].type = "loop" THEN 0 ELSE m.k[i].arity
      frame  == {m.c.spills} \cup Stored(s, t, arity)
      joined == [m.k[i] EXCEPT !.label = Kept(Merge(s, t, arity)), !.reached = TRUE]
  IN  IF ~MergeAsserts(s, t, arity, full) THEN At(Assert(m.c, FALSE), m.k)
      ELSE At([m.c EXCEPT !.spills = CHOOSE x \in frame : \A y \in frame : y <= x],
              [m.k EXCEPT ![i] = joined])

\* br_impl
BrImpl(m, i) == Join(m, i, m.c, LabelState(m, i, m.c), FALSE)

\* return_impl asserts that there is a result.
ReturnImpl(m) == At(Assert(m.c, Height(m.c) >= Arity), m.k)

\* br_or_ret
BrOrRet(m, d) == IF d = Len(m.k) - 1 THEN ReturnImpl(m) ELSE BrImpl(m, Len(m.k) - d)

\* The cases of generate_br_table one after the other, in ascending order.
BrAll(m, D) ==
  LET done[d \in 0 .. Len(m.k)] ==
        IF d = 0 THEN m
        ELSE IF d - 1 \in D THEN BrOrRet(done[d - 1], d - 1) ELSE done[d - 1]
  IN  done[Len(m.k)]

\* Mutant: the compiler goes on with the state it has.
RestoreNothing(c, s) == c

\* steal_state: the compiler goes on with the state of a label.
Restore(c, s) == [s EXCEPT !.spills = c.spills, !.ok = c.ok]

\* What leaves the straight line: the results of the function, and the frame
\* that a loop starts again with.
Outermost(d) == d = Len(control) - 1
Backward(d)  == Outermost(d) \/ Target(d).type = "loop"

Carried(m, d) ==
  IF Outermost(d) THEN [j \in 1 .. Arity |-> ValueAt(m.c, Height(m.c))]
  ELSE [i \in 1 .. Target(d).base |-> ValueAt(m.k[Len(control) - d].label, i)]

Leaves(k, m, D) == Code!Emit(k, [d \in D |-> IF Backward(d) THEN Carried(m, d) ELSE <<>>])

\* What the machine held on its way back to a loop is not kept.
Forgotten(k) == [i \in DOMAIN k |-> IF k[i].type # "loop" THEN k[i]
                                    ELSE [k[i] EXCEPT !.label.regs = NoRegs,
                                                      !.label.mem = NoFrame]]

-----------------------------------------------------------------------------
(* Straight-line handlers. *)

Straight(n, pushes, c) == /\ Compiles(n) /\ Code!Become(c)
                          /\ height' = height - n + pushes
                          /\ UNCHANGED control

I32Const(v)  == Straight(0, 1, PushConst(Ctx, v)) /\ Code!Emit("const", <<v>>)
LoadValue(v) == Straight(0, 1, LoadedValue(Ctx, v)) /\ Code!Emit("const", <<v>>)
GetLocal(x)  == Straight(0, 1, CopyLocal(Ctx, x)) /\ Code!Emit("get_local", <<x>>)
SetLocal(x)  == Straight(1, 0, SetLocalImpl(Ctx, x, FALSE)) /\ Code!Emit("set_local", <<x>>)
Drop         == Straight(1, 0, DropTop(Ctx)) /\ Code!Emit("drop", <<>>)

-----------------------------------------------------------------------------
(* BLOCK, LOOP, IF *)

Opens(type, arity, n) ==
  /\ Compiles(n) /\ Len(control) < MaxDepth
  /\ height' = height - n /\ Code!Emit(type, <<arity>>)

OpenBlock(arity) ==
  /\ Opens("block", arity, 0)
  /\ Proceed(Ctx, Append(control, Block("block", arity, Ctx, height)))

\* The locals are spilled, then the state is saved for the jumps back.
OpenLoop(arity) ==
  /\ Opens("loop", arity, 0)
  /\ \E c \in {SpillLocals(Ctx, NumLocals)} :
       Proceed(c, Append(control, [Block("loop", arity, c, height) EXCEPT
                                     !.label = [Kept(c) EXCEPT !.regs = NoRegs, !.mem = NoFrame]]))

\* The state after popping the condition is saved for the else arm.
OpenIf(arity) ==
  /\ Opens("if", arity, 1)
  /\ \E c \in {PopToRegister(Ctx, {}).c} :
       Proceed(c, Append(control, [Block("if", arity, c, height - 1) EXCEPT !.else = Kept(c)]))

-----------------------------------------------------------------------------
(* ELSE, END *)

\* The validator: the results of the block are there, and an if without an
\* else has none.
Closes == height \in {AnyHeight, Current.valid + Current.arity}

\* The code that runs into the end of the block merges into its label.
FallThrough(m, t) ==
  IF Reachable(Current) THEN Join(m, Len(control), Ctx, t, TRUE) ELSE m

Else ==
  /\ ok /\ Len(control) > 1 /\ Current.type = "if" /\ Closes
  /\ LET n  == Len(control)
         m0 == At(Ctx, control)
     IN  \E m \in {FallThrough(m0, LabelState(m0, n, Ctx))} :
           Proceed(Restore(m.c, m.k[n].else),
                   [m.k EXCEPT ![n].type = "else", ![n].else = FreshState,
                               ![n].reach = Inner(Target(1))])
  /\ height' = Current.valid /\ Code!Emit("else", <<>>)

\* finish_one_armed_if and post_finish_one_armed_if: both arms merge, unless
\* no path comes from the first.
FinishOneArmedIf(m) ==
  LET n     == Len(control)
      label == LabelState(m, n, Current.else)
      arms  == Join(FallThrough(m, label), n, Current.else, label, TRUE)
  IN  IF Current.reached \/ Reachable(Current)
      THEN At(Restore(arms.c, arms.k[n].label), arms.k)
      ELSE At(Restore(m.c, Current.else), m.k)

\* pop_control
PopControl(m) ==
  LET n    == Len(control)
      fell == FallThrough(m, Current.label)
  IN  IF Current.type = "loop" THEN m
      ELSE IF Current.type = "if" THEN FinishOneArmedIf(m)
      ELSE IF Current.reached THEN At(Restore(fell.c, fell.k[n].label), fell.k)
      ELSE m

\* Is the code after the block reached?
ParentReached == \/ Reachable(Current)
                 \/ Current.type # "loop" /\ Current.reached
                 \/ Current.type = "if"

\* Mutant: the code after a block always counts as reached.
OutsideAlwaysReached(k) == SubSeq(k, 1, Len(k) - 1)

\* The control stack once the block is popped.
Outside(k) ==
  LET n == Len(k) - 1
  IN  IF ~ParentReached /\ Reachable(k[n])
      THEN [SubSeq(k, 1, n) EXCEPT ![n].reach = "SpecOnlyReachable"]
      ELSE SubSeq(k, 1, n)

End ==
  /\ ok /\ Len(control) > 1 /\ Closes /\ (Current.type = "if" => Current.arity = 0)
  /\ \E m \in {PopControl(At(Ctx, control))} : Proceed(m.c, Outside(m.k))
  /\ height' = Current.valid + Current.arity /\ Code!Emit("end", <<>>)

\* The implicit return at the end of the body.
EndFunction ==
  /\ ok /\ Len(control) = 1 /\ Closes
  /\ Proceed(ReturnImpl(At(Ctx, control)).c, <<>>)
  /\ height' = AnyHeight
  /\ IF Reachable(Current) THEN Leaves("return", At(Ctx, control), {0})
     ELSE Code!Emit("return", <<>>)

-----------------------------------------------------------------------------
(* Jumps. *)

TargetArity(d) == IF Target(d).type = "loop" THEN 0 ELSE Target(d).arity

\* RETURN as the last instruction but the end of the body also ends the body.
Return ==
  /\ Compiles(Arity)
  /\ \E m \in {ReturnImpl(At(Ctx, control))} :
       /\ \/ Proceed(m.c, EndControl(control))
          \/ Len(control) = 1 /\ Proceed(m.c, <<>>)
       /\ Leaves("return", m, {Len(control) - 1})
  /\ height' = AnyHeight

Br(d) ==
  /\ Compiles(TargetArity(d))
  /\ \E m \in {BrOrRet(At(Ctx, control), d)} :
       Proceed(m.c, Forgotten(EndControl(m.k))) /\ Leaves("br", m, {d})
  /\ height' = AnyHeight

\* The merge code runs on the way to the target only.  The code marks the label
\* of the body as well, which nothing reads.
BrIf(d) ==
  /\ Compiles(1 + TargetArity(d))
  /\ \E m \in {BrOrRet(At(PopToRegister(Ctx, {}).c, control), d)} :
       Proceed(m.c, Forgotten(m.k)) /\ Leaves("br_if", m, {d})
  /\ height' = height - 1

\* With a table, a register is needed for the comparisons.
BrTable(D, table) ==
  /\ \A d \in D : Compiles(1 + TargetArity(d))
  /\ \A d, e \in D : TargetArity(d) = TargetArity(e)
  /\ LET value == PopToRegister(Ctx, {})
         c     == IF table THEN GetUnused(value.c, {}, {value.reg}).c ELSE value.c
     IN  \E m \in {BrAll(At(c, control), D)} :
           Proceed(m.c, Forgotten(EndControl(m.k))) /\ Leaves("br_table", m, D)
  /\ height' = AnyHeight

\* UNREACHABLE emits nothing, and in an else arm it does nothing.
Unreachable ==
  /\ ok /\ control # <<>> /\ Current.reach # "Unreachable"
  /\ Current.type = "else" /\ Reachable(Current) => UnreachableInElse
  /\ Proceed(Ctx, IF Current.type = "else" THEN control ELSE EndControl(control))
  /\ height' = AnyHeight /\ Code!Emit("unreachable", <<>>)

\* Code after a block whose end no path reaches is still compiled; drop stands
\* for the instructions that take the results of that block.
DropNoResult ==
  /\ ok /\ control # <<>> /\ Current.reach = "SpecOnlyReachable" /\ CodeAfterDeadBlock
  /\ height > Current.valid
  /\ Proceed(IF stack = <<>> THEN Assert(Ctx, FALSE) ELSE DropTop(Ctx), control)
  /\ height' = height - 1 /\ Code!Emit("drop", <<>>)

-----------------------------------------------------------------------------

Next ==
  \/ \E v \in Immediates : I32Const(v)
  \/ \E v \in Values : LoadValue(v)
  \/ \E x \in 1 .. NumLocals : GetLocal(x) \/ SetLocal(x)
  \/ Drop
  \/ \E arity \in {0, 1} : OpenBlock(arity) \/ OpenLoop(arity) \/ OpenIf(arity)
  \/ Else \/ End \/ EndFunction \/ Return \/ Unreachable \/ DropNoResult
  \/ \E d \in Labels : Br(d) \/ BrIf(d) \/ BrTable({d}, FALSE)
  \/ \E D \in (SUBSET Labels) \ {{}} : BrTable(D, TRUE)

Spec == Init /\ [][Next]_vars

-----------------------------------------------------------------------------
(* Properties. *)

Live == control # <<>> /\ Reachable(Current)

States == {Ctx} \cup {control[i].label : i \in DOMAIN control}
                \cup {control[i].else : i \in DOMAIN control}

TypeOK ==
  /\ States \subseteq Context
  /\ height \in {AnyHeight} \cup NumLocals .. MaxHeight + 1
  /\ \A i \in DOMAIN control :
       /\ control[i].type \in {"block", "loop", "if", "else"}
       /\ control[i].reach \in {"Reachable", "Unreachable", "SpecOnlyReachable"}
       /\ control[i].base \in NumLocals .. MaxHeight /\ control[i].arity \in {0, 1}

\* No assert of a merge, a return or the allocator fails, and every merge is one
\* that the transfer of the slots is made for.
AssertsHold == ok

\* The compiler's stack is as high as the validator's wherever code runs, and
\* so is the state of a label that has been reached.
HeightsAgree ==
  /\ Live => height = Len(stack)
  /\ \A i \in DOMAIN control : control[i].reached =>
       Height(control[i].label) =
         control[i].base + (IF control[i].type = "loop" THEN 0 ELSE control[i].arity)

\* The use counts are right in every state that the compiler may come back to.
CountsExact ==
  \A s \in States, r \in Regs :
    /\ s.count[r] = Cardinality(Holders(s, r))
    /\ r \in s.used <=> (r \in Reserved \/ s.count[r] > 0)

\* A label once reached keeps its slots where the first jump has put them: code
\* for that jump has been emitted.
LabelsFixed ==
  [][\A i \in DOMAIN control \cap DOMAIN control' :
       control[i].reached => control'[i].label.stack = control[i].label.stack]_vars

\* The frame of the function reaches every slot that is read from it.
FrameCoversSlots ==
  \A s \in States : \A i \in DOMAIN s.stack :
    s.stack[i].loc = "stack" => i <= spills

\* Every path through the code computes what the WebAssembly code means.
Frame0(s) == [i \in DOMAIN s.stack |-> ValueAt(s, i)]

\* The machine has a frame of values where a path runs.
Path == IF Live THEN Frame0(Ctx) ELSE <<>>

\* Of a block only the frames matter that wait at its end and for its other arm.
Scope(b) ==
  [type |-> b.type, arity |-> b.arity, base |-> b.base,
   exit |-> IF b.reached /\ b.type # "loop" THEN {Frame0(b.label)} ELSE {},
   else |-> IF b.type = "if" THEN {Frame0(b.else)} ELSE {}]

Scopes == [i \in DOMAIN control |-> Scope(control[i])]

Wasm == INSTANCE WasmControl WITH frame <- Path, live <- Live, blocks <- Scopes

ImplementsWasm == Wasm!Spec

=============================================================================
