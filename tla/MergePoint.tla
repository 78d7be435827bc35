------------------------------ MODULE MergePoint ------------------------------
(***************************************************************************)
(* Merge points of the compiler (init_merge and merge_stack_with in        *)
(* compile.c): the first jump to a label decides where every slot lives    *)
(* there, later jumps move their values to these places.  Operators on     *)
(* the contexts of RegisterCache; ControlFlow calls them.                  *)
(*                                                                         *)
(* The state of a label is a context too.  Its regs and mem are what the   *)
(* machine holds when it arrives by the jump compiled last.                *)
(***************************************************************************)
EXTENDS RegisterCache

NoRegs  == [r \in Regs |-> Junk]
NoFrame == [i \in Frame |-> Junk]

\* label_state as push_control creates it.
FreshState == [stack |-> <<>>, used |-> Reserved, count |-> [r \in Regs |-> 0],
               last |-> {}, spills |-> 0, ok |-> TRUE, regs |-> NoRegs, mem |-> NoFrame]

-----------------------------------------------------------------------------
(* init_merge *)

\* A region is placed slot by slot; reuse remembers where a register went.
Placing(d) == [d |-> d, reuse |-> [r \in Regs |-> NoReg]]

\* The register for a slot that is neither kept nor a constant: its own if it
\* is free, the one its register went to, any free one.
Home(p, slot, reuses, taken) ==
  LET free == (Regs \ p.d.used) \ taken
  IN  IF slot.loc = "reg" /\ slot.reg \notin p.d.used THEN slot.reg
      ELSE IF slot.loc = "reg" /\ reuses /\ p.reuse[slot.reg] # NoReg THEN p.reuse[slot.reg]
      ELSE IF free # {} THEN FirstOf(free) ELSE NoReg

\* Mutant: the register is pushed without a use being counted.
PlaceUncounted(p, slot, keeps, reuses, taken) ==
  LET home == Home(p, slot, reuses, taken)
  IN  IF (slot.loc = "stack" /\ keeps) \/ (slot.loc = "const" /\ reuses)
      THEN [p EXCEPT !.d = Push(@, slot)]
      ELSE IF home = NoReg THEN [p EXCEPT !.d = Push(@, StackSlot)]
      ELSE [d     |-> Push(p.d, RegSlot(home)),
            reuse |-> IF reuses /\ p.reuse[slot.reg] = NoReg
                      THEN [p.reuse EXCEPT ![slot.reg] = home] ELSE p.reuse]

\* One turn of the loop in init_merge_region.
Place(p, slot, keeps, reuses, taken) ==
  LET home == Home(p, slot, reuses, taken)
  IN  IF (slot.loc = "stack" /\ keeps) \/ (slot.loc = "const" /\ reuses)
      THEN [p EXCEPT !.d = Push(@, slot)]
      ELSE IF home = NoReg THEN [p EXCEPT !.d = Push(@, StackSlot)]
      ELSE [d     |-> PushRegister(p.d, home),
            reuse |-> IF reuses /\ p.reuse[slot.reg] = NoReg
                      THEN [p.reuse EXCEPT ![slot.reg] = home] ELSE p.reuse]

\* init_merge_region: slots is the part of the source to be placed.  Constants
\* are allowed exactly where registers are reused.
Region(d, slots, keeps, reuses, taken) ==
  LET placed[k \in 0 .. Len(slots)] ==
        IF k = 0 THEN Placing([d EXCEPT !.stack = <<>>])
        ELSE Place(placed[k - 1], slots[k], keeps, reuses, taken)
  IN  placed[Len(slots)].d

\* The registers that the locals and the merged values live in.
Wanted(s, locals, arity) ==
  {r \in Regs : \E i \in Holders(s, r) : i <= locals \/ i > Height(s) - arity}

\* |---- locals ----|---- in between ----|-- discarded --|---- merge ----|
\* The merge region is placed first, then the locals, then what is in between.
InitMerge(s, base, locals, arity) ==
  LET taken   == Reserved \cup Wanted(s, locals, arity)
      moves   == Height(s) # base + arity
      merged  == Region(FreshState, SubSeq(s.stack, Height(s) - arity + 1, Height(s)),
                        ~moves, FALSE, taken)
      low     == Region(merged, SubSeq(s.stack, 1, locals), TRUE, FALSE, taken)
      between == Region(low, SubSeq(s.stack, locals + 1, base), TRUE, TRUE, taken)
  IN  [between EXCEPT !.stack = low.stack \o between.stack \o merged.stack,
                      !.ok = Height(s) >= base /\ taken \subseteq low.used]

-----------------------------------------------------------------------------
(* merge_stack_with and merge_full_stack_with *)

\* The source slot of slot d of a target of the given height.
SourceOf(s, height, arity, d) == IF d <= height - arity THEN d ELSE Height(s) - height + d

\* Source slots that may go to one register.
SameSource(s, i, j) ==
  IF s.stack[i].loc = "stack" THEN s.stack[j].loc = "stack" /\ s.mem[i] = s.mem[j]
  ELSE s.stack[i].loc = "reg" /\ s.stack[i] = s.stack[j]

\* What the asserts of the recipe demand, and what StackTransfer takes for
\* granted: target constants are those of the source, and target slots share a
\* register only if the source slots did.
Mergeable(s, t, arity) ==
  LET src(d) == SourceOf(s, Height(t), arity, d)
  IN  /\ \A d \in DOMAIN t.stack : t.stack[d].loc = "const" => s.stack[src(d)] = t.stack[d]
      /\ \A d, e \in DOMAIN t.stack :
           d # e /\ t.stack[d].loc = "reg" /\ t.stack[d] = t.stack[e]
             => SameSource(s, src(d), src(e))

\* Mutant: the merged values are looked for at the height of the target.
MergeUnshifted(s, t, arity) ==
  LET into(r) == {d \in DOMAIN t.stack : t.stack[d] = RegSlot(r)}
  IN  [t EXCEPT !.regs = [r \in Regs |-> IF into(r) = {} THEN Junk
                                         ELSE ValueAt(s, CHOOSE d \in into(r) : TRUE)],
                !.mem = [i \in Frame |-> IF i \in DOMAIN t.stack /\ t.stack[i] = StackSlot
                                         THEN ValueAt(s, i) ELSE Junk]]

\* The moves happen at once, as StackTransfer shows: t, reached from s.
Merge(s, t, arity) ==
  LET from(d) == ValueAt(s, SourceOf(s, Height(t), arity, d))
      into(r) == {d \in DOMAIN t.stack : t.stack[d] = RegSlot(r)}
  IN  [t EXCEPT !.regs = [r \in Regs |-> IF into(r) = {} THEN Junk
                                         ELSE from(CHOOSE d \in into(r) : TRUE)],
                !.mem = [i \in Frame |-> IF i \in DOMAIN t.stack /\ t.stack[i] = StackSlot
                                         THEN from(i) ELSE Junk]]

\* The frame slots that the moves write.
Stored(s, t, arity) ==
  {d \in DOMAIN t.stack :
     /\ t.stack[d] = StackSlot
     /\ ~(s.stack[SourceOf(s, Height(t), arity, d)] = StackSlot
          /\ SourceOf(s, Height(t), arity, d) = d)}

=============================================================================
