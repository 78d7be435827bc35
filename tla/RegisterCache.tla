---------------------------- MODULE RegisterCache ----------------------------
(***************************************************************************)
(* The register allocator of the single-pass compiler (register.c) and the *)
(* cache state it serves (struct CacheState in compile.h): where the       *)
(* compiler believes every local and operand of the WebAssembly function   *)
(* lives.  Operators only; ValueStack and ControlFlow give them variables.  *)
(*                                                                         *)
(* A context c is what a handler of compile.c reads and writes:            *)
(*   c.stack   the cache stack, one slot per local and per operand         *)
(*   c.used    *used_registers          c.count  register_use_count        *)
(*   c.last    *last_spilled_regs       c.spills num_used_spill_slots      *)
(*   c.ok      FALSE once an assert of the code has failed                 *)
(* and, for what the emitted instructions do when they run,                *)
(*   c.regs, c.mem   the contents of the machine registers and of the      *)
(*                   stack frame.                                          *)
(* One register class is modelled; slots are numbered from 1.              *)
(***************************************************************************)
EXTENDS Integers, FiniteSets, Sequences

CONSTANTS Regs,        \* the register codes, ordered as the enum of register.h
          Reserved,    \* AllocableRegList: the registers never handed out
          Values,      \* WebAssembly values
          MaxHeight    \* bound on the height of the cache stack

ASSUME RegsAssumption ==
  /\ Regs \subseteq Nat
  /\ IsFiniteSet(Regs)
  /\ Reserved \subseteq Regs
  /\ 0 \in Values /\ Values \subseteq Nat
  /\ MaxHeight \in Nat

NoReg == -1                              \* REG_UNKNOWN
Junk  == -1                              \* contents nobody may rely on

Frame == 1 .. MaxHeight                  \* the stack frame slots of the function

-----------------------------------------------------------------------------
(* Slots.  make_slot_stack, make_slot_register, make_slot_const. *)

\* A spilled slot keeps its old register and constant in the code; nothing
\* reads them while the slot is on the stack.
StackSlot    == [loc |-> "stack", reg |-> NoReg, val |-> 0]
RegSlot(r)   == [loc |-> "reg",   reg |-> r,     val |-> 0]
ConstSlot(v) == [loc |-> "const", reg |-> NoReg, val |-> v]

Slot == {StackSlot} \cup {RegSlot(r) : r \in Regs} \cup {ConstSlot(v) : v \in Values}

Context ==
  [stack : Seq(Slot), used : SUBSET Regs, count : [Regs -> Nat], last : SUBSET Regs,
   spills : Nat, ok : BOOLEAN,
   regs : [Regs -> Values \cup {Junk}], mem : [Frame -> Values \cup {Junk}]]

Height(c)     == Len(c.stack)
Top(c)        == c.stack[Len(c.stack)]
Holders(c, r) == {i \in DOMAIN c.stack : c.stack[i].loc = "reg" /\ c.stack[i].reg = r}

\* What slot i holds when the code emitted so far has run.
ValueAt(c, i) ==
  LET s == c.stack[i]
  IN  IF s.loc = "reg" THEN c.regs[s.reg] ELSE IF s.loc = "const" THEN s.val ELSE c.mem[i]

\* The contents a later handler may read.
LiveRegs(c) == [r \in Regs  |-> IF Holders(c, r) # {} THEN c.regs[r] ELSE Junk]
LiveMem(c)  == [i \in Frame |-> IF i \in DOMAIN c.stack /\ c.stack[i].loc = "stack"
                                THEN c.mem[i] ELSE Junk]

Assert(c, P) == [c EXCEPT !.ok = @ /\ P]

-----------------------------------------------------------------------------
(* register.c *)

FirstOf(S) == CHOOSE r \in S : \A q \in S : r <= q       \* get_first_reg_set

Consistent(c, r) == (r \in c.used) <=> (c.count[r] # 0)  \* the assert of is_used

IncUsed(c, r) == [c EXCEPT !.used = @ \cup {r}, !.count = [c.count EXCEPT ![r] = @ + 1]]

DecUsed(c, r) ==
  IF r \in c.used /\ c.count[r] > 0
  THEN [c EXCEPT !.count = [c.count EXCEPT ![r] = @ - 1],
                 !.used  = IF c.count[r] = 1 THEN @ \ {r} ELSE @]
  ELSE Assert(c, FALSE)

ClearUsed(c, r) == [c EXCEPT !.count = [c.count EXCEPT ![r] = 0], !.used = @ \ {r}]

\* Mutant: a reset that leaves the reserved registers free.
ResetUsedToNone(c) == [c EXCEPT !.used = {}, !.count = [r \in Regs |-> 0]]

ResetUsed(c) == [c EXCEPT !.used = Reserved, !.count = [r \in Regs |-> 0]]

\* get_next_spill_reg: round robin over the registers that may be spilled.
Unpinned(pinned) == Regs \ (pinned \cup Reserved)

NextSpillReg(c, pinned) ==
  LET fresh == Unpinned(pinned) \ c.last
  IN  FirstOf(IF fresh = {} THEN Unpinned(pinned) ELSE fresh)

MarkSpilled(c, pinned) ==
  [c EXCEPT !.last = {NextSpillReg(c, pinned)} \cup
                     (IF Unpinned(pinned) \subseteq @ THEN {} ELSE @),
            !.ok = @ /\ Unpinned(pinned) # {} /\ Unpinned(pinned) \subseteq c.used]

-----------------------------------------------------------------------------
(* Instructions that move a value between a register and the frame. *)

Larger(m, n) == IF m < n THEN n ELSE m

SetReg(c, r, v)       == [c EXCEPT !.regs = [c.regs EXCEPT ![r] = v]]
Fill(c, r, i)         == SetReg(c, r, c.mem[i])
LoadConstant(c, r, v) == SetReg(c, r, v)
Move(c, dst, src)     == Assert(SetReg(c, dst, c.regs[src]), dst # src)

\* Mutant: spills that do not extend the frame.
StoreSlotsInNoFrame(c, I) ==
  [c EXCEPT !.mem   = [i \in Frame |-> IF i \in I THEN ValueAt(c, i) ELSE @[i]],
            !.stack = [i \in DOMAIN @ |-> IF i \in I THEN StackSlot ELSE @[i]]]

\* A Spill of every slot of I, which becomes a stack slot.
StoreSlots(c, I) ==
  [c EXCEPT !.mem    = [i \in Frame |-> IF i \in I THEN ValueAt(c, i) ELSE @[i]],
            !.stack  = [i \in DOMAIN @ |-> IF i \in I THEN StackSlot ELSE @[i]],
            !.spills = IF I = {} THEN @ ELSE Larger(@, CHOOSE i \in I : \A j \in I : j <= i)]

-----------------------------------------------------------------------------
(* compile.c: pushing, popping and freeing registers. *)

SetSlot(c, i, s)   == [c EXCEPT !.stack = [c.stack EXCEPT ![i] = s]]
Push(c, s)         == [c EXCEPT !.stack = Append(@, s)]
PushRegister(c, r) == Push(IncUsed(c, r), RegSlot(r))
PushConst(c, v)    == Push(c, ConstSlot(v))
Pop(c)             == [c EXCEPT !.stack = SubSeq(@, 1, Len(@) - 1)]

\* spill_register walks down from the top until count[r] slots are stored.
TopHolders(c, r) ==
  {i \in Holders(c, r) : Cardinality({j \in Holders(c, r) : j > i}) < c.count[r]}

SpillRegister(c, r) ==
  IF c.count[r] = 0 THEN c ELSE ClearUsed(StoreSlots(c, TopHolders(c, r)), r)

\* Results of the operators below: the context and the register they return.
With(c, r) == [c |-> c, reg |-> r]

SpillOneRegister(c, pinned) ==
  With(SpillRegister(MarkSpilled(c, pinned), NextSpillReg(c, pinned)), NextSpillReg(c, pinned))

GetUnusedRegister(c, pinned) ==
  LET available == (Regs \ c.used) \ pinned
  IN  IF available # {} THEN With(c, FirstOf(available))
      ELSE IF Unpinned(pinned) # {} THEN SpillOneRegister(c, pinned)
      ELSE With(Assert(c, FALSE), NoReg)

\* get_unused_register_with_class: a free register of tryFirst, else any.
\* Every register looked at passes through the assert of is_used.
GetUnused(c, tryFirst, pinned) ==
  LET free    == tryFirst \ c.used
      checked == Assert(c, \A r \in tryFirst :
                             (\A q \in free : r <= q) => Consistent(c, r))
  IN  IF free # {} THEN With(checked, FirstOf(free)) ELSE GetUnusedRegister(checked, pinned)

PopToRegister(c, pinned) ==
  LET popped == Pop(c)
      slot   == Top(c)
      new    == GetUnused(popped, {}, pinned)
  IN  IF slot.loc = "reg" THEN With(DecUsed(popped, slot.reg), slot.reg)
      ELSE IF new.reg = NoReg THEN new
      ELSE IF slot.loc = "const" THEN With(LoadConstant(new.c, new.reg, slot.val), new.reg)
      ELSE With(Fill(new.c, new.reg, Height(c)), new.reg)

-----------------------------------------------------------------------------
(* compile.c: the handlers that straight-line code and structured code share. *)

\* A constant too large for a slot, or a global.
LoadedValue(c, v) ==
  LET d == GetUnused(c, {}, {})
  IN  PushRegister(SetReg(d.c, d.reg, v), d.reg)

\* get_local
CopyLocal(c, x) ==
  LET slot == c.stack[x]
      d    == GetUnused(c, {}, {})
  IN  IF slot.loc = "reg" THEN PushRegister(c, slot.reg)
      ELSE IF slot.loc = "const" THEN PushConst(c, slot.val)
      ELSE PushRegister(Fill(d.c, d.reg, x), d.reg)

\* set_local_from_stack_slot: the value comes from the frame.
SetFromFrame(c, x) ==
  LET slot == c.stack[x]
      freed == IF slot.loc = "reg"
               THEN SetSlot(DecUsed(c, slot.reg), x, StackSlot) ELSE c
      d     == GetUnused(freed, {}, {})
  IN  IF slot.loc = "reg" /\ c.count[slot.reg] = 1 THEN Fill(c, slot.reg, Height(c))
      ELSE SetSlot(IncUsed(Fill(d.c, d.reg, Height(c)), d.reg), x, RegSlot(d.reg))

\* Mutant: local.tee gives the register a second holder and does not count it.
SetLocalUncounted(c, x, isTee) ==
  LET src   == Top(c)
      freed == IF c.stack[x].loc = "reg" THEN DecUsed(c, c.stack[x].reg) ELSE c
      set   == IF src.loc = "stack" THEN SetFromFrame(c, x)
               ELSE SetSlot(freed, x, src)
  IN  IF isTee THEN set ELSE Pop(set)

\* set_local_impl
SetLocalImpl(c, x, isTee) ==
  LET src   == Top(c)
      freed == IF c.stack[x].loc = "reg" THEN DecUsed(c, c.stack[x].reg) ELSE c
      moved == SetSlot(freed, x, src)
      set   == IF src.loc = "stack" THEN SetFromFrame(c, x)
               ELSE IF src.loc = "reg" /\ isTee THEN IncUsed(moved, src.reg)
               ELSE moved
  IN  IF isTee THEN set ELSE Pop(set)

\* drop
DropTop(c) == Pop(IF Top(c).loc = "reg" THEN DecUsed(c, Top(c).reg) ELSE c)

\* spill_locals, one spill after the other over the n locals.
SpillLocals(c, n) ==
  LET locals  == 1 .. n
      held(r) == Cardinality(Holders(c, r) \cap locals)
      stored  == StoreSlots(c, {i \in locals : c.stack[i].loc # "stack"})
  IN  [stored EXCEPT
         !.count = [r \in Regs |-> IF held(r) <= c.count[r] THEN c.count[r] - held(r) ELSE 0],
         !.used  = {r \in c.used : held(r) = 0 \/ c.count[r] > held(r)},
         !.ok    = c.ok /\ \A r \in Regs : held(r) > 0 => r \in c.used /\ c.count[r] >= held(r)]

=============================================================================
