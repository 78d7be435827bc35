--------------------------- MODULE ValueStackProofs ---------------------------
(***************************************************************************)
(* The cache state of the compiler is well formed and its use counts are   *)
(* exact after every handler, whatever the function compiled, whatever the *)
(* registers of the machine.                                               *)
(*                                                                         *)
(* The inductive invariant is Good of RegisterCacheProofs together with    *)
(* the height of the stack.  Exactness is what the others need: only when  *)
(* the counts are exact does spill_register find every holder of the       *)
(* register it frees, and only when the used set is does no handler get a  *)
(* reserved register.  The asserts of the allocator follow from it too.    *)
(*                                                                         *)
(* The same exactness gives the refinement: a handler moves values between *)
(* registers and slots, and as no two homes are ever confused each slot    *)
(* keeps its value (Replaced: all but the operands popped and the results  *)
(* pushed), which is what a step of WasmStack does.                        *)
(***************************************************************************)
EXTENDS ValueStack, RegisterCacheProofs

\* A cache with all its locals, as every handler leaves it.
Whole(c) == Good(c) /\ Len(c.stack) >= NumLocals

\* The same within the bound, as every handler finds it, with n operands.
Found(c, n) == Good(c) /\ Len(c.stack) - NumLocals >= n /\ Len(c.stack) <= MaxHeight

IInv == Found(Ctx, 0) /\ effect.kind \in Opcodes

\* There is always a register to hand out when at most two are pinned.
LEMMA Choices ==
  ASSUME NEW p, NEW q
  PROVE  Choice({}) /\ Choice({p}) /\ Choice({p, q})
<1> DEFINE A == Regs \ Reserved
<1>1. IsFiniteSet(A) /\ Cardinality(A) >= 3 /\ Cardinality(A) \in Nat
  <2>1. IsFiniteSet(A)  BY RegsAssumption, FS_Difference
  <2>2. Cardinality(A) \in Nat  BY <2>1, FS_CardinalityType
  <2> QED  BY <2>1, <2>2, ValueStackAssumption
<1> HIDE DEF A
<1>2. IsFiniteSet({p}) /\ Cardinality({p}) = 1  BY FS_Singleton
<1>3. IsFiniteSet({p} \cup {q}) /\ Cardinality({p} \cup {q}) <= 2  BY <1>2, FS_AddElement
<1>4. {p, q} = {p} \cup {q}  OBVIOUS
<1>5. ~(A \subseteq {p, q})
  <2> SUFFICES ASSUME A \subseteq {p, q} PROVE FALSE  OBVIOUS
  <2>1. Cardinality(A) <= Cardinality({p, q})  BY <1>3, <1>4, FS_Subset
  <2>2. Cardinality({p, q}) \in Nat  BY <1>3, <1>4, FS_CardinalityType
  <2> QED  BY <1>1, <1>3, <1>4, <2>1, <2>2
<1> QED  BY <1>5 DEF A, Choice

\* call_indirect finds a register although it pins three.
LEMMA FourthChoice ==
  ASSUME HasTable, NEW p, NEW q, NEW r
  PROVE  Choice({p, q, r})
<1> DEFINE A == Regs \ Reserved
<1>1. IsFiniteSet(A) /\ Cardinality(A) >= 4 /\ Cardinality(A) \in Nat
  <2>1. IsFiniteSet(A)  BY RegsAssumption, FS_Difference
  <2>2. Cardinality(A) \in Nat  BY <2>1, FS_CardinalityType
  <2> QED  BY <2>1, <2>2, ValueStackAssumption
<1> HIDE DEF A
<1>2. IsFiniteSet({p}) /\ Cardinality({p}) = 1  BY FS_Singleton
<1>3. IsFiniteSet({p} \cup {q}) /\ Cardinality({p} \cup {q}) <= 2  BY <1>2, FS_AddElement
<1> DEFINE T == {p} \cup {q}
<1>4. IsFiniteSet(T) /\ Cardinality(T) <= 2 /\ Cardinality(T) \in Nat
  BY <1>3, FS_CardinalityType
<1>5. {p, q, r} = T \cup {r}  OBVIOUS
<1> HIDE DEF T
<1>6. IsFiniteSet(T \cup {r}) /\ Cardinality(T \cup {r}) <= 3  BY <1>4, FS_AddElement
<1>7. ~(A \subseteq {p, q, r})
  <2> SUFFICES ASSUME A \subseteq {p, q, r} PROVE FALSE  OBVIOUS
  <2>1. Cardinality(A) <= Cardinality(T \cup {r})  BY <1>5, <1>6, FS_Subset
  <2>2. Cardinality(T \cup {r}) \in Nat  BY <1>6, FS_CardinalityType
  <2> QED  BY <1>1, <1>6, <2>1, <2>2
<1> QED  BY <1>7 DEF A, Choice

\* The heights that the guards give.
LEMMA FoundHeights ==
  ASSUME NEW c, NEW n \in Nat, Found(c, n)
  PROVE  /\ c \in Context /\ Good(c) /\ Len(c.stack) \in Nat
         /\ Len(c.stack) >= NumLocals + n /\ Len(c.stack) <= MaxHeight
         /\ NumLocals \in Nat /\ MaxHeight \in Nat
         /\ n > 0 => Len(c.stack) > 0
BY ContextShape, ValueStackAssumption, RegsAssumption DEF Found, Good

\* The fixed registers.
LEMMA FixedRegs ==
  /\ RAX \in Regs \ Reserved /\ RDX \in Regs \ Reserved /\ RCX \in Regs
  /\ RAX \in Regs /\ RDX \in Regs /\ ScratchGP \in Regs
BY ValueStackAssumption, RegsAssumption

\* A value computed by an instruction sequence that leaves the cache alone is
\* pushed in its register.
LEMMA PushResult ==
  ASSUME NEW c, Good(c), Len(c.stack) >= NumLocals, NEW d, Same(c, d), NEW r \in Regs \ Reserved
  PROVE  Whole(PushRegister(d, r)) /\ Len(PushRegister(d, r).stack) = Len(c.stack) + 1
<1>1. Good(d) /\ d.stack = c.stack  BY SameCache DEF Same
<1>2. Good(PushRegister(d, r)) /\ Len(PushRegister(d, r).stack) = Len(c.stack) + 1
  BY <1>1, PushRegisterGood
<1>3. Len(c.stack) \in Nat /\ NumLocals \in Nat  BY ContextShape, ValueStackAssumption DEF Good
<1> QED  BY <1>2, <1>3 DEF Whole

-----------------------------------------------------------------------------
(* Instruction sequences. *)

LEMMA UnaryTyped == \A v : Unary(v) \in Values \cup {Junk}
BY ValueStackAssumption DEF Unary

LEMMA BinaryTyped == \A v, w : Binary(v, w) \in Values \cup {Junk}
BY ValueStackAssumption DEF Binary

LEMMA TwoAddressSame ==
  ASSUME NEW c \in Context, NEW dst \in Regs, NEW lhs \in Regs, NEW rhs \in Regs
  PROVE  Same(c, EmitTwoAddress(c, dst, lhs, rhs))
<1> DEFINE m == Move(c, dst, lhs)
<1>1. Same(c, SetReg(c, dst, Binary(c.regs[lhs], c.regs[lhs])))  BY BinaryTyped, SetRegSame
<1>2. Same(c, m)  BY MoveSame
<1> HIDE DEF m
<1>3. Same(m, SetReg(m, dst, Binary(m.regs[dst], m.regs[rhs])))
  BY <1>2, BinaryTyped, SetRegSame DEF Same
<1>4. Same(c, SetReg(m, dst, Binary(m.regs[dst], m.regs[rhs])))  BY <1>2, <1>3, SameTransitive
<1> QED  BY <1>1, <1>4 DEF EmitTwoAddress, m

\* A move that is emitted only when it is needed.
LEMMA MaybeMoveSame ==
  ASSUME NEW c, NEW d, Same(c, d), NEW P, NEW dst \in Regs, NEW src \in Regs
  PROVE  Same(c, IF P THEN d ELSE Move(d, dst, src)) /\ Same(c, IF P THEN Move(d, dst, src) ELSE d)
<1>1. Same(d, Move(d, dst, src))  BY MoveSame DEF Same
<1>2. Same(c, Move(d, dst, src))  BY <1>1, SameTransitive
<1> QED  BY <1>2

LEMMA SetRegAfterSame ==
  ASSUME NEW c, NEW d, Same(c, d), NEW r, NEW v \in Values \cup {Junk}
  PROVE  Same(c, SetReg(d, r, v))
BY SetRegSame, SameTransitive DEF Same

LEMMA ShiftSame ==
  ASSUME NEW c \in Context, NEW dst \in Regs, NEW src \in Regs, NEW amount \in Regs
  PROVE  Same(c, EmitShift(c, dst, src, amount))
<1>0. Same(c, c) /\ RCX \in Regs /\ ScratchGP \in Regs  BY FixedRegs DEF Same
<1>1. CASE dst = RCX
  <2> DEFINE a == Move(c, ScratchGP, src)
             b == IF amount = RCX THEN a ELSE Move(a, RCX, amount)
             s == SetReg(b, ScratchGP, Binary(b.regs[ScratchGP], b.regs[RCX]))
  <2>1. Same(c, a)  BY <1>0, MoveSame
  <2> HIDE DEF a
  <2>2. Same(c, b)  BY <1>0, <2>1, MaybeMoveSame
  <2> HIDE DEF b
  <2>3. Same(c, s)  BY <2>2, BinaryTyped, SetRegAfterSame
  <2> HIDE DEF s
  <2>4. Same(s, Move(s, RCX, ScratchGP))  BY <1>0, <2>3, MoveSame DEF Same
  <2>5. EmitShift(c, dst, src, amount) = Move(s, RCX, ScratchGP)
    BY <1>1 DEF EmitShift, a, b, s
  <2> QED  BY <2>3, <2>4, <2>5, SameTransitive
<1>2. CASE dst # RCX
  <2> DEFINE save == amount # RCX /\ (src = RCX \/ RCX \in c.used)
             a    == IF save THEN Move(c, ScratchGP, RCX) ELSE c
             from == IF amount # RCX /\ src = RCX THEN ScratchGP ELSE src
             b    == IF amount = RCX THEN a ELSE Move(a, RCX, amount)
             d    == IF dst = from THEN b ELSE Move(b, dst, from)
             s    == SetReg(d, dst, Binary(d.regs[dst], d.regs[RCX]))
             e    == IF save THEN Move(s, RCX, ScratchGP) ELSE s
  <2>1. EmitShift(c, dst, src, amount) = e  BY <1>2 DEF EmitShift
  <2>2. from \in Regs  BY <1>0
  <2> HIDE DEF save, from
  <2>3. Same(c, a)  BY <1>0, MaybeMoveSame
  <2> HIDE DEF a
  <2>4. Same(c, b)  BY <1>0, <2>3, MaybeMoveSame
  <2> HIDE DEF b
  <2>5. Same(c, d)  BY <2>2, <2>4, MaybeMoveSame
  <2> HIDE DEF d
  <2>6. Same(c, s)  BY <2>5, BinaryTyped, SetRegAfterSame
  <2> HIDE DEF s
  <2>7. Same(c, e)  BY <1>0, <2>6, MaybeMoveSame
  <2> QED  BY <2>1, <2>7
<1> QED  BY <1>1, <1>2

LEMMA DivisionSame ==
  ASSUME NEW c \in Context, NEW dst \in Regs, NEW lhs \in Regs, NEW rhs \in Regs,
         NEW result \in {RAX, RDX}
  PROVE  Same(c, EmitDivision(c, dst, lhs, rhs, result))
<1> DEFINE twice == rhs \in {RAX, RDX}
           a  == IF twice THEN Move(c, ScratchGP, rhs) ELSE c
           by == IF twice THEN ScratchGP ELSE rhs
           b  == IF lhs = RAX THEN a ELSE Move(a, RAX, lhs)
           q  == Binary(b.regs[RAX], SetReg(b, RDX, Junk).regs[by])
           d  == SetReg(SetReg(b, RAX, IF result = RAX THEN q ELSE Junk),
                        RDX, IF result = RDX THEN q ELSE Junk)
           e  == IF dst = result THEN d ELSE Move(d, dst, result)
<1>0. Same(c, c) /\ RAX \in Regs /\ RDX \in Regs /\ ScratchGP \in Regs /\ result \in Regs
  BY FixedRegs DEF Same
<1>1. EmitDivision(c, dst, lhs, rhs, result) = e  BY DEF EmitDivision
<1>2. q \in Values \cup {Junk}  BY BinaryTyped
<1> HIDE DEF twice, q, by
<1>3. Same(c, a)  BY <1>0, MaybeMoveSame
<1> HIDE DEF a
<1>4. Same(c, b)  BY <1>0, <1>3, MaybeMoveSame
<1> HIDE DEF b
<1>5. Same(c, SetReg(b, RAX, IF result = RAX THEN q ELSE Junk))  BY <1>2, <1>4, SetRegAfterSame
<1>6. Same(c, d)  BY <1>2, <1>5, SetRegAfterSame
<1> HIDE DEF d
<1>7. Same(c, e)  BY <1>0, <1>6, MaybeMoveSame
<1> QED  BY <1>1, <1>7

-----------------------------------------------------------------------------
(* Handlers, one lemma each: what is found whole is left whole. *)

\* PopToRegister, PopOperands and GetUnused with the heights of the handlers.
LEMMA PopOne ==
  ASSUME NEW c, NEW n \in Nat, n > 0, Found(c, n), NEW pinned, Choice(pinned)
  PROVE  /\ Found(PopToRegister(c, pinned).c, n - 1)
         /\ PopToRegister(c, pinned).reg \in Regs \ Reserved
<1>1. /\ Good(c) /\ Len(c.stack) \in Nat /\ Len(c.stack) >= NumLocals + n
      /\ Len(c.stack) <= MaxHeight /\ NumLocals \in Nat /\ MaxHeight \in Nat
  BY FoundHeights
<1>2. /\ Good(PopToRegister(c, pinned).c)
      /\ Len(PopToRegister(c, pinned).c.stack) = Len(c.stack) - 1
      /\ PopToRegister(c, pinned).reg \in Regs \ Reserved
  BY <1>1, PopToRegisterGood
<1> QED  BY <1>1, <1>2 DEF Found

\* The counts that occur.
LEMMA PopEach ==
  ASSUME NEW c, NEW pinned, Choice(pinned)
  PROVE  /\ Found(c, 1) => Found(PopToRegister(c, pinned).c, 0)
         /\ Found(c, 2) => Found(PopToRegister(c, pinned).c, 1)
         /\ Found(c, 3) => Found(PopToRegister(c, pinned).c, 2)
         /\ Found(c, 1) \/ Found(c, 2) \/ Found(c, 3)
              => PopToRegister(c, pinned).reg \in Regs \ Reserved
<1> DEFINE d == PopToRegister(c, pinned)
<1>1. ASSUME NEW n \in 1 .. 3, Found(c, n) PROVE Found(d.c, n - 1) /\ d.reg \in Regs \ Reserved
  BY <1>1, PopOne
<1> HIDE DEF d
<1>2. Found(c, 1) => Found(d.c, 1 - 1) /\ d.reg \in Regs \ Reserved  BY <1>1
<1>3. Found(c, 2) => Found(d.c, 2 - 1) /\ d.reg \in Regs \ Reserved  BY <1>1
<1>4. Found(c, 3) => Found(d.c, 3 - 1) /\ d.reg \in Regs \ Reserved  BY <1>1
<1>5. 1 - 1 = 0 /\ 2 - 1 = 1 /\ 3 - 1 = 2  OBVIOUS
<1> QED  BY <1>2, <1>3, <1>4, <1>5 DEF d

LEMMA UnusedFound ==
  ASSUME NEW c, NEW n \in Nat, Found(c, n), NEW pinned, Choice(pinned)
  PROVE  /\ Found(GetUnused(c, {}, pinned).c, n)
         /\ GetUnused(c, {}, pinned).reg \in Regs \ (pinned \cup Reserved)
BY FoundHeights, GetUnusedGood DEF Found, KeptSlots

LEMMA FoundWhole ==
  ASSUME NEW c, NEW n \in Nat, Found(c, n)
  PROVE  /\ Whole(c) /\ Good(c) /\ c \in Context /\ Len(c.stack) >= NumLocals
         /\ c.regs \in [Regs -> Values \cup {Junk}]
BY FoundHeights, ContextShape DEF Whole

LEMMA PushConstWhole ==
  ASSUME NEW c, NEW n \in Nat, Found(c, n), NEW v \in Values
  PROVE  Whole(PushConst(c, v))
<1>1. Good(PushConst(c, v)) /\ Len(PushConst(c, v).stack) = Len(c.stack) + 1
  BY FoundWhole, PushConstGood
<1> QED  BY <1>1, FoundHeights DEF Whole

\* The handlers of straight-line code that RegisterCacheProofs is about find
\* here what they ask for.
LEMMA FoundFits ==
  ASSUME NEW c, NEW n \in Nat, Found(c, n)
  PROVE  Fits(c) /\ Choice({}) /\ Len(c.stack) \in Nat
BY FoundHeights, Choices DEF Fits

LEMMA LoadedValueWhole ==
  ASSUME NEW c, Found(c, 0), NEW v \in Values
  PROVE  Whole(LoadedValue(c, v)) /\ LoadedValue(c, v).ok = c.ok
BY FoundFits, FoundHeights, LoadedValueGood DEF Whole

LEMMA CopyLocalWhole ==
  ASSUME NEW c, Found(c, 0), NEW x \in 1 .. NumLocals
  PROVE  Whole(CopyLocal(c, x)) /\ CopyLocal(c, x).ok = c.ok
<1>1. x \in DOMAIN c.stack  BY FoundHeights, ContextShape
<1> QED  BY <1>1, FoundFits, FoundHeights, CopyLocalGood DEF Whole

LEMMA DropTopWhole ==
  ASSUME NEW c, Found(c, 1)
  PROVE  Whole(DropTop(c)) /\ DropTop(c).ok = c.ok
<1>1. Len(c.stack) > 0 /\ Len(c.stack) - 1 >= NumLocals  BY FoundHeights
<1>2. Good(c)  BY FoundHeights
<1>3. Good(DropTop(c)) /\ Len(DropTop(c).stack) = Len(c.stack) - 1 /\ DropTop(c).ok = c.ok
  BY <1>1, <1>2, DropTopGood
<1> QED  BY <1>1, <1>3 DEF Whole

LEMMA SetLocalWhole ==
  ASSUME NEW c, Found(c, 1), NEW x \in 1 .. NumLocals, NEW isTee \in BOOLEAN
  PROVE  Whole(SetLocalImpl(c, x, isTee)) /\ SetLocalImpl(c, x, isTee).ok = c.ok
<1>1. /\ Len(c.stack) \in Nat /\ NumLocals \in Nat /\ Len(c.stack) - 1 >= NumLocals
      /\ x \in 1 .. Len(c.stack) - 1
  BY FoundHeights
<1>2. Fits(c) /\ Choice({})  BY FoundFits
<1>3. /\ Good(SetLocalImpl(c, x, isTee))
      /\ Len(SetLocalImpl(c, x, isTee).stack) = Len(c.stack) - (IF isTee THEN 0 ELSE 1)
  BY <1>1, <1>2, SetLocalGood
<1>4. SetLocalImpl(c, x, isTee).ok = c.ok  BY <1>1, <1>2, SetLocalOk
<1>5. Len(SetLocalImpl(c, x, isTee).stack) >= NumLocals  BY <1>1, <1>3
<1> QED  BY <1>3, <1>4, <1>5 DEF Whole

LEMMA SpillLocalsWhole ==
  ASSUME NEW c, Found(c, 0)
  PROVE  Whole(SpillLocals(c, NumLocals)) /\ SpillLocals(c, NumLocals).ok = c.ok
<1>1. NumLocals \in 0 .. Len(c.stack) /\ Len(c.stack) >= NumLocals  BY FoundHeights
<1> QED  BY <1>1, FoundFits, SpillLocalsGood, SpillLocalsOk DEF Whole

LEMMA UnaryCodeWhole ==
  ASSUME NEW c, Found(c, 1)
  PROVE  Whole(UnaryCode(c))
<1> DEFINE src == PopToRegister(c, {})
           d   == GetUnused(src.c, {src.reg}, {})
           v   == Unary(d.c.regs[src.reg])
<1>1. Found(src.c, 0) /\ src.reg \in Regs \ Reserved  BY Choices, PopEach
<1>2. Good(d.c) /\ KeptSlots(src.c, d.c) /\ d.reg \in Regs \ Reserved
  <2> HIDE DEF src
  <2> QED  BY <1>1, Choices, FoundHeights, GetUnusedFirstGood
<1>3. UnaryCode(c) = PushRegister(SetReg(d.c, d.reg, v), d.reg)  BY DEF UnaryCode
<1> HIDE DEF src, d
<1>4. Same(d.c, SetReg(d.c, d.reg, v))  BY <1>2, UnaryTyped, SetRegSame DEF Good
<1>5. Len(d.c.stack) >= NumLocals  BY <1>1, <1>2, FoundWhole DEF KeptSlots
<1> QED  BY <1>2, <1>3, <1>4, <1>5, PushResult

\* Both operands in registers, and a register for the result.
LEMMA PopOperandsFound ==
  ASSUME NEW c, Found(c, 2)
  PROVE  /\ Found(PopOperands(c).c, 0)
         /\ PopOperands(c).dst \in Regs \ Reserved
         /\ PopOperands(c).lhs \in Regs \ Reserved /\ PopOperands(c).rhs \in Regs \ Reserved
<1> DEFINE rhs == PopToRegister(c, {})
           lhs == PopToRegister(rhs.c, {rhs.reg})
           d   == GetUnused(lhs.c, {}, {rhs.reg, lhs.reg})
<1>1. Found(rhs.c, 1) /\ rhs.reg \in Regs \ Reserved  BY Choices, PopEach
<1>2. PopOperands(c) = [c |-> d.c, dst |-> d.reg, lhs |-> lhs.reg, rhs |-> rhs.reg]
  BY DEF PopOperands
<1> HIDE DEF rhs
<1>3. Found(lhs.c, 0) /\ lhs.reg \in Regs \ Reserved  BY <1>1, Choices, PopEach
<1> HIDE DEF lhs
<1>4. Found(d.c, 0) /\ d.reg \in Regs \ Reserved  BY <1>3, Choices, UnusedFound
<1> HIDE DEF d
<1> QED  BY <1>1, <1>2, <1>3, <1>4

\* Operands as the emitters of two-operand instructions take them.
Operands(o) == /\ Found(o.c, 0) /\ o.dst \in Regs \ Reserved
               /\ o.lhs \in Regs \ Reserved /\ o.rhs \in Regs \ Reserved

LEMMA BinaryCodeWhole ==
  ASSUME NEW o, Operands(o)
  PROVE  Whole(BinaryCode(o))
<1>1. Same(o.c, EmitTwoAddress(o.c, o.dst, o.lhs, o.rhs))
  BY FoundWhole, TwoAddressSame DEF Operands
<1> QED  BY <1>1, FoundWhole, PushResult DEF Operands, BinaryCode

LEMMA ShiftCodeWhole ==
  ASSUME NEW o, Operands(o)
  PROVE  Whole(ShiftCode(o))
<1>1. Same(o.c, EmitShift(o.c, o.dst, o.lhs, o.rhs))
  BY FoundWhole, ShiftSame DEF Operands
<1> QED  BY <1>1, FoundWhole, PushResult DEF Operands, ShiftCode

LEMMA DivisionCodeWhole ==
  ASSUME NEW o, Operands(o), NEW result \in {RAX, RDX}
  PROVE  Whole(DivisionCode(o, result))
<1> DEFINE a == SpillRegister(o.c, RAX)
           b == SpillRegister(a, RDX)
           e == EmitDivision(b, o.dst, o.lhs, o.rhs, result)
<1>0. DivisionCode(o, result) = PushRegister(e, o.dst)  BY DEF DivisionCode
<1>1. /\ Good(o.c) /\ Len(o.c.stack) <= MaxHeight /\ Len(o.c.stack) >= NumLocals
      /\ o.dst \in Regs \ Reserved /\ o.lhs \in Regs /\ o.rhs \in Regs
  BY FoundWhole DEF Operands, Found
<1>2. Good(a) /\ Len(a.stack) = Len(o.c.stack)
  BY <1>1, FixedRegs, SpillRegisterGood DEF KeptSlots
<1> HIDE DEF a
<1>3. Good(b) /\ Len(b.stack) = Len(o.c.stack)
  BY <1>1, <1>2, FixedRegs, SpillRegisterGood DEF KeptSlots
<1> HIDE DEF b
<1>4. Same(b, e)  BY <1>1, <1>3, DivisionSame DEF Good
<1> HIDE DEF e
<1> QED  BY <1>0, <1>1, <1>3, <1>4, PushResult

LEMMA SelectCodeWhole ==
  ASSUME NEW c, Found(c, 3)
  PROVE  Whole(SelectCode(c))
<1> DEFINE cond  == PopToRegister(c, {})
           false == PopToRegister(cond.c, {cond.reg})
           true  == PopToRegister(false.c, {cond.reg, false.reg})
           d     == GetUnused(true.c, {false.reg, true.reg}, {})
           from  == IF d.c.regs[cond.reg] # 0 THEN true.reg ELSE false.reg
           e     == IF d.reg = from THEN d.c ELSE Move(d.c, d.reg, from)
<1>0. SelectCode(c) = PushRegister(e, d.reg)  BY DEF SelectCode
<1>1. Found(cond.c, 2) /\ cond.reg \in Regs \ Reserved  BY Choices, PopEach
<1> HIDE DEF cond
<1>2. Found(false.c, 1) /\ false.reg \in Regs \ Reserved  BY <1>1, Choices, PopEach
<1> HIDE DEF false
<1>3. Found(true.c, 0) /\ true.reg \in Regs \ Reserved  BY <1>2, Choices, PopEach
<1> HIDE DEF true
<1>4. Good(d.c) /\ KeptSlots(true.c, d.c) /\ d.reg \in Regs \ Reserved
  BY <1>2, <1>3, Choices, FoundHeights, GetUnusedFirstGood
<1> HIDE DEF d
<1>5. from \in Regs  BY <1>2, <1>3
<1> HIDE DEF from
<1>6. Same(d.c, e)
  <2>1. Same(d.c, d.c)  BY <1>4 DEF Same, Good
  <2>2. Same(d.c, Move(d.c, d.reg, from))  BY <1>4, <1>5, MoveSame DEF Good
  <2> QED  BY <2>1, <2>2
<1> HIDE DEF e
<1>7. Len(d.c.stack) >= NumLocals  BY <1>3, <1>4, FoundWhole DEF KeptSlots
<1> QED  BY <1>0, <1>4, <1>6, <1>7, PushResult

LEMMA LoadCodeWhole ==
  ASSUME NEW c, Found(c, 1)
  PROVE  Whole(LoadCode(c))
<1> DEFINE index == PopToRegister(c, {})
           d     == GetUnused(index.c, {}, {index.reg})
           v     == Unary(d.c.regs[index.reg])
<1>0. LoadCode(c) = PushRegister(SetReg(d.c, d.reg, v), d.reg)  BY DEF LoadCode
<1>1. Found(index.c, 0) /\ index.reg \in Regs \ Reserved  BY Choices, PopEach
<1> HIDE DEF index
<1>2. Found(d.c, 0) /\ d.reg \in Regs \ Reserved  BY <1>1, Choices, UnusedFound
<1> HIDE DEF d
<1>3. Same(d.c, SetReg(d.c, d.reg, v))  BY <1>2, FoundWhole, UnaryTyped, SetRegSame
<1> QED  BY <1>0, <1>2, <1>3, FoundWhole, PushResult

LEMMA StoreOperandsWhole ==
  ASSUME NEW c, Found(c, 2)
  PROVE  Whole(StoreOperands(c).c)
<1> DEFINE value == PopToRegister(c, {})
           index == PopToRegister(value.c, {value.reg})
<1>0. StoreOperands(c).c = index.c  BY DEF StoreOperands
<1>1. Found(value.c, 1)  BY Choices, PopEach
<1> HIDE DEF value
<1>2. Found(index.c, 0)  BY <1>1, Choices, PopEach
<1> QED  BY <1>0, <1>2, FoundWhole

LEMMA GrowCodeWhole ==
  ASSUME NEW c, Found(c, 1), NEW v \in Values
  PROVE  Whole(GrowCode(c, v))
<1> DEFINE value == PopToRegister(c, {})
           page  == GetUnused(value.c, {}, {})
           d     == PushRegister(page.c, value.reg)
<1>0. GrowCode(c, v) = IF MaxMemory = 0 THEN PushConst(value.c, v) ELSE PushConst(d, v)
  BY DEF GrowCode
<1>1. Found(value.c, 0) /\ value.reg \in Regs \ Reserved  BY Choices, PopEach
<1> HIDE DEF value
<1>2. Found(page.c, 0)  BY <1>1, Choices, UnusedFound
<1> HIDE DEF page
<1>3. Same(page.c, page.c)  BY <1>2, FoundWhole DEF Same
<1>4. Whole(d)  BY <1>1, <1>2, <1>3, FoundWhole, PushResult
<1> HIDE DEF d
<1>5. Whole(PushConst(value.c, v))  BY <1>1, PushConstWhole
<1>6. Whole(PushConst(d, v))
  <2>1. Good(PushConst(d, v)) /\ Len(PushConst(d, v).stack) = Len(d.stack) + 1
    BY <1>4, PushConstGood DEF Whole
  <2>2. Len(d.stack) \in Nat /\ Len(d.stack) >= NumLocals /\ NumLocals \in Nat
    BY <1>4, ContextShape, ValueStackAssumption DEF Whole, Good
  <2> QED  BY <2>1, <2>2 DEF Whole
<1> QED  BY <1>0, <1>5, <1>6

-----------------------------------------------------------------------------
(* Locals. *)

-----------------------------------------------------------------------------
(* Calls. *)

\* A cache about to be cut down to its first base slots: their registers are
\* saved; the counts are not yet what they should be.
Saved(c, base) ==
  /\ c \in Context /\ Homes(c) /\ Covered(c) /\ Len(c.stack) <= MaxHeight
  /\ \A i \in 1 .. base : c.stack[i].loc # "reg"

LEMMA SpillBelowSaved ==
  ASSUME NEW c, Good(c), Len(c.stack) <= MaxHeight, NEW base \in 0 .. Len(c.stack)
  PROVE  Saved(SpillBelow(c, base), base) /\ Len(SpillBelow(c, base).stack) = Len(c.stack)
<1> DEFINE I == {i \in 1 .. base : c.stack[i].loc = "reg"}
           d == StoreSlots(c, I)
<1>0. c \in Context /\ Homes(c) /\ Covered(c)  BY DEF Good
<1>1. 1 .. base \subseteq DOMAIN c.stack  BY <1>0, ContextShape
<1>2. I \subseteq DOMAIN c.stack  BY <1>1
<1>3. SpillBelow(c, base) = d  BY DEF SpillBelow
<1>4. \A i \in 1 .. base : i \notin I => c.stack[i].loc # "reg"  OBVIOUS
<1> HIDE DEF I
<1>5. /\ d \in Context /\ Len(d.stack) = Len(c.stack)
      /\ \A i \in DOMAIN c.stack : d.stack[i] = IF i \in I THEN StackSlot ELSE c.stack[i]
  BY <1>0, <1>2, StoredSlots DEF KeptSlots
<1>6. Homes(d) /\ Covered(d)  BY <1>0, <1>2, StoredHolders
<1> HIDE DEF d
<1>7. StackSlot.loc = "stack"  BY DEF StackSlot
<1>8. \A i \in 1 .. base : d.stack[i].loc # "reg"  BY <1>1, <1>4, <1>5, <1>7
<1> QED  BY <1>3, <1>5, <1>6, <1>8 DEF Saved

LEMMA TransferArgsSame ==
  ASSUME NEW c \in Context, Len(c.stack) <= MaxHeight, NEW n \in 0 .. Len(c.stack)
  PROVE  Same(c, TransferArgs(c, n))
<1> DEFINE arg(r) == \E j \in InRegister(n) : ParamRegs[j] = r
           g == [r \in Regs |-> IF arg(r) THEN ValueAt(c, Height(c) - n + ParamReg(n, r))
                                ELSE c.regs[r]]
<1>1. c.regs \in [Regs -> Values \cup {Junk}] /\ Len(c.stack) \in Nat
      /\ DOMAIN c.stack = 1 .. Len(c.stack)
  BY ContextShape
<1>2. ASSUME NEW r \in Regs, arg(r)
      PROVE  ValueAt(c, Height(c) - n + ParamReg(n, r)) \in Values \cup {Junk}
  <2>1. ParamReg(n, r) \in InRegister(n)  BY <1>2 DEF ParamReg
  <2>2. ParamReg(n, r) \in 1 .. n  BY <2>1 DEF InRegister
  <2>3. Height(c) - n + ParamReg(n, r) \in DOMAIN c.stack  BY <1>1, <2>2 DEF Height
  <2> QED  BY <2>3, ValueAtTyped
<1>3. g \in [Regs -> Values \cup {Junk}]
  <2> HIDE DEF arg
  <2> QED  BY <1>1, <1>2
<1>4. TransferArgs(c, n) = [c EXCEPT !.regs = g]  BY DEF TransferArgs
<1> HIDE DEF g
<1> QED  BY <1>3, <1>4 DEF Same, Context

\* After the arguments have travelled the saved slots are still saved.
LEMMA SavedSame ==
  ASSUME NEW c, NEW d, NEW base, Saved(c, base), Same(c, d)
  PROVE  Saved(d, base) /\ Len(d.stack) = Len(c.stack)
BY DEF Saved, Same, Homes, Covered

\* finish_call: no slot that is left names a register, so all may be freed.
LEMMA FinishWhole ==
  ASSUME NEW c, NEW n \in Nat, Saved(c, Len(c.stack) - n), NumLocals + n <= Len(c.stack),
         NEW result \in Results
  PROVE  Whole(Finish(c, n, result))
<1> DEFINE t == SubSeq(c.stack, 1, Len(c.stack) - n)
           junk == [r \in Regs |-> Junk]
           zero == [r \in Regs |-> 0]
           cut == [c EXCEPT !.stack = t, !.regs = junk]
           gone == ResetUsed(cut)
           m == Len(c.stack) - n
<1>0. /\ c \in Context /\ Homes(c) /\ Covered(c) /\ Len(c.stack) \in Nat /\ NumLocals \in Nat
      /\ m \in Nat /\ m >= NumLocals /\ m <= Len(c.stack)
      /\ c.stack \in Seq(Slot) /\ DOMAIN c.stack = 1 .. Len(c.stack)
      /\ \A i \in 1 .. Len(c.stack) : c.stack[i] \in Slot
      /\ \A i \in 1 .. m : c.stack[i].loc # "reg"
  BY ContextShape, ValueStackAssumption DEF Saved
<1>1. /\ t \in Seq(Slot) /\ Len(t) = m /\ DOMAIN t = 1 .. m
      /\ \A i \in 1 .. m : t[i] = c.stack[i]
  <2>1. t \in Seq(Slot) /\ Len(t) = m /\ \A i \in 1 .. m : t[i] = c.stack[i]
    BY <1>0, SubSeqProperties
  <2> QED  BY <2>1, LenProperties
<1>2. junk \in [Regs -> Values \cup {Junk}] /\ zero \in [Regs -> Nat]  OBVIOUS
<1> HIDE DEF t, junk, zero
<1>3. cut \in Context /\ cut.stack = t /\ cut.spills = c.spills
  BY <1>0, <1>1, <1>2 DEF Context
<1>4. gone = [cut EXCEPT !.used = Reserved, !.count = zero]  BY DEF ResetUsed, zero
<1>5. Finish(c, n, result) =
        IF result = <<>> THEN gone
        ELSE PushRegister(Assert(SetReg(gone, RAX, result[1]), ~(RAX \in gone.used)), RAX)
  BY DEF Finish, t, junk
<1> HIDE DEF cut, gone
<1>6. /\ gone \in Context /\ gone.stack = t /\ gone.spills = c.spills
      /\ gone.used = Reserved /\ gone.count = zero
  BY <1>2, <1>3, <1>4, RegsAssumption DEF Context
<1>7. \A q : Holders(gone, q) = {}  BY <1>0, <1>1, <1>6 DEF Holders
<1>8. Exact(gone)
  <2> SUFFICES ASSUME NEW q \in Regs
               PROVE  /\ gone.count[q] = Cardinality(Holders(gone, q))
                      /\ q \in gone.used <=> (q \in Reserved \/ gone.count[q] > 0)
    BY DEF Exact
  <2>1. gone.count[q] = 0  BY <1>6 DEF zero
  <2>2. Cardinality(Holders(gone, q)) = 0  BY <1>7, FS_EmptySet
  <2> QED  BY <1>6, <2>1, <2>2
<1>9. Homes(gone) /\ Covered(gone)
  <2> HIDE DEF m
  <2>1. \A i \in 1 .. m : i \in DOMAIN c.stack  BY <1>0
  <2> QED  BY <1>0, <1>1, <1>6, <2>1 DEF Homes, Covered
<1>10. Good(gone) /\ Len(gone.stack) >= NumLocals  BY <1>0, <1>1, <1>6, <1>8, <1>9 DEF Good
<1>11. CASE result = <<>>  BY <1>5, <1>10, <1>11 DEF Whole
<1>12. CASE result # <<>>
  <2> DEFINE s == SetReg(gone, RAX, result[1])
             a == Assert(s, ~(RAX \in gone.used))
  <2>1. result[1] \in Values \cup {Junk}  BY <1>12 DEF Results
  <2>2. Same(gone, s)  BY <1>6, <2>1, SetRegSame
  <2> HIDE DEF s
  <2>3. Same(s, a)  BY <2>2, AssertSame DEF Same
  <2> HIDE DEF a
  <2>4. Same(gone, a)  BY <2>2, <2>3, SameTransitive
  <2>5. Whole(PushRegister(a, RAX))  BY <1>10, <2>4, FixedRegs, PushResult
  <2> QED  BY <1>5, <1>12, <2>5 DEF s, a
<1> QED  BY <1>11, <1>12

LEMMA DirectCallWhole ==
  ASSUME NEW c, NEW n \in Nat, Found(c, n), NEW result \in Results
  PROVE  Whole(Finish(DirectCall(c, n).c, n, result))
<1> DEFINE b == SpillBelow(c, Height(c) - n)
           d == TransferArgs(b, n)
<1>0. /\ Good(c) /\ Len(c.stack) \in Nat /\ Len(c.stack) <= MaxHeight
      /\ Len(c.stack) - n \in 0 .. Len(c.stack) /\ n \in 0 .. Len(c.stack)
      /\ NumLocals + n <= Len(c.stack)
  BY FoundHeights
<1>1. DirectCall(c, n).c = d  BY DEF DirectCall
<1>2. Saved(b, Len(c.stack) - n) /\ Len(b.stack) = Len(c.stack)
  BY <1>0, SpillBelowSaved DEF Height
<1> HIDE DEF b
<1>3. Same(b, d)  BY <1>0, <1>2, TransferArgsSame DEF Saved
<1> HIDE DEF d
<1>4. Saved(d, Len(c.stack) - n) /\ Len(d.stack) = Len(c.stack)  BY <1>2, <1>3, SavedSame
<1> QED  BY <1>0, <1>1, <1>4, FinishWhole

LEMMA TableIndexFound ==
  ASSUME NEW c, NEW n \in Nat, Found(c, n + 1)
  PROVE  Found(TableIndex(c).c, n) /\ TableIndex(c).reg \in Regs \ Reserved
<1> DEFINE popped == PopToRegister(c, {})
           new    == GetUnused(popped.c, {}, {})
           d      == Move(new.c, new.reg, popped.reg)
<1>0. TableIndex(c) = IF popped.reg \in popped.c.used THEN With(d, new.reg) ELSE popped
  BY DEF TableIndex
<1>1. Found(popped.c, n) /\ popped.reg \in Regs \ Reserved
  <2>1. n + 1 \in Nat /\ n + 1 > 0 /\ n + 1 - 1 = n  OBVIOUS
  <2> DEFINE k == n + 1
  <2>2. k \in Nat /\ k > 0 /\ Found(c, k) /\ k - 1 = n  BY <2>1
  <2> HIDE DEF k, popped
  <2>3. Found(PopToRegister(c, {}).c, k - 1) /\ PopToRegister(c, {}).reg \in Regs \ Reserved
    BY <2>2, Choices, PopOne
  <2> QED  BY <2>2, <2>3 DEF popped
<1> HIDE DEF popped
<1>2. Found(new.c, n) /\ new.reg \in Regs \ Reserved  BY <1>1, Choices, UnusedFound
<1> HIDE DEF new
<1>3. Same(new.c, d)  BY <1>1, <1>2, FoundWhole, MoveSame
<1> HIDE DEF d
<1>4. Found(d, n)  BY <1>2, <1>3, SameCache DEF Found, Same
<1> QED  BY <1>0, <1>1, <1>2, <1>4 DEF With

LEMMA TableEntryFound ==
  ASSUME HasTable, NEW index, NEW n \in Nat, Found(index.c, n), index.reg \in Regs \ Reserved
  PROVE  Found(TableEntry(index).c, n) /\ TableEntry(index).reg \in Regs
<1> DEFINE table   == GetUnused(index.c, {}, {index.reg})
           const   == GetUnused(table.c, {}, {index.reg, table.reg})
           scratch == GetUnused(const.c, {}, {index.reg, table.reg, const.reg})
           a == SetReg(scratch.c, const.reg, Junk)
           b == SetReg(a, table.reg, Junk)
           d == SetReg(b, scratch.reg, scratch.c.regs[index.reg])
           e == SetReg(d, index.reg, Junk)
<1>0. TableEntry(index).c = e /\ TableEntry(index).reg = scratch.reg  BY DEF TableEntry, With
<1>1. Found(table.c, n)  BY Choices, UnusedFound
<1> HIDE DEF table
<1>2. Found(const.c, n)  BY <1>1, Choices, UnusedFound
<1> HIDE DEF const
<1>3. Found(scratch.c, n) /\ scratch.reg \in Regs
  <2> DEFINE pinned == {index.reg, table.reg, const.reg}
  <2>1. Choice(pinned)  BY FourthChoice
  <2>2. scratch = GetUnused(const.c, {}, pinned)  OBVIOUS
  <2> HIDE DEF pinned, scratch
  <2>3. Found(scratch.c, n) /\ scratch.reg \in Regs \ (pinned \cup Reserved)
    BY <1>2, <2>1, <2>2, UnusedFound
  <2> QED  BY <2>3
<1>4. scratch.c \in Context /\ scratch.c.regs[index.reg] \in Values \cup {Junk}
  <2> HIDE DEF scratch
  <2> QED  BY <1>3, FoundWhole
<1> HIDE DEF scratch
<1>5. Same(scratch.c, a)  BY <1>4, SetRegSame
<1> HIDE DEF a
<1>6. Same(scratch.c, b)  BY <1>5, SetRegAfterSame
<1> HIDE DEF b
<1>7. Same(scratch.c, d)  BY <1>4, <1>6, SetRegAfterSame
<1> HIDE DEF d
<1>8. Same(scratch.c, e)  BY <1>7, SetRegAfterSame
<1> HIDE DEF e
<1> QED  BY <1>0, <1>3, <1>8, SameCache DEF Found, Same

LEMMA IndirectCallWhole ==
  ASSUME NEW entry, NEW n \in Nat, Found(entry.c, n), NEW result \in Results,
         entry.reg \in Regs
  PROVE  Whole(Finish(IndirectCall(entry, n).c, n, result))
<1> DEFINE c == entry.c
           b == SpillBelow(c, Height(c) - n)
           d == TransferArgs(b, n)
           params == {ParamRegs[j] : j \in InRegister(n)}
           target == IF entry.reg \in params THEN FirstOf(Regs \ params) ELSE entry.reg
           e == IF entry.reg \in params THEN SetReg(d, target, b.regs[entry.reg]) ELSE d
<1>0. /\ Good(c) /\ Len(c.stack) \in Nat /\ Len(c.stack) <= MaxHeight
      /\ Len(c.stack) - n \in 0 .. Len(c.stack) /\ n \in 0 .. Len(c.stack)
      /\ NumLocals + n <= Len(c.stack)
  BY FoundHeights
<1>1. IndirectCall(entry, n).c = e  BY DEF IndirectCall
<1> HIDE DEF c, params, target
<1>2. Saved(b, Len(c.stack) - n) /\ Len(b.stack) = Len(c.stack)
  BY <1>0, SpillBelowSaved DEF Height
<1>3. b.regs[entry.reg] \in Values \cup {Junk}
  <2> HIDE DEF b
  <2> QED  BY <1>2, ContextShape DEF Saved
<1> HIDE DEF b
<1>4. Same(b, d)  BY <1>0, <1>2, TransferArgsSame DEF Saved
<1> HIDE DEF d
<1>5. Same(b, e)  BY <1>3, <1>4, SetRegAfterSame
<1> HIDE DEF e
<1>6. Saved(e, Len(c.stack) - n) /\ Len(e.stack) = Len(c.stack)  BY <1>2, <1>5, SavedSame
<1> QED  BY <1>0, <1>1, <1>6, FinishWhole

-----------------------------------------------------------------------------
(* Loops. *)

-----------------------------------------------------------------------------
(* The invariant. *)

\* Forgetting what is not live is not the cache's business either.
LEMMA BecomeFound ==
  ASSUME NEW c, Whole(c), Become(c)
  PROVE  Found(Ctx, 0)'
<1>1. Good(c) /\ c \in Context /\ Len(c.stack) >= NumLocals /\ Len(c.stack) <= MaxHeight
  BY DEF Whole, Good, Become, Height
<1>2. Ctx' = Settled(c)
  <2>1. Settled(c) = [stack |-> c.stack, used |-> c.used, count |-> c.count, last |-> c.last,
                      spills |-> c.spills, ok |-> c.ok, regs |-> LiveRegs(c), mem |-> LiveMem(c)]
    BY <1>1, SettledSame
  <2> QED  BY <2>1 DEF Become, Ctx
<1>3. Good(Settled(c)) /\ Settled(c).stack = c.stack
  BY <1>1, SettledSame, SameCache DEF Same
<1>4. Len(c.stack) \in Nat /\ NumLocals \in Nat  BY <1>1, ContextShape, ValueStackAssumption
<1>5. Len(c.stack) - NumLocals >= 0  BY <1>1, <1>4
<1> QED  BY <1>1, <1>2, <1>3, <1>5 DEF Found

\* The entry of a function that is not the first one compiled.
LEMMA InitFound ==
  ASSUME Init, ~FirstFunction
  PROVE  Found(Ctx, 0)
<1>0. /\ NumLocals \in Nat /\ NumParams \in 0 .. NumLocals /\ NumLocals <= MaxHeight
      /\ NumParams <= Len(ParamRegs) /\ ParamRegs \in Seq(Regs \ Reserved)
  BY ValueStackAssumption DEF Init
<1>1. PICK v \in [1 .. NumParams -> Values] :
        regs = [r \in Regs |-> IF \E i \in 1 .. NumParams : ParamRegs[i] = r
                               THEN v[CHOOSE i \in 1 .. NumParams : ParamRegs[i] = r] ELSE Junk]
  BY DEF Init
<1>2. stack = EntryStack(NumLocals, NumParams, ParamRegs)
  BY DEF Init, EntrySlot, EntryStack
<1>3. Ctx = EntryCache(NumLocals, NumParams, ParamRegs, v)
  BY <1>1, <1>2 DEF Init, Ctx, EntryCache
<1> QED  BY <1>0, <1>3, EntryGood DEF Found

\* One step per handler.
LEMMA NextFound ==
  ASSUME IInv, Next
  PROVE  IInv'
<1> USE DEF IInv
<1>0. Found(Ctx, 0)  OBVIOUS
\* A handler is compiled with as many operands as its guard says.
<1>1. ASSUME NEW n \in Nat, Ready(n) PROVE Found(Ctx, n)
  BY <1>0, <1>1 DEF Found, Ready, Ctx
<1>2. ASSUME NEW c, Whole(c), Become(c), effect'.kind \in Opcodes PROVE IInv'
  BY <1>2, BecomeFound
<1>4. ASSUME NEW v \in Values, I32Const(v) PROVE IInv'
  <2>1. Whole(PushConst(Ctx, v))  BY <1>0, PushConstWhole
  <2> QED  BY <1>2, <1>4, <2>1 DEF I32Const, Emit, Opcodes
<1>5. ASSUME NEW v \in Values, MemoryGrow(v) PROVE IInv'
  <2>1. Whole(GrowCode(Ctx, v))  BY <1>1, <1>5, GrowCodeWhole DEF MemoryGrow
  <2> QED  BY <1>2, <1>5, <2>1 DEF MemoryGrow, Emit, Opcodes
<1>6. ASSUME NEW v \in Values, LoadValue(v) PROVE IInv'
  <2>1. Whole(LoadedValue(Ctx, v))  BY <1>0, LoadedValueWhole
  <2> QED  BY <1>2, <1>6, <2>1 DEF LoadValue, Emit, Opcodes
<1>7. ASSUME NEW x \in 1 .. NumLocals, GetLocal(x) PROVE IInv'
  <2>1. Whole(CopyLocal(Ctx, x))  BY <1>0, CopyLocalWhole
  <2> QED  BY <1>2, <1>7, <2>1 DEF GetLocal, Emit, Opcodes
<1>8. ASSUME NEW x \in 1 .. NumLocals, SetLocal(x) PROVE IInv'
  <2>1. Found(Ctx, 1)  BY <1>1, <1>8 DEF SetLocal
  <2>2. Whole(SetLocalImpl(Ctx, x, FALSE))  BY <2>1, SetLocalWhole
  <2> QED  BY <1>2, <1>8, <2>2 DEF SetLocal, Emit, Opcodes
<1>9. ASSUME NEW x \in 1 .. NumLocals, TeeLocal(x) PROVE IInv'
  <2>1. Found(Ctx, 1)  BY <1>1, <1>9 DEF TeeLocal
  <2>2. Whole(SetLocalImpl(Ctx, x, TRUE))  BY <2>1, SetLocalWhole
  <2> QED  BY <1>2, <1>9, <2>2 DEF TeeLocal, Emit, Opcodes
<1>10. ASSUME Drop PROVE IInv'
  <2>1. Whole(DropTop(Ctx))  BY <1>1, <1>10, DropTopWhole DEF Drop
  <2> QED  BY <1>2, <1>10, <2>1 DEF Drop, Emit, Opcodes
<1>11. ASSUME UnOp PROVE IInv'
  <2>1. Whole(UnaryCode(Ctx))  BY <1>1, <1>11, UnaryCodeWhole DEF UnOp
  <2> QED  BY <1>2, <1>11, <2>1 DEF UnOp, Emit, Opcodes
<1>12. ASSUME Ready(2) PROVE Operands(PopOperands(Ctx))
  <2>1. Found(Ctx, 2)  BY <1>1, <1>12
  <2> QED  BY <2>1, PopOperandsFound DEF Operands
<1>13. ASSUME BinOp PROVE IInv'
  <2>1. Whole(BinaryCode(PopOperands(Ctx)))  BY <1>12, <1>13, BinaryCodeWhole DEF BinOp
  <2> QED  BY <1>2, <1>13, <2>1 DEF BinOp, Emit, Opcodes
<1>14. ASSUME ShiftOp PROVE IInv'
  <2>1. Whole(ShiftCode(PopOperands(Ctx)))  BY <1>12, <1>14, ShiftCodeWhole DEF ShiftOp
  <2> QED  BY <1>2, <1>14, <2>1 DEF ShiftOp, Emit, Opcodes
<1>15. ASSUME NEW result \in {RAX, RDX}, DivOp(result) PROVE IInv'
  <2>1. Operands(PopOperands(Ctx))  BY <1>12, <1>15 DEF DivOp
  <2>2. Whole(DivisionCode(PopOperands(Ctx), result))  BY <2>1, DivisionCodeWhole
  <2> QED  BY <1>2, <1>15, <2>2 DEF DivOp, Emit, Opcodes
<1>16. ASSUME Select PROVE IInv'
  <2>1. Whole(SelectCode(Ctx))  BY <1>1, <1>16, SelectCodeWhole DEF Select
  <2> QED  BY <1>2, <1>16, <2>1 DEF Select, Emit, Opcodes
<1>17. ASSUME LoadMem PROVE IInv'
  <2>1. Whole(LoadCode(Ctx))  BY <1>1, <1>17, LoadCodeWhole DEF LoadMem
  <2> QED  BY <1>2, <1>17, <2>1 DEF LoadMem, Emit, Opcodes
<1>18. ASSUME StoreMem PROVE IInv'
  <2>1. Whole(StoreOperands(Ctx).c)  BY <1>1, <1>18, StoreOperandsWhole DEF StoreMem
  <2>2. Become(StoreOperands(Ctx).c) /\ Emit("store", StoreOperands(Ctx).args)
    BY <1>18 DEF StoreMem
  <2> QED  BY <1>2, <2>1, <2>2 DEF Emit, Opcodes
<1>19. ASSUME SetGlobal PROVE IInv'
  <2>1. Found(Ctx, 1)  BY <1>1, <1>19 DEF SetGlobal
  <2>2. Found(PopToRegister(Ctx, {}).c, 0)  BY <2>1, Choices, PopEach
  <2>3. Whole(PopToRegister(Ctx, {}).c)  BY <2>2, FoundWhole
  <2>4. PICK args : Become(PopToRegister(Ctx, {}).c) /\ Emit("global", args)
    BY <1>19 DEF SetGlobal
  <2> QED  BY <1>2, <2>3, <2>4 DEF Emit, Opcodes
<1>20. ASSUME EnterLoop PROVE IInv'
  <2>1. Whole(SpillLocals(Ctx, NumLocals))  BY <1>0, SpillLocalsWhole
  <2> QED  BY <1>2, <1>20, <2>1 DEF EnterLoop, Emit, Opcodes
<1>21. ASSUME NEW n \in 0 .. MaxParams, NEW result \in Results, CallDirect(n, result) PROVE IInv'
  <2>0. n \in Nat  BY ValueStackAssumption
  <2>1. Found(Ctx, n)  BY <1>1, <1>21, <2>0 DEF CallDirect
  <2>2. Whole(Finish(DirectCall(Ctx, n).c, n, result))  BY <2>0, <2>1, DirectCallWhole
  <2>3. Become(Finish(DirectCall(Ctx, n).c, n, result)) /\ effect'.kind = "call"
    BY <1>21 DEF CallDirect, Emit
  <2> QED  BY <1>2, <2>2, <2>3 DEF Emit, Opcodes
<1>22. ASSUME NEW n \in 0 .. MaxParams, NEW result \in Results, CallIndirect(n, result) PROVE IInv'
  <2> DEFINE entry == TableEntry(TableIndex(Ctx))
             call == IndirectCall(entry, n)
  <2>0. n \in Nat /\ n + 1 \in Nat  BY ValueStackAssumption
  <2>1. Found(Ctx, n + 1) /\ HasTable  BY <1>1, <1>22, <2>0 DEF CallIndirect
  <2>2. Found(TableIndex(Ctx).c, n) /\ TableIndex(Ctx).reg \in Regs \ Reserved
    BY <2>0, <2>1, TableIndexFound
  <2>3. Found(entry.c, n) /\ entry.reg \in Regs  BY <2>0, <2>1, <2>2, TableEntryFound
  <2>4. Become(Finish(call.c, n, result)) /\ effect'.kind = "indirect"
    BY <1>22 DEF CallIndirect, Emit
  <2> HIDE DEF entry
  <2>5. Whole(Finish(call.c, n, result))  BY <2>0, <2>3, IndirectCallWhole
  <2> QED  BY <1>2, <2>4, <2>5 DEF Emit, Opcodes
<1> HIDE DEF IInv
<1>23. Immediates \subseteq Values  BY ValueStackAssumption
<1> QED
  BY <1>4, <1>5, <1>6, <1>7, <1>8, <1>9, <1>10, <1>11, <1>13, <1>14, <1>15, <1>16,
     <1>17, <1>18, <1>19, <1>20, <1>21, <1>22, <1>23 DEF Next

\* A step that leaves the variables alone.
LEMMA StutterFound ==
  ASSUME IInv, UNCHANGED vars
  PROVE  IInv'
<1>1. Ctx' = Ctx /\ effect' = effect  BY DEF vars, cache, Ctx
<1> QED  BY <1>1 DEF IInv, Found, Good

-----------------------------------------------------------------------------
(* Asserts. *)

\* A sequence of instructions that asserts nothing false.
Alike(c, d) == Same(c, d) /\ d.ok = c.ok

LEMMA AlikeTransitive ==
  ASSUME NEW c, NEW d, NEW e, Alike(c, d), Alike(d, e)
  PROVE  Alike(c, e)
BY SameTransitive DEF Alike

LEMMA SetRegAlike ==
  ASSUME NEW c, NEW d, Alike(c, d), NEW r, NEW v \in Values \cup {Junk}
  PROVE  Alike(c, SetReg(d, r, v))
BY SetRegAfterSame, SetRegOk DEF Alike, Same

LEMMA MoveAlike ==
  ASSUME NEW c, NEW d, Alike(c, d), NEW dst \in Regs, NEW src \in Regs, dst # src
  PROVE  Alike(c, Move(d, dst, src))
<1>1. Same(d, Move(d, dst, src)) /\ Move(d, dst, src).ok = d.ok
  BY MoveSame, MoveOk DEF Alike, Same
<1> QED  BY <1>1, AlikeTransitive DEF Alike

LEMMA MaybeMoveAlike ==
  ASSUME NEW c, NEW d, Alike(c, d), NEW P \in BOOLEAN, NEW dst \in Regs, NEW src \in Regs
  PROVE  /\ (~P => dst # src) => Alike(c, IF P THEN d ELSE Move(d, dst, src))
         /\ (P => dst # src) => Alike(c, IF P THEN Move(d, dst, src) ELSE d)
<1>1. dst # src => Alike(c, Move(d, dst, src))  BY MoveAlike
<1> QED  BY <1>1

LEMMA TwoAddressAlike ==
  ASSUME NEW c \in Context, NEW dst \in Regs, NEW lhs \in Regs, NEW rhs \in Regs
  PROVE  Alike(c, EmitTwoAddress(c, dst, lhs, rhs))
<1> DEFINE m == Move(c, dst, lhs)
<1>0. Alike(c, c)  BY DEF Alike, Same
<1>1. CASE dst = lhs
  <2>1. Alike(c, SetReg(c, dst, Binary(c.regs[lhs], c.regs[lhs])))
    BY <1>0, BinaryTyped, SetRegAlike
  <2> QED  BY <1>1, <2>1 DEF EmitTwoAddress
<1>2. CASE dst # lhs
  <2>1. Alike(c, m)  BY <1>0, <1>2, MoveAlike
  <2> HIDE DEF m
  <2>2. Alike(c, SetReg(m, dst, Binary(m.regs[dst], m.regs[rhs])))
    BY <2>1, BinaryTyped, SetRegAlike
  <2> QED  BY <1>2, <2>2 DEF EmitTwoAddress, m
<1> QED  BY <1>1, <1>2

\* The scratch register is no operand, so no move goes to where it comes from.
LEMMA ShiftAlike ==
  ASSUME NEW c \in Context, NEW dst \in Regs \ Reserved, NEW src \in Regs \ Reserved,
         NEW amount \in Regs \ Reserved
  PROVE  Alike(c, EmitShift(c, dst, src, amount))
<1>0. /\ Alike(c, c) /\ RCX \in Regs /\ ScratchGP \in Regs
      /\ ScratchGP # RCX /\ ScratchGP # src /\ dst \in Regs /\ src \in Regs /\ amount \in Regs
  BY FixedRegs, ValueStackAssumption DEF Alike, Same
<1>1. CASE dst = RCX
  <2> DEFINE a == Move(c, ScratchGP, src)
             b == IF amount = RCX THEN a ELSE Move(a, RCX, amount)
             s == SetReg(b, ScratchGP, Binary(b.regs[ScratchGP], b.regs[RCX]))
  <2>1. Alike(c, a)  BY <1>0, MoveAlike
  <2> HIDE DEF a
  <2>2. Alike(c, b)  BY <1>0, <2>1, MaybeMoveAlike
  <2> HIDE DEF b
  <2>3. Alike(c, s)  BY <2>2, BinaryTyped, SetRegAlike
  <2> HIDE DEF s
  <2>4. Alike(c, Move(s, RCX, ScratchGP))  BY <1>0, <2>3, MoveAlike
  <2>5. EmitShift(c, dst, src, amount) = Move(s, RCX, ScratchGP)
    BY <1>1 DEF EmitShift, a, b, s
  <2> QED  BY <2>4, <2>5
<1>2. CASE dst # RCX
  <2> DEFINE save == amount # RCX /\ (src = RCX \/ RCX \in c.used)
             a    == IF save THEN Move(c, ScratchGP, RCX) ELSE c
             from == IF amount # RCX /\ src = RCX THEN ScratchGP ELSE src
             b    == IF amount = RCX THEN a ELSE Move(a, RCX, amount)
             d    == IF dst = from THEN b ELSE Move(b, dst, from)
             s    == SetReg(d, dst, Binary(d.regs[dst], d.regs[RCX]))
             e    == IF save THEN Move(s, RCX, ScratchGP) ELSE s
  <2>1. EmitShift(c, dst, src, amount) = e  BY <1>2 DEF EmitShift
  <2>2. from \in Regs /\ save \in BOOLEAN  BY <1>0
  <2> HIDE DEF save, from
  <2>3. Alike(c, a)  BY <1>0, <2>2, MaybeMoveAlike
  <2> HIDE DEF a
  <2>4. Alike(c, b)  BY <1>0, <2>3, MaybeMoveAlike
  <2> HIDE DEF b
  <2>5. Alike(c, d)  BY <1>0, <2>2, <2>4, MaybeMoveAlike
  <2> HIDE DEF d
  <2>6. Alike(c, s)  BY <2>5, BinaryTyped, SetRegAlike
  <2> HIDE DEF s
  <2>7. Alike(c, e)  BY <1>0, <2>2, <2>6, MaybeMoveAlike
  <2> QED  BY <2>1, <2>7
<1> QED  BY <1>1, <1>2

LEMMA DivisionAlike ==
  ASSUME NEW c \in Context, NEW dst \in Regs, NEW lhs \in Regs, NEW rhs \in Regs \ Reserved,
         NEW result \in {RAX, RDX}
  PROVE  Alike(c, EmitDivision(c, dst, lhs, rhs, result))
<1> DEFINE twice == rhs \in {RAX, RDX}
           a  == IF twice THEN Move(c, ScratchGP, rhs) ELSE c
           by == IF twice THEN ScratchGP ELSE rhs
           b  == IF lhs = RAX THEN a ELSE Move(a, RAX, lhs)
           q  == Binary(b.regs[RAX], SetReg(b, RDX, Junk).regs[by])
           d  == SetReg(SetReg(b, RAX, IF result = RAX THEN q ELSE Junk),
                        RDX, IF result = RDX THEN q ELSE Junk)
           e  == IF dst = result THEN d ELSE Move(d, dst, result)
<1>0. /\ Alike(c, c) /\ RAX \in Regs /\ RDX \in Regs /\ ScratchGP \in Regs /\ result \in Regs
      /\ ScratchGP # rhs /\ rhs \in Regs
  BY FixedRegs, ValueStackAssumption DEF Alike, Same
<1>1. EmitDivision(c, dst, lhs, rhs, result) = e  BY DEF EmitDivision
<1>2. q \in Values \cup {Junk} /\ twice \in BOOLEAN  BY BinaryTyped
<1> HIDE DEF twice, q, by
<1>3. Alike(c, a)  BY <1>0, <1>2, MaybeMoveAlike
<1> HIDE DEF a
<1>4. Alike(c, b)  BY <1>0, <1>3, MaybeMoveAlike
<1> HIDE DEF b
<1>5. Alike(c, SetReg(b, RAX, IF result = RAX THEN q ELSE Junk))  BY <1>2, <1>4, SetRegAlike
<1>6. Alike(c, d)  BY <1>2, <1>5, SetRegAlike
<1> HIDE DEF d
<1>7. Alike(c, e)  BY <1>0, <1>6, MaybeMoveAlike
<1> QED  BY <1>1, <1>7

\* Popping and choosing, with the heights of the handlers.
LEMMA PopEachOk ==
  ASSUME NEW c, Found(c, 1) \/ Found(c, 2) \/ Found(c, 3), NEW pinned, Choice(pinned)
  PROVE  PopToRegister(c, pinned).c.ok = c.ok
<1>1. PICK n \in 1 .. 3 : Found(c, n)  OBVIOUS
<1>2. n \in Nat /\ n > 0  OBVIOUS
<1>3. Good(c) /\ Len(c.stack) > 0 /\ Len(c.stack) <= MaxHeight  BY <1>1, <1>2, FoundHeights
<1> QED  BY <1>3, PopToRegisterOk

LEMMA UnusedOk ==
  ASSUME NEW c, Found(c, 0), NEW pinned, Choice(pinned), NEW first \in SUBSET (Regs \ Reserved)
  PROVE  GetUnused(c, first, pinned).c.ok = c.ok
BY FoundHeights, GetUnusedOk

LEMMA PushAlike ==
  ASSUME NEW c, NEW d, Alike(c, d), NEW r \in Regs
  PROVE  PushRegister(d, r).ok = c.ok
BY PushRegisterOk DEF Alike, Same

LEMMA UnaryCodeOk ==
  ASSUME NEW c, Found(c, 1)
  PROVE  UnaryCode(c).ok = c.ok
<1> DEFINE src == PopToRegister(c, {})
           d   == GetUnused(src.c, {src.reg}, {})
           v   == Unary(d.c.regs[src.reg])
<1>0. UnaryCode(c) = PushRegister(SetReg(d.c, d.reg, v), d.reg)  BY DEF UnaryCode
<1>1. Found(src.c, 0) /\ src.reg \in Regs \ Reserved /\ src.c.ok = c.ok
  BY Choices, PopEach, PopEachOk
<1> HIDE DEF src
<1>2. Good(d.c) /\ d.reg \in Regs  BY <1>1, Choices, FoundHeights, GetUnusedFirstGood
<1>3. d.c.ok = c.ok
  <2>1. {src.reg} \in SUBSET (Regs \ Reserved)  BY <1>1
  <2> QED  BY <1>1, <2>1, Choices, UnusedOk
<1> HIDE DEF d
<1>4. Alike(d.c, SetReg(d.c, d.reg, v))
  BY <1>2, UnaryTyped, SetRegAlike DEF Alike, Same, Good
<1> QED  BY <1>0, <1>2, <1>3, <1>4, PushAlike

LEMMA PopOperandsOk ==
  ASSUME NEW c, Found(c, 2)
  PROVE  PopOperands(c).c.ok = c.ok
<1> DEFINE rhs == PopToRegister(c, {})
           lhs == PopToRegister(rhs.c, {rhs.reg})
           d   == GetUnused(lhs.c, {}, {rhs.reg, lhs.reg})
<1>0. PopOperands(c).c = d.c  BY DEF PopOperands
<1>1. Found(rhs.c, 1) /\ rhs.c.ok = c.ok  BY Choices, PopEach, PopEachOk
<1> HIDE DEF rhs
<1>2. Found(lhs.c, 0) /\ lhs.c.ok = c.ok  BY <1>1, Choices, PopEach, PopEachOk
<1> HIDE DEF lhs
<1>3. d.c.ok = c.ok  BY <1>2, Choices, UnusedOk
<1> QED  BY <1>0, <1>3

LEMMA BinaryCodeOk ==
  ASSUME NEW o, Operands(o)
  PROVE  BinaryCode(o).ok = o.c.ok
<1>1. Alike(o.c, EmitTwoAddress(o.c, o.dst, o.lhs, o.rhs))
  BY FoundWhole, TwoAddressAlike DEF Operands
<1> QED  BY <1>1, PushAlike DEF Operands, BinaryCode

LEMMA ShiftCodeOk ==
  ASSUME NEW o, Operands(o)
  PROVE  ShiftCode(o).ok = o.c.ok
<1>1. Alike(o.c, EmitShift(o.c, o.dst, o.lhs, o.rhs))
  BY FoundWhole, ShiftAlike DEF Operands
<1> QED  BY <1>1, PushAlike DEF Operands, ShiftCode

LEMMA DivisionCodeOk ==
  ASSUME NEW o, Operands(o), NEW result \in {RAX, RDX}
  PROVE  DivisionCode(o, result).ok = o.c.ok
<1> DEFINE a == SpillRegister(o.c, RAX)
           b == SpillRegister(a, RDX)
           e == EmitDivision(b, o.dst, o.lhs, o.rhs, result)
<1>0. DivisionCode(o, result) = PushRegister(e, o.dst)  BY DEF DivisionCode
<1>1. /\ Good(o.c) /\ Len(o.c.stack) <= MaxHeight
      /\ o.dst \in Regs /\ o.lhs \in Regs /\ o.rhs \in Regs \ Reserved
  BY FoundWhole DEF Operands, Found
<1>2. Good(a) /\ Len(a.stack) = Len(o.c.stack) /\ a.ok = o.c.ok
  BY <1>1, FixedRegs, SpillRegisterGood, SpillRegisterOk DEF KeptSlots, Good
<1> HIDE DEF a
<1>3. Good(b) /\ b.ok = o.c.ok
  BY <1>1, <1>2, FixedRegs, SpillRegisterGood, SpillRegisterOk DEF Good
<1> HIDE DEF b
<1>4. Alike(b, e)  BY <1>1, <1>3, DivisionAlike DEF Good
<1> HIDE DEF e
<1> QED  BY <1>0, <1>1, <1>3, <1>4, PushAlike

LEMMA SelectCodeOk ==
  ASSUME NEW c, Found(c, 3)
  PROVE  SelectCode(c).ok = c.ok
<1> DEFINE cond  == PopToRegister(c, {})
           false == PopToRegister(cond.c, {cond.reg})
           true  == PopToRegister(false.c, {cond.reg, false.reg})
           first == {false.reg, true.reg}
           d     == GetUnused(true.c, first, {})
           from  == IF d.c.regs[cond.reg] # 0 THEN true.reg ELSE false.reg
           e     == IF d.reg = from THEN d.c ELSE Move(d.c, d.reg, from)
<1>0. SelectCode(c) = PushRegister(e, d.reg)  BY DEF SelectCode
<1>1. Found(cond.c, 2) /\ cond.c.ok = c.ok  BY Choices, PopEach, PopEachOk
<1> HIDE DEF cond
<1>2. Found(false.c, 1) /\ false.reg \in Regs \ Reserved /\ false.c.ok = c.ok
  BY <1>1, Choices, PopEach, PopEachOk
<1> HIDE DEF false
<1>3. Found(true.c, 0) /\ true.reg \in Regs \ Reserved /\ true.c.ok = c.ok
  BY <1>2, Choices, PopEach, PopEachOk
<1> HIDE DEF true
<1>4. first \in SUBSET (Regs \ Reserved)  BY <1>2, <1>3
<1>5. Good(d.c) /\ d.reg \in Regs  BY <1>2, <1>3, Choices, FoundHeights, GetUnusedFirstGood
<1> HIDE DEF first
<1>6. d.c.ok = c.ok  BY <1>3, <1>4, Choices, UnusedOk
<1> HIDE DEF d
<1>7. from \in Regs  BY <1>2, <1>3
<1> HIDE DEF from
<1>8. Alike(d.c, e)
  <2>1. Alike(d.c, d.c)  BY <1>5 DEF Alike, Same, Good
  <2>2. d.reg # from => Alike(d.c, Move(d.c, d.reg, from))
    BY <1>5, <1>7, <2>1, MoveAlike
  <2> QED  BY <2>1, <2>2
<1> HIDE DEF e
<1> QED  BY <1>0, <1>5, <1>6, <1>8, PushAlike

LEMMA LoadCodeOk ==
  ASSUME NEW c, Found(c, 1)
  PROVE  LoadCode(c).ok = c.ok
<1> DEFINE index == PopToRegister(c, {})
           d     == GetUnused(index.c, {}, {index.reg})
           v     == Unary(d.c.regs[index.reg])
<1>0. LoadCode(c) = PushRegister(SetReg(d.c, d.reg, v), d.reg)  BY DEF LoadCode
<1>1. Found(index.c, 0) /\ index.c.ok = c.ok  BY Choices, PopEach, PopEachOk
<1> HIDE DEF index
<1>2. Found(d.c, 0) /\ d.reg \in Regs /\ d.c.ok = c.ok
  BY <1>1, Choices, UnusedFound, UnusedOk
<1> HIDE DEF d
<1>3. Alike(d.c, d.c)  BY <1>2, FoundWhole DEF Alike, Same
<1>4. Alike(d.c, SetReg(d.c, d.reg, v))  BY <1>3, UnaryTyped, SetRegAlike
<1> QED  BY <1>0, <1>2, <1>4, PushAlike

LEMMA StoreOperandsOk ==
  ASSUME NEW c, Found(c, 2)
  PROVE  StoreOperands(c).c.ok = c.ok
<1> DEFINE value == PopToRegister(c, {})
           index == PopToRegister(value.c, {value.reg})
<1>0. StoreOperands(c).c = index.c  BY DEF StoreOperands
<1>1. Found(value.c, 1) /\ value.c.ok = c.ok  BY Choices, PopEach, PopEachOk
<1> HIDE DEF value
<1>2. index.c.ok = c.ok  BY <1>1, Choices, PopEachOk
<1> QED  BY <1>0, <1>2

LEMMA GrowCodeOk ==
  ASSUME NEW c, Found(c, 1), NEW v \in Values
  PROVE  GrowCode(c, v).ok = c.ok
<1> DEFINE value == PopToRegister(c, {})
           page  == GetUnused(value.c, {}, {})
           d     == PushRegister(page.c, value.reg)
<1>0. GrowCode(c, v) = IF MaxMemory = 0 THEN PushConst(value.c, v) ELSE PushConst(d, v)
  BY DEF GrowCode
<1>1. Found(value.c, 0) /\ value.reg \in Regs \ Reserved /\ value.c.ok = c.ok
  BY Choices, PopEach, PopEachOk
<1> HIDE DEF value
<1>2. Found(page.c, 0) /\ page.c.ok = c.ok  BY <1>1, Choices, UnusedFound, UnusedOk
<1> HIDE DEF page
<1>3. d \in Context /\ d.ok = c.ok
  BY <1>1, <1>2, FoundWhole, PushRegisterGood, PushRegisterOk DEF Good
<1> HIDE DEF d
<1>4. value.c \in Context  BY <1>1, FoundWhole
<1> QED  BY <1>0, <1>1, <1>3, <1>4, PushOk DEF PushConst

\* The registers are reset before the result of a call takes rax.
LEMMA FinishOk ==
  ASSUME NEW c, NEW n \in Nat, Saved(c, Len(c.stack) - n), NumLocals + n <= Len(c.stack),
         NEW result \in Results
  PROVE  Finish(c, n, result).ok = c.ok
<1> DEFINE t == SubSeq(c.stack, 1, Len(c.stack) - n)
           junk == [r \in Regs |-> Junk]
           zero == [r \in Regs |-> 0]
           cut == [c EXCEPT !.stack = t, !.regs = junk]
           gone == ResetUsed(cut)
           m == Len(c.stack) - n
<1>0. /\ c \in Context /\ Len(c.stack) \in Nat /\ NumLocals \in Nat
      /\ m \in Nat /\ m <= Len(c.stack) /\ c.stack \in Seq(Slot)
      /\ \A i \in 1 .. Len(c.stack) : c.stack[i] \in Slot
  BY ContextShape, ValueStackAssumption DEF Saved
<1>1. t \in Seq(Slot)  BY <1>0, SubSeqProperties
<1>2. junk \in [Regs -> Values \cup {Junk}] /\ zero \in [Regs -> Nat]  OBVIOUS
<1> HIDE DEF t, junk, zero
<1>3. cut \in Context /\ cut.ok = c.ok  BY <1>0, <1>1, <1>2 DEF Context
<1>4. gone = [cut EXCEPT !.used = Reserved, !.count = zero]  BY DEF ResetUsed, zero
<1>5. Finish(c, n, result) =
        IF result = <<>> THEN gone
        ELSE PushRegister(Assert(SetReg(gone, RAX, result[1]), ~(RAX \in gone.used)), RAX)
  BY DEF Finish, t, junk
<1> HIDE DEF cut, gone
<1>6. gone \in Context /\ gone.used = Reserved /\ gone.ok = c.ok
  BY <1>2, <1>3, <1>4, RegsAssumption DEF Context
<1>7. CASE result = <<>>  BY <1>5, <1>6, <1>7
<1>8. CASE result # <<>>
  <2> DEFINE s == SetReg(gone, RAX, result[1])
             a == Assert(s, ~(RAX \in gone.used))
  <2>1. result[1] \in Values \cup {Junk}  BY <1>8 DEF Results
  <2>2. s \in Context /\ s.ok = c.ok  BY <1>6, <2>1, SetRegSame, SetRegOk DEF Same
  <2>3. ~(RAX \in gone.used)  BY <1>6, FixedRegs
  <2> HIDE DEF s
  <2>4. a \in Context /\ a.ok = c.ok  BY <2>2, <2>3, AssertSame, AssertOk DEF Same
  <2> HIDE DEF a
  <2>5. PushRegister(a, RAX).ok = c.ok  BY <2>4, FixedRegs, PushRegisterOk
  <2> QED  BY <1>5, <1>8, <2>5 DEF s, a
<1> QED  BY <1>7, <1>8

LEMMA TransferArgsOk ==
  ASSUME NEW c \in Context, NEW n
  PROVE  TransferArgs(c, n).ok = c.ok
<1> DEFINE g == [r \in Regs |-> IF \E j \in InRegister(n) : ParamRegs[j] = r
                                THEN ValueAt(c, Height(c) - n + ParamReg(n, r))
                                ELSE c.regs[r]]
<1>1. TransferArgs(c, n) = [c EXCEPT !.regs = g]  BY DEF TransferArgs
<1> HIDE DEF g
<1> QED  BY <1>1, FieldsOk

LEMMA DirectCallOk ==
  ASSUME NEW c, NEW n \in Nat, Found(c, n), NEW result \in Results
  PROVE  Finish(DirectCall(c, n).c, n, result).ok = c.ok
<1> DEFINE b == SpillBelow(c, Height(c) - n)
           d == TransferArgs(b, n)
<1>0. /\ c \in Context /\ Good(c) /\ Len(c.stack) \in Nat /\ Len(c.stack) <= MaxHeight
      /\ Len(c.stack) - n \in 0 .. Len(c.stack) /\ n \in 0 .. Len(c.stack)
      /\ NumLocals + n <= Len(c.stack)
  BY FoundHeights
<1>1. DirectCall(c, n).c = d  BY DEF DirectCall
<1>2. Saved(b, Len(c.stack) - n) /\ Len(b.stack) = Len(c.stack)
  BY <1>0, SpillBelowSaved DEF Height
<1>3. b.ok = c.ok  BY <1>0, StoreSlotsOk DEF SpillBelow
<1> HIDE DEF b
<1>4. Same(b, d) /\ d.ok = c.ok
  BY <1>0, <1>2, <1>3, TransferArgsSame, TransferArgsOk DEF Saved
<1> HIDE DEF d
<1>5. Saved(d, Len(c.stack) - n) /\ Len(d.stack) = Len(c.stack)  BY <1>2, <1>4, SavedSame
<1> QED  BY <1>0, <1>1, <1>4, <1>5, FinishOk

\* A free register is found without a spill.
LEMMA FreeFound ==
  ASSUME NEW c \in Context, ~(Regs \subseteq c.used)
  PROVE  GetUnused(c, {}, {}).reg \in Regs \ c.used
         /\ GetUnused(c, {}, {}).c.used = c.used
<1> DEFINE P == \A r \in {} : (\A q \in {} \ c.used : r <= q) => Consistent(c, r)
           d == Assert(c, P)
           free == (Regs \ d.used) \ {}
<1>1. GetUnused(c, {}, {}) = GetUnusedRegister(d, {})  BY DEF GetUnused
<1>2. d.used = c.used  BY DEF Assert, Context
<1> HIDE DEF d
<1>3. free # {} /\ free \in SUBSET Nat /\ free = Regs \ c.used  BY <1>2, RegsAssumption
<1>4. GetUnusedRegister(d, {}) = With(d, FirstOf(free))  BY <1>3 DEF GetUnusedRegister
<1> HIDE DEF free
<1>5. FirstOf(free) \in free  BY <1>3, FirstOfIsLeast
<1> QED  BY <1>1, <1>2, <1>3, <1>4, <1>5 DEF With

\* The index of call_indirect is copied to another register than its own, as
\* long as one is free.
LEMMA TableIndexOk ==
  ASSUME NEW c, NEW n \in Nat, Found(c, n + 1), ~(Regs \subseteq c.used)
  PROVE  TableIndex(c).c.ok = c.ok
<1> DEFINE popped == PopToRegister(c, {})
           new    == GetUnused(popped.c, {}, {})
           d      == Move(new.c, new.reg, popped.reg)
<1>0. TableIndex(c) = IF popped.reg \in popped.c.used THEN With(d, new.reg) ELSE popped
  BY DEF TableIndex
<1>1. /\ c \in Context /\ Good(c) /\ Len(c.stack) \in Nat /\ Len(c.stack) > 0
      /\ Len(c.stack) <= MaxHeight
  <2> DEFINE k == n + 1
  <2>1. k \in Nat /\ k > 0 /\ Found(c, k)  OBVIOUS
  <2> HIDE DEF k
  <2> QED  BY <2>1, FoundHeights
<1>2. /\ Good(popped.c) /\ Len(popped.c.stack) <= MaxHeight
      /\ popped.reg \in Regs /\ popped.c.ok = c.ok
  <2>1. Good(popped.c) /\ Len(popped.c.stack) = Len(c.stack) - 1 /\ popped.reg \in Regs
    BY <1>1, Choices, PopToRegisterGood
  <2>2. popped.c.ok = c.ok  BY <1>1, Choices, PopToRegisterOk
  <2>3. Len(c.stack) - 1 <= MaxHeight  BY <1>1, RegsAssumption
  <2> HIDE DEF popped
  <2> QED  BY <2>1, <2>2, <2>3
<1>3. ASSUME popped.reg \in popped.c.used PROVE new.reg # popped.reg
  <2> DEFINE e == Pop(c)
             r == Top(c).reg
             u == GetUnused(e, {}, {})
  <2>1. e \in Context /\ e.used = c.used  BY <1>1, Popped
  <2>2. CASE Top(c).loc = "reg"
    <3>1. popped.c = DecUsed(e, r)  BY <2>2, PoppedFromRegister
    <3>2. DecUsed(e, r).used \subseteq e.used
      BY <2>1, DecUsedShrinks
    <3>3. ~(Regs \subseteq popped.c.used) /\ popped.c \in Context
      BY <1>2, <2>1, <3>1, <3>2 DEF Good
    <3> HIDE DEF popped
    <3>4. new.reg \notin popped.c.used  BY <3>3, FreeFound
    <3> QED  BY <1>3, <3>4
  <2>3. CASE Top(c).loc # "reg"
    <3>1. u.reg \in Regs \ c.used /\ u.c.used = c.used  BY <2>1, FreeFound
    <3>2. u.reg # NoReg  BY <3>1, RegsAssumption DEF NoReg
    <3>3. u.c \in Context
      <4>1. Good(e) /\ Len(e.stack) <= MaxHeight
        <5>1. Good(e)  BY <1>1, <2>3, PopPlainGood
        <5>2. Len(e.stack) = Len(c.stack) - 1  BY <1>1, Popped
        <5> HIDE DEF e
        <5> QED  BY <1>1, <5>1, <5>2, RegsAssumption
      <4> HIDE DEF e
      <4> QED  BY <4>1, Choices, GetUnusedGood DEF Good
    <3>4. popped.reg = u.reg
          /\ (popped.c = LoadConstant(u.c, u.reg, Top(c).val) \/ popped.c = Fill(u.c, u.reg, Height(c)))
      BY <2>3, <3>2, PoppedFromFrame
    <3> HIDE DEF u, popped
    <3>5. popped.reg = u.reg /\ popped.c.used = u.c.used
      <4>1. \A v : SetReg(u.c, u.reg, v).used = u.c.used  BY <3>3 DEF SetReg, Context
      <4> QED  BY <3>4, <4>1 DEF LoadConstant, Fill
    <3> QED  BY <1>3, <3>1, <3>5
  <2> QED  BY <2>2, <2>3
<1> HIDE DEF popped
<1>4. new.reg \in Regs /\ Good(new.c) /\ new.c.ok = c.ok
  <2>1. Good(new.c) /\ new.reg \in Regs  BY <1>2, Choices, GetUnusedGood
  <2>2. {} \in SUBSET (Regs \ Reserved)  OBVIOUS
  <2>3. new.c.ok = popped.c.ok  BY <1>2, <2>2, Choices, GetUnusedOk
  <2> QED  BY <1>2, <2>1, <2>3
<1> HIDE DEF new
<1>5. ASSUME popped.reg \in popped.c.used PROVE d.ok = c.ok
  <2>1. new.reg # popped.reg  BY <1>3, <1>5
  <2> QED  BY <1>2, <1>4, <2>1, MoveOk DEF Good
<1> QED  BY <1>0, <1>2, <1>5 DEF With

LEMMA TableEntryOk ==
  ASSUME HasTable, NEW index, NEW n \in Nat, Found(index.c, n), index.reg \in Regs \ Reserved
  PROVE  TableEntry(index).c.ok = index.c.ok
<1> DEFINE table   == GetUnused(index.c, {}, {index.reg})
           const   == GetUnused(table.c, {}, {index.reg, table.reg})
           pinned  == {index.reg, table.reg, const.reg}
           scratch == GetUnused(const.c, {}, pinned)
           a == SetReg(scratch.c, const.reg, Junk)
           b == SetReg(a, table.reg, Junk)
           d == SetReg(b, scratch.reg, scratch.c.regs[index.reg])
           e == SetReg(d, index.reg, Junk)
<1>0. TableEntry(index).c = e  BY DEF TableEntry, With
<1>1. ASSUME NEW q, Found(q, n), NEW p, Choice(p) PROVE GetUnused(q, {}, p).c.ok = q.ok
  <2>1. Good(q) /\ Len(q.stack) <= MaxHeight  BY <1>1, FoundHeights
  <2> QED  BY <1>1, <2>1, GetUnusedOk
<1>2. Found(table.c, n) /\ table.c.ok = index.c.ok  BY <1>1, Choices, UnusedFound
<1> HIDE DEF table
<1>3. Found(const.c, n) /\ const.c.ok = index.c.ok  BY <1>1, <1>2, Choices, UnusedFound
<1>4. Choice(pinned)  BY FourthChoice
<1> HIDE DEF const, pinned
<1>5. Found(scratch.c, n) /\ scratch.c.ok = index.c.ok  BY <1>1, <1>3, <1>4, UnusedFound
<1>6. scratch.c \in Context /\ scratch.c.regs[index.reg] \in Values \cup {Junk}
  <2> HIDE DEF scratch
  <2> QED  BY <1>5, FoundWhole
<1> HIDE DEF scratch
<1>7. Alike(scratch.c, scratch.c)  BY <1>6 DEF Alike, Same
<1>8. Alike(scratch.c, a)  BY <1>7, SetRegAlike
<1> HIDE DEF a
<1>9. Alike(scratch.c, b)  BY <1>8, SetRegAlike
<1> HIDE DEF b
<1>10. Alike(scratch.c, d)  BY <1>6, <1>9, SetRegAlike
<1> HIDE DEF d
<1>11. Alike(scratch.c, e)  BY <1>10, SetRegAlike
<1> QED  BY <1>0, <1>5, <1>11 DEF Alike

LEMMA IndirectCallOk ==
  ASSUME NEW entry, NEW n \in Nat, Found(entry.c, n), NEW result \in Results,
         entry.reg \in Regs
  PROVE  Finish(IndirectCall(entry, n).c, n, result).ok = entry.c.ok
<1> DEFINE c == entry.c
           b == SpillBelow(c, Height(c) - n)
           d == TransferArgs(b, n)
           params == {ParamRegs[j] : j \in InRegister(n)}
           target == IF entry.reg \in params THEN FirstOf(Regs \ params) ELSE entry.reg
           e == IF entry.reg \in params THEN SetReg(d, target, b.regs[entry.reg]) ELSE d
<1>0. /\ c \in Context /\ Good(c) /\ Len(c.stack) \in Nat /\ Len(c.stack) <= MaxHeight
      /\ Len(c.stack) - n \in 0 .. Len(c.stack) /\ n \in 0 .. Len(c.stack)
      /\ NumLocals + n <= Len(c.stack)
  BY FoundHeights
<1>1. IndirectCall(entry, n).c = e  BY DEF IndirectCall
<1> HIDE DEF c, params, target
<1>2. Saved(b, Len(c.stack) - n) /\ Len(b.stack) = Len(c.stack)
  BY <1>0, SpillBelowSaved DEF Height
<1>3. b.ok = c.ok  BY <1>0, StoreSlotsOk DEF SpillBelow
<1>4. b.regs[entry.reg] \in Values \cup {Junk}
  <2> HIDE DEF b
  <2> QED  BY <1>2, ContextShape DEF Saved
<1> HIDE DEF b
<1>5. Alike(b, d)
  BY <1>0, <1>2, TransferArgsSame, TransferArgsOk DEF Saved, Alike
<1> HIDE DEF d
<1>6. Alike(b, e)  BY <1>4, <1>5, SetRegAlike
<1> HIDE DEF e
<1>7. Saved(e, Len(c.stack) - n) /\ Len(e.stack) = Len(c.stack)
  BY <1>2, <1>6, SavedSame DEF Alike
<1>8. Finish(e, n, result).ok = c.ok  BY <1>0, <1>3, <1>6, <1>7, FinishOk DEF Alike
<1> QED  BY <1>1, <1>8 DEF c

\* What a handler may do to the asserts: all of them hold, unless it is an
\* indirect call compiled while every register is in use.
AssertStep == ok' \/ (HasTable /\ effect'.kind = "indirect" /\ Regs \subseteq used)

\* One step per handler, again.
LEMMA NextOk ==
  ASSUME IInv, Next
  PROVE  AssertStep
<1> USE DEF IInv
<1>0. Found(Ctx, 0) /\ Ctx.ok = ok /\ Ctx.used = used  BY DEF Ctx
<1>1. ASSUME NEW n \in Nat, Ready(n) PROVE Found(Ctx, n) /\ Ctx.ok
  BY <1>0, <1>1 DEF Found, Ready, Ctx
<1>2. ASSUME NEW c, c.ok = Ctx.ok, Become(c), Ctx.ok PROVE ok'
  BY <1>2 DEF Become
<1> HIDE DEF IInv
<1>4. ASSUME NEW v \in Values, I32Const(v) PROVE ok'
  <2>1. Ctx \in Context  BY <1>0, FoundWhole
  <2>2. PushConst(Ctx, v).ok = Ctx.ok  BY <2>1, PushOk DEF PushConst
  <2>3. Become(PushConst(Ctx, v)) /\ Ctx.ok  BY <1>1, <1>4 DEF I32Const
  <2> QED  BY <1>2, <2>2, <2>3
<1>5. ASSUME NEW v \in Values, MemoryGrow(v) PROVE ok'
  <2>1. Found(Ctx, 1) /\ Ctx.ok /\ Become(GrowCode(Ctx, v))  BY <1>1, <1>5 DEF MemoryGrow
  <2> QED  BY <1>2, <2>1, GrowCodeOk
<1>6. ASSUME NEW v \in Values, LoadValue(v) PROVE ok'
  <2>1. Ctx.ok /\ Become(LoadedValue(Ctx, v))  BY <1>1, <1>6 DEF LoadValue
  <2> QED  BY <1>0, <1>2, <2>1, LoadedValueWhole
<1>7. ASSUME NEW x \in 1 .. NumLocals, GetLocal(x) PROVE ok'
  <2>1. Ctx.ok /\ Become(CopyLocal(Ctx, x))  BY <1>1, <1>7 DEF GetLocal
  <2> QED  BY <1>0, <1>2, <2>1, CopyLocalWhole
<1>8. ASSUME NEW x \in 1 .. NumLocals, SetLocal(x) PROVE ok'
  <2>1. Found(Ctx, 1) /\ Ctx.ok /\ Become(SetLocalImpl(Ctx, x, FALSE))
    BY <1>1, <1>8 DEF SetLocal
  <2>2. SetLocalImpl(Ctx, x, FALSE).ok = Ctx.ok  BY <2>1, SetLocalWhole
  <2> QED  BY <1>2, <2>1, <2>2
<1>9. ASSUME NEW x \in 1 .. NumLocals, TeeLocal(x) PROVE ok'
  <2>1. Found(Ctx, 1) /\ Ctx.ok /\ Become(SetLocalImpl(Ctx, x, TRUE))
    BY <1>1, <1>9 DEF TeeLocal
  <2>2. SetLocalImpl(Ctx, x, TRUE).ok = Ctx.ok  BY <2>1, SetLocalWhole
  <2> QED  BY <1>2, <2>1, <2>2
<1>10. ASSUME Drop PROVE ok'
  <2>1. Found(Ctx, 1) /\ Ctx.ok /\ Become(DropTop(Ctx))  BY <1>1, <1>10 DEF Drop
  <2> QED  BY <1>2, <2>1, DropTopWhole
<1>11. ASSUME UnOp PROVE ok'
  <2>1. Found(Ctx, 1) /\ Ctx.ok /\ Become(UnaryCode(Ctx))  BY <1>1, <1>11 DEF UnOp
  <2> QED  BY <1>2, <2>1, UnaryCodeOk
<1>12. ASSUME Ready(2)
       PROVE  Operands(PopOperands(Ctx)) /\ PopOperands(Ctx).c.ok = Ctx.ok /\ Ctx.ok
  <2>1. Found(Ctx, 2) /\ Ctx.ok  BY <1>1, <1>12
  <2> QED  BY <2>1, PopOperandsFound, PopOperandsOk DEF Operands
<1>13. ASSUME BinOp PROVE ok'
  <2> DEFINE o == PopOperands(Ctx)
  <2>1. Operands(o) /\ o.c.ok = Ctx.ok /\ Ctx.ok /\ Become(BinaryCode(o))
    BY <1>12, <1>13 DEF BinOp
  <2> HIDE DEF o
  <2> QED  BY <1>2, <2>1, BinaryCodeOk
<1>14. ASSUME ShiftOp PROVE ok'
  <2> DEFINE o == PopOperands(Ctx)
  <2>1. Operands(o) /\ o.c.ok = Ctx.ok /\ Ctx.ok /\ Become(ShiftCode(o))
    BY <1>12, <1>14 DEF ShiftOp
  <2> HIDE DEF o
  <2> QED  BY <1>2, <2>1, ShiftCodeOk
<1>15. ASSUME NEW result \in {RAX, RDX}, DivOp(result) PROVE ok'
  <2> DEFINE o == PopOperands(Ctx)
  <2>1. Operands(o) /\ o.c.ok = Ctx.ok /\ Ctx.ok /\ Become(DivisionCode(o, result))
    BY <1>12, <1>15 DEF DivOp
  <2> HIDE DEF o
  <2> QED  BY <1>2, <2>1, DivisionCodeOk
<1>16. ASSUME Select PROVE ok'
  <2>1. Found(Ctx, 3) /\ Ctx.ok /\ Become(SelectCode(Ctx))  BY <1>1, <1>16 DEF Select
  <2> QED  BY <1>2, <2>1, SelectCodeOk
<1>17. ASSUME LoadMem PROVE ok'
  <2>1. Found(Ctx, 1) /\ Ctx.ok /\ Become(LoadCode(Ctx))  BY <1>1, <1>17 DEF LoadMem
  <2> QED  BY <1>2, <2>1, LoadCodeOk
<1>18. ASSUME StoreMem PROVE ok'
  <2>1. Found(Ctx, 2) /\ Ctx.ok /\ Become(StoreOperands(Ctx).c)
    BY <1>1, <1>18 DEF StoreMem
  <2> QED  BY <1>2, <2>1, StoreOperandsOk
<1>19. ASSUME SetGlobal PROVE ok'
  <2>1. Found(Ctx, 1) /\ Ctx.ok /\ Become(PopToRegister(Ctx, {}).c)
    BY <1>1, <1>19 DEF SetGlobal
  <2> QED  BY <1>2, <2>1, Choices, PopEachOk
<1>20. ASSUME EnterLoop PROVE ok'
  <2>1. Ctx.ok /\ Become(SpillLocals(Ctx, NumLocals))  BY <1>1, <1>20 DEF EnterLoop
  <2> QED  BY <1>0, <1>2, <2>1, SpillLocalsWhole
<1>21. ASSUME NEW n \in 0 .. MaxParams, NEW result \in Results, CallDirect(n, result) PROVE ok'
  <2>0. n \in Nat  BY ValueStackAssumption
  <2>1. Found(Ctx, n) /\ Ctx.ok  BY <1>1, <1>21, <2>0 DEF CallDirect
  <2>2. Become(Finish(DirectCall(Ctx, n).c, n, result))  BY <1>21 DEF CallDirect
  <2>3. Finish(DirectCall(Ctx, n).c, n, result).ok = Ctx.ok  BY <2>0, <2>1, DirectCallOk
  <2> QED  BY <1>2, <2>1, <2>2, <2>3
<1>22. ASSUME NEW n \in 0 .. MaxParams, NEW result \in Results, CallIndirect(n, result)
       PROVE  AssertStep
  <2> DEFINE index == TableIndex(Ctx)
             entry == TableEntry(index)
             call == IndirectCall(entry, n)
  <2>0. n \in Nat /\ n + 1 \in Nat  BY ValueStackAssumption
  <2>1. Found(Ctx, n + 1) /\ Ctx.ok /\ HasTable  BY <1>1, <1>22, <2>0 DEF CallIndirect
  <2>2. Become(Finish(call.c, n, result)) /\ effect'.kind = "indirect"
    BY <1>22 DEF CallIndirect, Emit
  <2>3. Found(index.c, n) /\ index.reg \in Regs \ Reserved  BY <2>0, <2>1, TableIndexFound
  <2>4. ASSUME ~(Regs \subseteq used) PROVE ok'
    <3>1. index.c.ok = Ctx.ok  BY <1>0, <2>0, <2>1, <2>4, TableIndexOk
    <3> HIDE DEF index
    <3>2. Found(entry.c, n) /\ entry.reg \in Regs /\ entry.c.ok = Ctx.ok
      BY <2>0, <2>1, <2>3, <3>1, TableEntryFound, TableEntryOk
    <3> HIDE DEF entry
    <3>3. Finish(call.c, n, result).ok = Ctx.ok  BY <2>0, <3>2, IndirectCallOk
    <3> QED  BY <1>2, <2>1, <2>2, <3>3
  <2> QED  BY <2>1, <2>2, <2>4 DEF AssertStep
<1>23. Immediates \subseteq Values  BY ValueStackAssumption
<1> QED
  BY <1>4, <1>5, <1>6, <1>7, <1>8, <1>9, <1>10, <1>11, <1>13, <1>14, <1>15, <1>16,
     <1>17, <1>18, <1>19, <1>20, <1>21, <1>22, <1>23 DEF Next, AssertStep

-----------------------------------------------------------------------------
(* Values: what the code of every handler computes. *)

\* n operands have been taken off c; the slots below hold what they held.
Left(c, e, n) == /\ Good(e) /\ Len(e.stack) = Len(c.stack) - n
                 /\ Intact(c, e, 1 .. Len(c.stack) - n)

LEMMA LeftShape ==
  ASSUME NEW c, NEW e, NEW n, Left(c, e, n)
  PROVE  /\ Good(e) /\ e \in Context /\ DOMAIN e.stack = 1 .. Len(c.stack) - n
         /\ Len(e.stack) = Len(c.stack) - n
BY ContextShape DEF Left, Good

LEMMA LeftSelf ==
  ASSUME NEW c, Good(c)
  PROVE  Left(c, c, 0) /\ Len(c.stack) \in Nat
<1>1. Len(c.stack) \in Nat  BY ContextShape DEF Good
<1> QED  BY <1>1 DEF Left, Intact

\* What leaves every slot of e in place goes on from c to f.
LEMMA LeftOn ==
  ASSUME NEW c, NEW e, NEW n, Left(c, e, n),
         NEW f, Good(f), Len(f.stack) = Len(e.stack), Intact(e, f, DOMAIN e.stack)
  PROVE  Left(c, f, n)
BY LeftShape, IntactTransitive DEF Left

\* An operand is popped into a register that holds its value.
LEMMA PopLeft ==
  ASSUME NEW c, Good(c), NEW e, NEW n \in Nat, Left(c, e, n), Fits(e), Len(e.stack) > 0,
         NEW pinned, Choice(pinned)
  PROVE  /\ Left(c, PopToRegister(e, pinned).c, n + 1)
         /\ Fits(PopToRegister(e, pinned).c)
         /\ PopToRegister(e, pinned).reg \in Regs \ Reserved
         /\ PopToRegister(e, pinned).c.regs[PopToRegister(e, pinned).reg]
              = ValueAt(c, Len(c.stack) - n)
         /\ \A q \in pinned \cap Regs : PopToRegister(e, pinned).c.regs[q] = e.regs[q]
<1> DEFINE p == PopToRegister(e, pinned)
           L == Len(c.stack)
<1>1. L \in Nat /\ Len(e.stack) = L - n /\ L - n > 0  BY LeftShape, LeftSelf
<1>2. Good(p.c) /\ Len(p.c.stack) = Len(e.stack) - 1 /\ p.reg \in Regs \ Reserved
  BY FitsShape, PopToRegisterGood
<1>3. /\ Intact(e, p.c, 1 .. Len(e.stack) - 1)
      /\ p.c.regs[p.reg] = ValueAt(e, Len(e.stack))
      /\ \A q \in pinned \cap Regs : p.c.regs[q] = e.regs[q]
  BY PopToRegisterIntact DEF PoppedInto
<1> HIDE DEF p
<1>4. ValueAt(e, L - n) = ValueAt(c, L - n)
  <2>1. L - n \in 1 .. L - n  BY <1>1
  <2> QED  BY <2>1 DEF Left, Intact
<1>5. Intact(c, e, 1 .. L - (n + 1))
  <2>1. 1 .. L - (n + 1) \in SUBSET (1 .. L - n)  BY <1>1
  <2> QED  BY <2>1, IntactFewer DEF Left
<1>6. Intact(e, p.c, 1 .. L - (n + 1))
  <2>1. Len(e.stack) - 1 = L - (n + 1)  BY <1>1
  <2> QED  BY <1>3, <2>1
<1>7. Left(c, p.c, n + 1)
  <2>1. Len(p.c.stack) = L - (n + 1)  BY <1>1, <1>2
  <2> QED  BY <1>2, <1>5, <1>6, <2>1, IntactTransitive DEF Left
<1>8. Fits(p.c)
  <2>1. Len(p.c.stack) <= MaxHeight  BY <1>1, <1>2, FitsShape
  <2> QED  BY <1>2, <2>1 DEF Fits
<1> QED  BY <1>1, <1>2, <1>3, <1>4, <1>7, <1>8 DEF p

\* A register that nothing lives in is given out.
Given(e, pinned, u) ==
  /\ Fits(u.c) /\ u.reg \in Regs \ Reserved /\ u.reg \notin pinned /\ u.reg \notin u.c.used
  /\ u.c.regs = e.regs /\ u.c.used \subseteq e.used

LEMMA UnusedLeft ==
  ASSUME NEW c, NEW e, NEW n, Left(c, e, n), Fits(e), NEW pinned, Choice(pinned)
  PROVE  Left(c, GetUnused(e, {}, pinned).c, n) /\ Given(e, pinned, GetUnused(e, {}, pinned))
<1> DEFINE u == GetUnused(e, {}, pinned)
<1>1. Good(u.c) /\ KeptSlots(e, u.c) /\ u.reg \in Regs \ (pinned \cup Reserved)
  BY FitsShape, GetUnusedGood
<1>2. Vacant(e, pinned, u)  BY UnusedVacant
<1> HIDE DEF u
<1>3. Fits(u.c)  BY <1>1 DEF Fits, KeptSlots
<1>4. Left(c, u.c, n)  BY <1>1, <1>2, LeftOn DEF Vacant, KeptSlots
<1> QED  BY <1>1, <1>2, <1>3, <1>4 DEF Given, Vacant, u

LEMMA UnusedFirstLeft ==
  ASSUME NEW c, NEW e, NEW n, Left(c, e, n), Fits(e), Choice({}),
         NEW first \in SUBSET (Regs \ Reserved)
  PROVE  Left(c, GetUnused(e, first, {}).c, n) /\ Given(e, {}, GetUnused(e, first, {}))
<1> DEFINE u == GetUnused(e, first, {})
<1>1. Good(u.c) /\ KeptSlots(e, u.c) /\ u.reg \in Regs \ Reserved
  BY FitsShape, GetUnusedFirstGood
<1>2. Vacant(e, {}, u)  BY UnusedFirstVacant
<1> HIDE DEF u
<1>3. Fits(u.c)  BY <1>1 DEF Fits, KeptSlots
<1>4. Left(c, u.c, n)  BY <1>1, <1>2, LeftOn DEF Vacant, KeptSlots
<1> QED  BY <1>1, <1>2, <1>3, <1>4 DEF Given, Vacant, u

\* Instructions that write the registers of W only, none of which holds a slot.
Untouched(e, f, W) ==
  /\ Same(e, f) /\ f.mem = e.mem
  /\ \A q \in Regs \ W : f.regs[q] = e.regs[q]

LEMMA UntouchedLeft ==
  ASSUME NEW c, NEW e, NEW n, Left(c, e, n), NEW f, NEW W \in SUBSET Regs, Untouched(e, f, W),
         W \cap e.used \subseteq Reserved
  PROVE  Left(c, f, n)
<1>1. Good(e) /\ e \in Context  BY LeftShape
<1>2. Good(f) /\ f.stack = e.stack /\ f.mem = e.mem
  BY <1>1, SameCache DEF Untouched, Same
<1>3. Clear(e, W, DOMAIN e.stack)  BY <1>1, UnusedClear
<1>4. Intact(e, f, DOMAIN e.stack)
  <2>1. ASSUME NEW i \in DOMAIN e.stack
        PROVE  /\ e.stack[i].loc = "reg" => f.regs[e.stack[i].reg] = e.regs[e.stack[i].reg]
               /\ e.stack[i].loc \in {"stack", "reg", "const"}
    <3>1. e.stack[i] \in Slot  BY <1>1, ContextShape
    <3>2. e.stack[i].loc = "reg" => e.stack[i].reg \in Regs \ W  BY <1>3, <3>1, SlotShape DEF Clear
    <3> QED  BY <3>1, <3>2, SlotShape DEF Untouched
  <2> QED  BY <1>2, <2>1, IntactWhere
<1> QED  BY <1>2, <1>4, LeftOn

\* The result is pushed.
LEMMA PushReplaced ==
  ASSUME NEW c, Good(c), NEW e, NEW n, Left(c, e, n), NEW r \in Regs
  PROVE  Replaced(c, PushRegister(e, r), n, <<e.regs[r]>>)
<1> DEFINE d == PushRegister(e, r)
           v == e.regs[r]
<1>1. e \in Context /\ Len(e.stack) = Len(c.stack) - n /\ DOMAIN e.stack = 1 .. Len(c.stack) - n
  BY LeftShape
<1>2. /\ Intact(e, d, DOMAIN e.stack) /\ ValueAt(d, Len(e.stack) + 1) = v
      /\ Len(d.stack) = Len(e.stack) + 1
  BY <1>1, PushRegisterIntact
<1> HIDE DEF d, v
<1>3. Intact(c, d, 1 .. Len(c.stack) - n)  BY <1>1, <1>2, IntactTransitive DEF Left
<1>4. Len(<<v>>) = 1 /\ <<v>>[1] = v  OBVIOUS
<1>5. \A j \in 1 .. 1 : ValueAt(d, Len(c.stack) - n + j) = <<v>>[j]  BY <1>1, <1>2
<1> QED  BY <1>1, <1>2, <1>3, <1>4, <1>5 DEF Replaced, d, v

LEMMA ComputedReplaced ==
  ASSUME NEW c, Good(c), NEW e, NEW n, Left(c, e, n), NEW f, NEW W \in SUBSET Regs,
         Untouched(e, f, W), W \cap e.used \subseteq Reserved, NEW r \in Regs
  PROVE  Replaced(c, PushRegister(f, r), n, <<f.regs[r]>>)
BY UntouchedLeft, PushReplaced

\* One write.
LEMMA SetRegUntouched ==
  ASSUME NEW e \in Context, NEW r \in Regs, NEW v \in Values \cup {Junk}
  PROVE  /\ Untouched(e, SetReg(e, r, v), {r})
         /\ SetReg(e, r, v).regs[r] = v
BY SetRegSame, SetRegMem DEF Untouched

LEMMA FoundLeft ==
  ASSUME NEW c, NEW n \in Nat, Found(c, n)
  PROVE  /\ Good(c) /\ Fits(c) /\ Left(c, c, 0) /\ Len(c.stack) \in Nat /\ Len(c.stack) >= n
         /\ NumLocals \in Nat /\ Len(c.stack) >= NumLocals + n
BY FoundHeights, FoundFits, LeftSelf

\* The first operand popped.
LEMMA PopFirst ==
  ASSUME NEW c, Fits(c), Len(c.stack) > 0
  PROVE  /\ Left(c, PopToRegister(c, {}).c, 1) /\ Fits(PopToRegister(c, {}).c)
         /\ PopToRegister(c, {}).reg \in Regs \ Reserved
         /\ PopToRegister(c, {}).c.regs[PopToRegister(c, {}).reg] = ValueAt(c, Len(c.stack))
<1> DEFINE p == PopToRegister(c, {})
           pinned == {}
<1>1. Good(c) /\ Left(c, c, 0) /\ Len(c.stack) \in Nat  BY LeftSelf DEF Fits
<1>2. Choice(pinned) /\ p = PopToRegister(c, pinned)  BY Choices
<1> HIDE DEF p, pinned
<1>3. /\ Left(c, p.c, 0 + 1) /\ Fits(p.c) /\ p.reg \in Regs \ Reserved
      /\ p.c.regs[p.reg] = ValueAt(c, Len(c.stack) - 0)
  BY <1>1, <1>2, PopLeft
<1>4. Len(c.stack) - 0 = Len(c.stack) /\ 0 + 1 = 1  BY <1>1
<1> QED  BY <1>3, <1>4 DEF p

LEMMA UnaryCodeReplaced ==
  ASSUME NEW c, Found(c, 1)
  PROVE  Replaced(c, UnaryCode(c), 1, <<Unary(ValueAt(c, Len(c.stack)))>>)
<1> DEFINE src == PopToRegister(c, {})
           d   == GetUnused(src.c, {src.reg}, {})
           v   == Unary(d.c.regs[src.reg])
<1>0. UnaryCode(c) = PushRegister(SetReg(d.c, d.reg, v), d.reg)  BY DEF UnaryCode
<1>1. /\ Left(c, src.c, 1) /\ Fits(src.c) /\ src.reg \in Regs \ Reserved
      /\ src.c.regs[src.reg] = ValueAt(c, Len(c.stack)) /\ Good(c)
  <2>1. Good(c) /\ Fits(c) /\ Len(c.stack) > 0  BY FoundLeft
  <2> QED  BY <2>1, PopFirst
<1> HIDE DEF src
<1>2. Left(c, d.c, 1) /\ Given(src.c, {}, d)  BY <1>1, Choices, UnusedFirstLeft
<1> HIDE DEF d
<1>3. v = Unary(ValueAt(c, Len(c.stack)))  BY <1>1, <1>2 DEF Given
<1>4. d.c \in Context /\ d.reg \in Regs /\ {d.reg} \cap d.c.used = {}
  BY <1>2, LeftShape DEF Given
<1>5. v \in Values \cup {Junk}  BY UnaryTyped
<1> HIDE DEF v
<1>6. Untouched(d.c, SetReg(d.c, d.reg, v), {d.reg}) /\ SetReg(d.c, d.reg, v).regs[d.reg] = v
  BY <1>4, <1>5, SetRegUntouched
<1> QED  BY <1>0, <1>1, <1>2, <1>3, <1>4, <1>6, ComputedReplaced

LEMMA LoadCodeReplaced ==
  ASSUME NEW c, Found(c, 1)
  PROVE  Replaced(c, LoadCode(c), 1, <<Unary(ValueAt(c, Len(c.stack)))>>)
<1> DEFINE index == PopToRegister(c, {})
           d     == GetUnused(index.c, {}, {index.reg})
           v     == Unary(d.c.regs[index.reg])
<1>0. LoadCode(c) = PushRegister(SetReg(d.c, d.reg, v), d.reg)  BY DEF LoadCode
<1>1. /\ Left(c, index.c, 1) /\ Fits(index.c) /\ index.reg \in Regs \ Reserved
      /\ index.c.regs[index.reg] = ValueAt(c, Len(c.stack)) /\ Good(c)
  <2>1. Good(c) /\ Fits(c) /\ Len(c.stack) > 0  BY FoundLeft
  <2> QED  BY <2>1, PopFirst
<1> HIDE DEF index
<1>2. Left(c, d.c, 1) /\ Given(index.c, {index.reg}, d)  BY <1>1, Choices, UnusedLeft
<1> HIDE DEF d
<1>3. v = Unary(ValueAt(c, Len(c.stack)))  BY <1>1, <1>2 DEF Given
<1>4. d.c \in Context /\ d.reg \in Regs /\ {d.reg} \cap d.c.used = {}
  BY <1>2, LeftShape DEF Given
<1>5. v \in Values \cup {Junk}  BY UnaryTyped
<1> HIDE DEF v
<1>6. Untouched(d.c, SetReg(d.c, d.reg, v), {d.reg}) /\ SetReg(d.c, d.reg, v).regs[d.reg] = v
  BY <1>4, <1>5, SetRegUntouched
<1> QED  BY <1>0, <1>1, <1>2, <1>3, <1>4, <1>6, ComputedReplaced

\* The two operands on top of c are in registers, and neither is the one that
\* is to hold the result.
InHand(c, o) ==
  /\ Left(c, o.c, 2) /\ Fits(o.c)
  /\ o.dst \in Regs \ Reserved /\ o.lhs \in Regs \ Reserved /\ o.rhs \in Regs \ Reserved
  /\ o.dst \notin {o.lhs, o.rhs} /\ o.dst \notin o.c.used
  /\ o.c.regs[o.rhs] = ValueAt(c, Len(c.stack))
  /\ o.c.regs[o.lhs] = ValueAt(c, Len(c.stack) - 1)

\* The second operand popped leaves the first one in its register.
LEMMA PopTwo ==
  ASSUME NEW c, Found(c, 2)
  PROVE  LET rhs == PopToRegister(c, {})
             lhs == PopToRegister(rhs.c, {rhs.reg})
         IN  /\ Left(c, lhs.c, 2) /\ Fits(lhs.c)
             /\ rhs.reg \in Regs \ Reserved /\ lhs.reg \in Regs \ Reserved
             /\ lhs.c.regs[rhs.reg] = ValueAt(c, Len(c.stack))
             /\ lhs.c.regs[lhs.reg] = ValueAt(c, Len(c.stack) - 1)
<1> DEFINE rhs == PopToRegister(c, {})
           lhs == PopToRegister(rhs.c, {rhs.reg})
           L   == Len(c.stack)
<1>1. Good(c) /\ Fits(c) /\ Left(c, c, 0) /\ L \in Nat /\ L >= 2  BY FoundLeft
<1>2. /\ Left(c, rhs.c, 1) /\ Fits(rhs.c) /\ rhs.reg \in Regs \ Reserved
      /\ rhs.c.regs[rhs.reg] = ValueAt(c, L)
  <2>1. L > 0  BY <1>1
  <2> QED  BY <1>1, <2>1, PopFirst
<1> HIDE DEF rhs
<1>3. Len(rhs.c.stack) > 0  BY <1>1, <1>2, LeftShape
<1>4. /\ Left(c, lhs.c, 1 + 1) /\ Fits(lhs.c) /\ lhs.reg \in Regs \ Reserved
      /\ lhs.c.regs[lhs.reg] = ValueAt(c, L - 1)
      /\ \A q \in {rhs.reg} \cap Regs : lhs.c.regs[q] = rhs.c.regs[q]
  <2> DEFINE pinned == {rhs.reg}
  <2>1. Choice(pinned) /\ lhs = PopToRegister(rhs.c, pinned)  BY Choices
  <2> HIDE DEF pinned, lhs
  <2>2. 1 \in Nat  OBVIOUS
  <2>3. /\ Left(c, lhs.c, 1 + 1) /\ Fits(lhs.c) /\ lhs.reg \in Regs \ Reserved
        /\ lhs.c.regs[lhs.reg] = ValueAt(c, Len(c.stack) - 1)
        /\ \A q \in pinned \cap Regs : lhs.c.regs[q] = rhs.c.regs[q]
    BY <1>1, <1>2, <1>3, <2>1, <2>2, PopLeft
  <2> QED  BY <2>3 DEF pinned, L
<1>5. 1 + 1 = 2  OBVIOUS
<1> QED  BY <1>2, <1>4, <1>5 DEF rhs

LEMMA PopOperandsInHand ==
  ASSUME NEW c, Found(c, 2)
  PROVE  InHand(c, PopOperands(c))
<1> DEFINE rhs == PopToRegister(c, {})
           lhs == PopToRegister(rhs.c, {rhs.reg})
           d   == GetUnused(lhs.c, {}, {rhs.reg, lhs.reg})
           o   == PopOperands(c)
<1>1. /\ Left(c, lhs.c, 2) /\ Fits(lhs.c)
      /\ rhs.reg \in Regs \ Reserved /\ lhs.reg \in Regs \ Reserved
      /\ lhs.c.regs[rhs.reg] = ValueAt(c, Len(c.stack))
      /\ lhs.c.regs[lhs.reg] = ValueAt(c, Len(c.stack) - 1)
  BY PopTwo
<1>2. o.c = d.c /\ o.dst = d.reg /\ o.lhs = lhs.reg /\ o.rhs = rhs.reg  BY DEF PopOperands
<1> HIDE DEF lhs, rhs, o
<1>3. Left(c, d.c, 2) /\ Given(lhs.c, {rhs.reg, lhs.reg}, d)  BY <1>1, Choices, UnusedLeft
<1> HIDE DEF d
<1> QED  BY <1>1, <1>2, <1>3 DEF InHand, Given, o

LEMMA StoreOperandsLeft ==
  ASSUME NEW c, Found(c, 2)
  PROVE  /\ Left(c, StoreOperands(c).c, 2)
         /\ StoreOperands(c).args = <<ValueAt(c, Len(c.stack) - 1), ValueAt(c, Len(c.stack))>>
<1> DEFINE value == PopToRegister(c, {})
           index == PopToRegister(value.c, {value.reg})
<1>1. /\ StoreOperands(c).c = index.c
      /\ StoreOperands(c).args = <<index.c.regs[index.reg], index.c.regs[value.reg]>>
  BY DEF StoreOperands
<1>2. /\ Left(c, index.c, 2)
      /\ index.c.regs[value.reg] = ValueAt(c, Len(c.stack))
      /\ index.c.regs[index.reg] = ValueAt(c, Len(c.stack) - 1)
  BY PopTwo
<1> QED  BY <1>1, <1>2

LEMMA SetRegRegs ==
  ASSUME NEW c \in Context, NEW r \in Regs, NEW v \in Values \cup {Junk}
  PROVE  /\ Same(c, SetReg(c, r, v)) /\ SetReg(c, r, v) \in Context
         /\ SetReg(c, r, v).mem = c.mem
         /\ \A q \in Regs : SetReg(c, r, v).regs[q] = IF q = r THEN v ELSE c.regs[q]
BY SetRegSame, SetRegMem DEF Same

LEMMA MoveRegs ==
  ASSUME NEW c \in Context, NEW dst \in Regs, NEW src \in Regs
  PROVE  /\ Same(c, Move(c, dst, src)) /\ Move(c, dst, src) \in Context
         /\ Move(c, dst, src).mem = c.mem
         /\ \A q \in Regs : Move(c, dst, src).regs[q] = IF q = dst THEN c.regs[src] ELSE c.regs[q]
<1> DEFINE v == c.regs[src]
           d == SetReg(c, dst, v)
<1>1. v \in Values \cup {Junk}  BY ContextShape
<1>2. Move(c, dst, src) = Assert(d, dst # src)  BY DEF Move
<1> HIDE DEF v
<1>3. /\ d \in Context /\ d.mem = c.mem
      /\ \A q \in Regs : d.regs[q] = IF q = dst THEN v ELSE c.regs[q]
  BY <1>1, SetRegRegs
<1> HIDE DEF d
<1>4. Assert(d, dst # src).mem = d.mem /\ Assert(d, dst # src).regs = d.regs
  BY <1>3, AssertMem
<1>5. Same(c, Move(c, dst, src)) /\ Move(c, dst, src) \in Context  BY MoveSame DEF Same
<1> QED  BY <1>2, <1>3, <1>4, <1>5 DEF v

LEMMA MaybeMoveRegs ==
  ASSUME NEW c \in Context, NEW P \in BOOLEAN, NEW dst \in Regs, NEW src \in Regs
  PROVE  LET d == IF P THEN Move(c, dst, src) ELSE c
         IN  /\ Same(c, d) /\ d \in Context /\ d.mem = c.mem
             /\ \A q \in Regs : d.regs[q] = IF P /\ q = dst THEN c.regs[src] ELSE c.regs[q]
<1>1. CASE P  BY <1>1, MoveRegs
<1>2. CASE ~P  BY <1>2 DEF Same
<1> QED  BY <1>1, <1>2

LEMMA BinaryCodeReplaced ==
  ASSUME NEW c, Good(c), NEW o, InHand(c, o)
  PROVE  Replaced(c, BinaryCode(o), 2,
                  <<Binary(ValueAt(c, Len(c.stack) - 1), ValueAt(c, Len(c.stack)))>>)
<1> DEFINE m == Move(o.c, o.dst, o.lhs)
           v == Binary(m.regs[o.dst], m.regs[o.rhs])
           f == SetReg(m, o.dst, v)
<1>0. /\ o.c \in Context /\ o.dst \in Regs /\ o.lhs \in Regs /\ o.rhs \in Regs
      /\ o.dst # o.lhs /\ o.dst # o.rhs /\ {o.dst} \cap o.c.used = {}
  BY LeftShape DEF InHand
<1>1. BinaryCode(o) = PushRegister(f, o.dst)  BY <1>0 DEF BinaryCode, EmitTwoAddress
<1>2. /\ Same(o.c, m) /\ m \in Context /\ m.mem = o.c.mem
      /\ \A q \in Regs : m.regs[q] = IF q = o.dst THEN o.c.regs[o.lhs] ELSE o.c.regs[q]
  <2> DEFINE e == o.c
             dst == o.dst
             lhs == o.lhs
  <2>1. e \in Context /\ dst \in Regs /\ lhs \in Regs  BY <1>0
  <2> HIDE DEF e, dst, lhs
  <2>2. LET d == Move(e, dst, lhs)
        IN  /\ Same(e, d) /\ d \in Context /\ d.mem = e.mem
            /\ \A q \in Regs : d.regs[q] = IF q = dst THEN e.regs[lhs] ELSE e.regs[q]
    BY <2>1, MoveRegs
  <2> QED  BY <2>2 DEF e, dst, lhs
<1>3. v \in Values \cup {Junk}  BY BinaryTyped
<1>4. v = Binary(ValueAt(c, Len(c.stack) - 1), ValueAt(c, Len(c.stack)))
  <2>1. m.regs[o.dst] = ValueAt(c, Len(c.stack) - 1) /\ m.regs[o.rhs] = ValueAt(c, Len(c.stack))
    BY <1>0, <1>2 DEF InHand
  <2> QED  BY <2>1
<1> HIDE DEF m, v
<1>5. /\ Same(m, f) /\ f.mem = m.mem
      /\ \A q \in Regs : f.regs[q] = IF q = o.dst THEN v ELSE m.regs[q]
  BY <1>0, <1>2, <1>3, SetRegRegs
<1> HIDE DEF f
<1>6. Untouched(o.c, f, {o.dst}) /\ f.regs[o.dst] = v
  BY <1>0, <1>2, <1>5, SameTransitive DEF Untouched
<1>7. Left(c, o.c, 2)  BY DEF InHand
<1> QED  BY <1>0, <1>1, <1>4, <1>6, <1>7, ComputedReplaced

\* The amount goes through rcx, which is given back if a slot lives there.
LEMMA ShiftComputes ==
  ASSUME NEW c \in Context, NEW dst \in Regs \ Reserved, NEW src \in Regs \ Reserved,
         NEW amount \in Regs \ Reserved, dst \notin {src, amount}
  PROVE  LET f == EmitShift(c, dst, src, amount)
         IN  /\ Untouched(c, f, {dst, ScratchGP} \cup ({RCX} \ c.used))
             /\ f.regs[dst] = Binary(c.regs[src], c.regs[amount])
<1> DEFINE v == Binary(c.regs[src], c.regs[amount])
           W == {dst, ScratchGP} \cup ({RCX} \ c.used)
           T == ScratchGP
<1>0. /\ RCX \in Regs /\ T \in Regs /\ RCX # T /\ src \in Regs /\ amount \in Regs /\ dst \in Regs
      /\ src # T /\ amount # T /\ dst # T /\ dst # src /\ dst # amount /\ v \in Values \cup {Junk}
  BY FixedRegs, ValueStackAssumption, BinaryTyped
<1> SUFFICES /\ Untouched(c, EmitShift(c, dst, src, amount), W)
             /\ EmitShift(c, dst, src, amount).regs[dst] = v
  OBVIOUS
<1> HIDE DEF T
<1>1. CASE dst = RCX
  <2> DEFINE a == Move(c, T, src)
             b == Move(a, RCX, amount)
             w == Binary(b.regs[T], b.regs[RCX])
             s == SetReg(b, T, w)
             f == Move(s, RCX, T)
  <2>0. EmitShift(c, dst, src, amount) = f
    BY <1>0, <1>1 DEF EmitShift, T
  <2>1. /\ Same(c, a) /\ a \in Context /\ a.mem = c.mem
        /\ \A q \in Regs : a.regs[q] = IF q = T THEN c.regs[src] ELSE c.regs[q]
    BY <1>0, MoveRegs
  <2> HIDE DEF a
  <2>2. /\ Same(a, b) /\ b \in Context /\ b.mem = a.mem
        /\ \A q \in Regs : b.regs[q] = IF q = RCX THEN a.regs[amount] ELSE a.regs[q]
    BY <1>0, <2>1, MoveRegs
  <2> HIDE DEF b
  <2>3. w = v
    <3>1. b.regs[T] = c.regs[src]  BY <1>0, <2>1, <2>2
    <3>2. b.regs[RCX] = c.regs[amount]  BY <1>0, <1>1, <2>1, <2>2
    <3> QED  BY <3>1, <3>2
  <2> HIDE DEF w, v
  <2>4. /\ Same(b, s) /\ s \in Context /\ s.mem = b.mem
        /\ \A q \in Regs : s.regs[q] = IF q = T THEN v ELSE b.regs[q]
    BY <1>0, <2>2, <2>3, SetRegRegs
  <2> HIDE DEF s
  <2>5. /\ Same(s, f) /\ f.mem = s.mem
        /\ \A q \in Regs : f.regs[q] = IF q = RCX THEN s.regs[T] ELSE s.regs[q]
    BY <1>0, <2>4, MoveRegs
  <2> HIDE DEF f
  <2>6. Same(c, f) /\ f.mem = c.mem
    <3>1. Same(c, b)  BY <2>1, <2>2, SameTransitive
    <3>2. Same(c, s)  BY <2>4, <3>1, SameTransitive
    <3> QED  BY <2>1, <2>2, <2>4, <2>5, <3>2, SameTransitive
  <2>7. f.regs[dst] = v  BY <1>0, <1>1, <2>4, <2>5
  <2>8. \A q \in Regs \ W : f.regs[q] = c.regs[q]  BY <1>0, <1>1, <2>1, <2>2, <2>4, <2>5 DEF T
  <2> QED  BY <2>0, <2>6, <2>7, <2>8 DEF Untouched
<1>2. CASE dst # RCX
  <2> DEFINE save == amount # RCX /\ (src = RCX \/ RCX \in c.used)
             far  == amount # RCX
             a    == IF save THEN Move(c, T, RCX) ELSE c
             from == IF amount # RCX /\ src = RCX THEN T ELSE src
             b    == IF far THEN Move(a, RCX, amount) ELSE a
             d    == IF dst # from THEN Move(b, dst, from) ELSE b
             w    == Binary(d.regs[dst], d.regs[RCX])
             s    == SetReg(d, dst, w)
             f    == IF save THEN Move(s, RCX, T) ELSE s
  <2>0. EmitShift(c, dst, src, amount) = f  BY <1>2 DEF EmitShift, T
  <2>1. from \in Regs /\ save \in BOOLEAN /\ far \in BOOLEAN /\ dst # from  BY <1>0
  <2>2. /\ Same(c, a) /\ a \in Context /\ a.mem = c.mem
        /\ \A q \in Regs : a.regs[q] = IF save /\ q = T THEN c.regs[RCX] ELSE c.regs[q]
    <3> HIDE DEF save
    <3> QED  BY <1>0, <2>1, MaybeMoveRegs
  <2> HIDE DEF a
  <2>3. /\ Same(a, b) /\ b \in Context /\ b.mem = a.mem
        /\ \A q \in Regs : b.regs[q] = IF far /\ q = RCX THEN a.regs[amount] ELSE a.regs[q]
    <3> HIDE DEF far
    <3> QED  BY <1>0, <2>1, <2>2, MaybeMoveRegs
  <2> HIDE DEF b
  <2>4. /\ Same(b, d) /\ d \in Context /\ d.mem = b.mem
        /\ \A q \in Regs : d.regs[q] = IF q = dst THEN b.regs[from] ELSE b.regs[q]
    <3> HIDE DEF from
    <3>1. d = Move(b, dst, from)  BY <2>1
    <3> QED  BY <1>0, <2>1, <2>3, <3>1, MoveRegs
  <2> HIDE DEF d
  <2>5. w = v
    <3>1. d.regs[dst] = c.regs[src]
      <4>1. d.regs[dst] = b.regs[from]  BY <1>0, <2>4
      <4>2. CASE amount # RCX /\ src = RCX
        <5>1. from = T /\ save  BY <4>2
        <5>2. b.regs[T] = a.regs[T]  BY <1>0, <2>3
        <5>3. a.regs[T] = c.regs[RCX]  BY <1>0, <2>2, <5>1
        <5> QED  BY <4>1, <4>2, <5>1, <5>2, <5>3
      <4>3. CASE ~(amount # RCX /\ src = RCX)
        <5>1. from = src  BY <4>3
        <5>2. b.regs[src] = a.regs[src]  BY <1>0, <2>3, <4>3
        <5>3. a.regs[src] = c.regs[src]  BY <1>0, <2>2
        <5> QED  BY <4>1, <5>1, <5>2, <5>3
      <4> QED  BY <4>2, <4>3
    <3>2. d.regs[RCX] = c.regs[amount]
      <4>1. d.regs[RCX] = b.regs[RCX]  BY <1>0, <1>2, <2>4
      <4>2. b.regs[RCX] = a.regs[amount]  BY <1>0, <2>3
      <4>3. a.regs[amount] = c.regs[amount]  BY <1>0, <2>2
      <4> QED  BY <4>1, <4>2, <4>3
    <3> QED  BY <3>1, <3>2
  <2> HIDE DEF w, v
  <2>6. /\ Same(d, s) /\ s \in Context /\ s.mem = d.mem
        /\ \A q \in Regs : s.regs[q] = IF q = dst THEN v ELSE d.regs[q]
    BY <1>0, <2>4, <2>5, SetRegRegs
  <2> HIDE DEF s
  <2>7. /\ Same(s, f) /\ f.mem = s.mem
        /\ \A q \in Regs : f.regs[q] = IF save /\ q = RCX THEN s.regs[T] ELSE s.regs[q]
    <3> HIDE DEF save
    <3> QED  BY <1>0, <2>1, <2>6, MaybeMoveRegs
  <2> HIDE DEF f
  <2>8. Same(c, f) /\ f.mem = c.mem
    <3>1. Same(c, b)  BY <2>2, <2>3, SameTransitive
    <3>2. Same(c, d)  BY <2>4, <3>1, SameTransitive
    <3>3. Same(c, s)  BY <2>6, <3>2, SameTransitive
    <3> QED  BY <2>2, <2>3, <2>4, <2>6, <2>7, <3>3, SameTransitive
  <2>9. f.regs[dst] = v  BY <1>0, <1>2, <2>6, <2>7
  <2>10. ASSUME NEW q \in Regs \ W PROVE f.regs[q] = c.regs[q]
    <3>1. q \in Regs /\ q # dst /\ q # T /\ (q = RCX => RCX \in c.used)  BY DEF T
    <3>2. CASE q # RCX
      BY <2>2, <2>3, <2>4, <2>6, <2>7, <3>1, <3>2
    <3>3. CASE q = RCX
      <4>1. CASE save
        <5>1. f.regs[q] = s.regs[T]  BY <2>7, <3>1, <3>3, <4>1
        <5>2. s.regs[T] = d.regs[T]  BY <1>0, <2>6
        <5>3. d.regs[T] = b.regs[T]  BY <1>0, <2>4
        <5>4. b.regs[T] = a.regs[T]  BY <1>0, <2>3
        <5>5. a.regs[T] = c.regs[RCX]  BY <1>0, <2>2, <4>1
        <5> QED  BY <3>3, <5>1, <5>2, <5>3, <5>4, <5>5
      <4>2. CASE ~save
        <5>1. ~far  BY <3>1, <3>3, <4>2
        <5> HIDE DEF save, far
        <5> QED  BY <2>2, <2>3, <2>4, <2>6, <2>7, <3>1, <4>2, <5>1
      <4> QED  BY <4>1, <4>2
    <3> QED  BY <3>2, <3>3
  <2> QED  BY <2>0, <2>8, <2>9, <2>10 DEF Untouched
<1> QED  BY <1>1, <1>2

LEMMA ShiftCodeReplaced ==
  ASSUME NEW c, Good(c), NEW o, InHand(c, o)
  PROVE  Replaced(c, ShiftCode(o), 2,
                  <<Binary(ValueAt(c, Len(c.stack) - 1), ValueAt(c, Len(c.stack)))>>)
<1> DEFINE f == EmitShift(o.c, o.dst, o.lhs, o.rhs)
           W == {o.dst, ScratchGP} \cup ({RCX} \ o.c.used)
<1>0. /\ o.c \in Context /\ o.dst \in Regs \ Reserved /\ o.lhs \in Regs \ Reserved
      /\ o.rhs \in Regs \ Reserved /\ o.dst \notin {o.lhs, o.rhs} /\ o.dst \in Regs
  BY LeftShape DEF InHand
<1>1. ShiftCode(o) = PushRegister(f, o.dst)  BY DEF ShiftCode
<1>2. Untouched(o.c, f, W) /\ f.regs[o.dst] = Binary(o.c.regs[o.lhs], o.c.regs[o.rhs])
  <2> DEFINE e   == o.c
             dst == o.dst
             lhs == o.lhs
             rhs == o.rhs
  <2>1. /\ e \in Context /\ dst \in Regs \ Reserved /\ lhs \in Regs \ Reserved
        /\ rhs \in Regs \ Reserved /\ dst \notin {lhs, rhs}
    BY <1>0
  <2> HIDE DEF e, dst, lhs, rhs
  <2>2. LET g == EmitShift(e, dst, lhs, rhs)
        IN  /\ Untouched(e, g, {dst, ScratchGP} \cup ({RCX} \ e.used))
            /\ g.regs[dst] = Binary(e.regs[lhs], e.regs[rhs])
    BY <2>1, ShiftComputes
  <2> QED  BY <2>2 DEF e, dst, lhs, rhs
<1> HIDE DEF f
<1>3. W \in SUBSET Regs /\ W \cap o.c.used \subseteq Reserved
  BY <1>0, FixedRegs, ValueStackAssumption DEF InHand
<1> HIDE DEF W
<1>4. f.regs[o.dst] = Binary(ValueAt(c, Len(c.stack) - 1), ValueAt(c, Len(c.stack)))
  BY <1>2 DEF InHand
<1>5. Left(c, o.c, 2)  BY DEF InHand
<1>6. Replaced(c, PushRegister(f, o.dst), 2, <<f.regs[o.dst]>>)
  BY <1>0, <1>2, <1>3, <1>5, ComputedReplaced
<1> QED  BY <1>1, <1>4, <1>6

\* A divisor in rax or rdx is read from the scratch register.
LEMMA DivisionComputes ==
  ASSUME NEW c \in Context, NEW dst \in Regs \ Reserved, NEW lhs \in Regs \ Reserved,
         NEW rhs \in Regs \ Reserved, NEW result \in {RAX, RDX}
  PROVE  LET f == EmitDivision(c, dst, lhs, rhs, result)
         IN  /\ Untouched(c, f, {dst, ScratchGP, RAX, RDX})
             /\ f.regs[dst] = Binary(c.regs[lhs], c.regs[rhs])
<1> DEFINE v  == Binary(c.regs[lhs], c.regs[rhs])
           W  == {dst, ScratchGP, RAX, RDX}
           T  == ScratchGP
           twice == rhs \in {RAX, RDX}
           a  == IF twice THEN Move(c, T, rhs) ELSE c
           by == IF twice THEN T ELSE rhs
           far == lhs # RAX
           b  == IF far THEN Move(a, RAX, lhs) ELSE a
           z  == SetReg(b, RDX, Junk)
           q  == Binary(b.regs[RAX], z.regs[by])
           x  == IF result = RAX THEN q ELSE Junk
           y  == IF result = RDX THEN q ELSE Junk
           g  == SetReg(b, RAX, x)
           d  == SetReg(g, RDX, y)
           last_ == dst # result
           f  == IF last_ THEN Move(d, dst, result) ELSE d
<1>0. /\ RAX \in Regs /\ RDX \in Regs /\ T \in Regs /\ T # RAX /\ T # RDX
      /\ lhs \in Regs /\ rhs \in Regs /\ dst \in Regs /\ result \in Regs
      /\ lhs # T /\ rhs # T /\ dst # T /\ v \in Values \cup {Junk} /\ Junk \in Values \cup {Junk}
      /\ twice \in BOOLEAN /\ far \in BOOLEAN /\ last_ \in BOOLEAN
      /\ q \in Values \cup {Junk}
  BY FixedRegs, ValueStackAssumption, BinaryTyped
<1>1. EmitDivision(c, dst, lhs, rhs, result) = f  BY DEF EmitDivision
<1> SUFFICES Untouched(c, f, W) /\ f.regs[dst] = v  BY <1>1
<1> HIDE DEF T
<1>2. /\ Same(c, a) /\ a \in Context /\ a.mem = c.mem
      /\ \A r \in Regs : a.regs[r] = IF twice /\ r = T THEN c.regs[rhs] ELSE c.regs[r]
  <2> HIDE DEF twice
  <2> QED  BY <1>0, MaybeMoveRegs
<1> HIDE DEF a
<1>3. /\ Same(a, b) /\ b \in Context /\ b.mem = a.mem
      /\ \A r \in Regs : b.regs[r] = IF far /\ r = RAX THEN a.regs[lhs] ELSE a.regs[r]
  <2> HIDE DEF far
  <2> QED  BY <1>0, <1>2, MaybeMoveRegs
<1> HIDE DEF b
<1>4. \A r \in Regs : z.regs[r] = IF r = RDX THEN Junk ELSE b.regs[r]
  BY <1>0, <1>3, SetRegRegs
<1> HIDE DEF z
<1>5. q = v
  <2>1. b.regs[RAX] = c.regs[lhs]
    <3>1. a.regs[lhs] = c.regs[lhs]  BY <1>0, <1>2
    <3>2. b.regs[RAX] = a.regs[lhs]  BY <1>0, <1>3
    <3> QED  BY <3>1, <3>2
  <2>2. z.regs[by] = c.regs[rhs]
    <3>1. CASE twice
      <4>1. by = T  BY <3>1
      <4>2. z.regs[T] = b.regs[T]  BY <1>0, <1>4
      <4>3. b.regs[T] = a.regs[T]  BY <1>0, <1>3
      <4>4. a.regs[T] = c.regs[rhs]  BY <1>0, <1>2, <3>1
      <4> QED  BY <4>1, <4>2, <4>3, <4>4
    <3>2. CASE ~twice
      <4>1. by = rhs /\ rhs # RAX /\ rhs # RDX  BY <3>2
      <4>2. z.regs[rhs] = b.regs[rhs]  BY <1>0, <1>4, <4>1
      <4>3. b.regs[rhs] = a.regs[rhs]  BY <1>0, <1>3, <4>1
      <4>4. a.regs[rhs] = c.regs[rhs]  BY <1>0, <1>2
      <4> QED  BY <4>1, <4>2, <4>3, <4>4
    <3> QED  BY <3>1, <3>2
  <2> QED  BY <2>1, <2>2
<1>6. x \in Values \cup {Junk} /\ y \in Values \cup {Junk}  BY <1>0
<1>7. (result = RAX => x = v) /\ (result = RDX => y = v)  BY <1>5
<1> HIDE DEF q, x, y, v
<1>8. /\ Same(b, g) /\ g \in Context /\ g.mem = b.mem
      /\ \A r \in Regs : g.regs[r] = IF r = RAX THEN x ELSE b.regs[r]
  <2>1. b \in Context /\ RAX \in Regs /\ x \in Values \cup {Junk}  BY <1>0, <1>3, <1>6
  <2> QED  BY <2>1, SetRegRegs
<1> HIDE DEF g
<1>9. /\ Same(g, d) /\ d \in Context /\ d.mem = g.mem
      /\ \A r \in Regs : d.regs[r] = IF r = RDX THEN y ELSE g.regs[r]
  BY <1>0, <1>6, <1>8, SetRegRegs
<1> HIDE DEF d
<1>10. /\ Same(d, f) /\ f.mem = d.mem
       /\ \A r \in Regs : f.regs[r] = IF last_ /\ r = dst THEN d.regs[result] ELSE d.regs[r]
  <2> HIDE DEF last_
  <2> QED  BY <1>0, <1>9, MaybeMoveRegs
<1> HIDE DEF f
<1>11. Same(c, f) /\ f.mem = c.mem
  <2>1. Same(c, b)  BY <1>2, <1>3, SameTransitive
  <2>2. Same(c, g)  BY <1>8, <2>1, SameTransitive
  <2>3. Same(c, d)  BY <1>9, <2>2, SameTransitive
  <2> QED  BY <1>2, <1>3, <1>8, <1>9, <1>10, <2>3, SameTransitive
<1>12. f.regs[dst] = v
  <2>1. d.regs[result] = v
    <3>1. CASE result = RDX  BY <1>0, <1>7, <1>9, <3>1
    <3>2. CASE result = RAX /\ RAX # RDX
      <4>1. d.regs[RAX] = g.regs[RAX]  BY <1>0, <1>9, <3>2
      <4>2. g.regs[RAX] = x  BY <1>0, <1>8
      <4> QED  BY <1>7, <3>2, <4>1, <4>2
    <3> QED  BY <3>1, <3>2
  <2>2. f.regs[dst] = IF last_ THEN d.regs[result] ELSE d.regs[dst]  BY <1>0, <1>10
  <2> QED  BY <2>1, <2>2
<1>13. ASSUME NEW r \in Regs \ W PROVE f.regs[r] = c.regs[r]
  <2>1. r \in Regs /\ r # dst /\ r # T /\ r # RAX /\ r # RDX  BY DEF T
  <2> QED  BY <1>2, <1>3, <1>8, <1>9, <1>10, <2>1
<1> QED  BY <1>11, <1>12, <1>13 DEF Untouched

LEMMA DivisionCodeReplaced ==
  ASSUME NEW c, Good(c), NEW o, InHand(c, o), NEW result \in {RAX, RDX}
  PROVE  Replaced(c, DivisionCode(o, result), 2,
                  <<Binary(ValueAt(c, Len(c.stack) - 1), ValueAt(c, Len(c.stack)))>>)
<1> DEFINE a == SpillRegister(o.c, RAX)
           b == SpillRegister(a, RDX)
           f == EmitDivision(b, o.dst, o.lhs, o.rhs, result)
           W == {o.dst, ScratchGP, RAX, RDX}
<1>0. /\ Left(c, o.c, 2) /\ Good(o.c) /\ Fits(o.c) /\ o.dst \in Regs \ Reserved
      /\ o.lhs \in Regs \ Reserved /\ o.rhs \in Regs \ Reserved /\ o.dst \in Regs
      /\ o.dst \notin o.c.used
  BY LeftShape DEF InHand
<1>1. DivisionCode(o, result) = PushRegister(f, o.dst)  BY DEF DivisionCode
<1>2. /\ Left(c, a, 2) /\ Fits(a) /\ a.regs = o.c.regs /\ a.used = o.c.used \ {RAX}
  <2>1. Good(a) /\ KeptSlots(o.c, a)  BY <1>0, FixedRegs, FitsShape, SpillRegisterGood
  <2>2. /\ Intact(o.c, a, DOMAIN o.c.stack) /\ a.regs = o.c.regs /\ a.used = o.c.used \ {RAX}
    BY <1>0, FixedRegs, SpillIntact
  <2> HIDE DEF a
  <2> QED  BY <1>0, <2>1, <2>2, LeftOn DEF KeptSlots, Fits
<1> HIDE DEF a
<1>3. /\ Left(c, b, 2) /\ b.regs = o.c.regs /\ b.used = o.c.used \ {RAX, RDX}
  <2>1. Good(b) /\ KeptSlots(a, b)  BY <1>2, FixedRegs, FitsShape, SpillRegisterGood
  <2>2. /\ Intact(a, b, DOMAIN a.stack) /\ b.regs = a.regs /\ b.used = a.used \ {RDX}
    BY <1>2, FixedRegs, SpillIntact
  <2> HIDE DEF b
  <2> QED  BY <1>2, <2>1, <2>2, LeftOn DEF KeptSlots
<1>4. b \in Context  BY <1>3, LeftShape
<1> HIDE DEF b
<1>5. Untouched(b, f, W) /\ f.regs[o.dst] = Binary(b.regs[o.lhs], b.regs[o.rhs])
  <2> DEFINE dst == o.dst
             lhs == o.lhs
             rhs == o.rhs
  <2>1. dst \in Regs \ Reserved /\ lhs \in Regs \ Reserved /\ rhs \in Regs \ Reserved
    BY <1>0
  <2> HIDE DEF dst, lhs, rhs
  <2>2. LET g == EmitDivision(b, dst, lhs, rhs, result)
        IN  /\ Untouched(b, g, {dst, ScratchGP, RAX, RDX})
            /\ g.regs[dst] = Binary(b.regs[lhs], b.regs[rhs])
    BY <1>4, <2>1, DivisionComputes
  <2> QED  BY <2>2 DEF dst, lhs, rhs
<1> HIDE DEF f
<1>6. W \in SUBSET Regs /\ W \cap b.used \subseteq Reserved
  BY <1>0, <1>3, FixedRegs, ValueStackAssumption
<1> HIDE DEF W
<1>7. f.regs[o.dst] = Binary(ValueAt(c, Len(c.stack) - 1), ValueAt(c, Len(c.stack)))
  BY <1>3, <1>5 DEF InHand
<1>8. Replaced(c, PushRegister(f, o.dst), 2, <<f.regs[o.dst]>>)
  BY <1>0, <1>3, <1>5, <1>6, ComputedReplaced
<1> QED  BY <1>1, <1>7, <1>8

LEMMA SelectCodeReplaced ==
  ASSUME NEW c, Found(c, 3)
  PROVE  Replaced(c, SelectCode(c), 3,
                  <<IF ValueAt(c, Len(c.stack)) # 0 THEN ValueAt(c, Len(c.stack) - 2)
                    ELSE ValueAt(c, Len(c.stack) - 1)>>)
<1> DEFINE L      == Len(c.stack)
           cond   == PopToRegister(c, {})
           false  == PopToRegister(cond.c, {cond.reg})
           pinned == {cond.reg, false.reg}
           true   == PopToRegister(false.c, pinned)
           first  == {false.reg, true.reg}
           d      == GetUnused(true.c, first, {})
           from   == IF d.c.regs[cond.reg] # 0 THEN true.reg ELSE false.reg
           v      == IF ValueAt(c, L) # 0 THEN ValueAt(c, L - 2) ELSE ValueAt(c, L - 1)
           far    == d.reg # from
           f      == IF far THEN Move(d.c, d.reg, from) ELSE d.c
<1>0. SelectCode(c) = PushRegister(f, d.reg)  BY DEF SelectCode
<1>1. Good(c) /\ L \in Nat /\ L >= 3 /\ Found(c, 2) /\ Choice({})
  <2>1. Good(c) /\ L \in Nat /\ L >= 3 /\ Len(c.stack) - NumLocals >= 3 /\ NumLocals \in Nat
    BY FoundLeft DEF Found
  <2>2. Len(c.stack) - NumLocals >= 2  BY <2>1
  <2>3. Choice({})  BY Choices
  <2> QED  BY <2>1, <2>2, <2>3 DEF Found
<1>2. /\ Left(c, false.c, 2) /\ Fits(false.c)
      /\ cond.reg \in Regs \ Reserved /\ false.reg \in Regs \ Reserved
      /\ false.c.regs[cond.reg] = ValueAt(c, L) /\ false.c.regs[false.reg] = ValueAt(c, L - 1)
  BY <1>1, PopTwo
<1> HIDE DEF cond, false
<1>3. /\ Left(c, true.c, 2 + 1) /\ Fits(true.c) /\ true.reg \in Regs \ Reserved
      /\ true.c.regs[true.reg] = ValueAt(c, L - 2)
      /\ \A q \in pinned \cap Regs : true.c.regs[q] = false.c.regs[q]
  <2>1. Choice(pinned)  BY <1>2, Choices
  <2>2. Len(false.c.stack) > 0 /\ 2 \in Nat  BY <1>1, <1>2, LeftShape
  <2> HIDE DEF pinned
  <2> QED  BY <1>1, <1>2, <2>1, <2>2, PopLeft
<1> HIDE DEF true
<1>4. /\ true.c.regs[true.reg] = ValueAt(c, L - 2) /\ true.c.regs[cond.reg] = ValueAt(c, L)
      /\ true.c.regs[false.reg] = ValueAt(c, L - 1)
  <2>1. cond.reg \in pinned \cap Regs /\ false.reg \in pinned \cap Regs  BY <1>2
  <2> QED  BY <1>2, <1>3, <2>1
<1>5. Left(c, d.c, 2 + 1) /\ Given(true.c, {}, d)
  <2>1. first \in SUBSET (Regs \ Reserved)  BY <1>2, <1>3
  <2> HIDE DEF first
  <2> QED  BY <1>1, <1>3, <2>1, UnusedFirstLeft
<1> HIDE DEF d
<1>6. d.reg \in Regs /\ from \in Regs /\ d.c \in Context /\ {d.reg} \cap d.c.used \subseteq Reserved
  BY <1>2, <1>3, <1>5, LeftShape DEF Given
<1>7. d.c.regs[from] = v  BY <1>4, <1>5 DEF Given
<1> HIDE DEF from, v
<1>8. /\ Same(d.c, f) /\ f.mem = d.c.mem
      /\ \A q \in Regs : f.regs[q] = IF far /\ q = d.reg THEN d.c.regs[from] ELSE d.c.regs[q]
  <2> DEFINE e == d.c
             r == d.reg
  <2>1. e \in Context /\ r \in Regs /\ far \in BOOLEAN /\ f = IF far THEN Move(e, r, from) ELSE e
    BY <1>6
  <2> HIDE DEF e, r, far, f
  <2>2. /\ Same(e, f) /\ f.mem = e.mem
        /\ \A q \in Regs : f.regs[q] = IF far /\ q = r THEN e.regs[from] ELSE e.regs[q]
    BY <1>6, <2>1, MaybeMoveRegs
  <2> QED  BY <2>2 DEF e, r
<1>9. Untouched(d.c, f, {d.reg})  BY <1>8 DEF Untouched
<1>10. f.regs[d.reg] = v  BY <1>6, <1>7, <1>8
<1> HIDE DEF f
<1>11. 2 + 1 = 3  OBVIOUS
<1>12. Replaced(c, PushRegister(f, d.reg), 3, <<f.regs[d.reg]>>)
  BY <1>1, <1>5, <1>6, <1>9, <1>11, ComputedReplaced
<1> QED  BY <1>0, <1>10, <1>12 DEF v

\* Nothing is pushed.
LEMMA LeftReplaced ==
  ASSUME NEW c, NEW e, NEW n, Left(c, e, n)
  PROVE  Replaced(c, e, n, <<>>)
<1>1. Len(<<>>) = 0 /\ Len(e.stack) = Len(c.stack) - n /\ Len(e.stack) \in Nat
  BY LeftShape, ContextShape
<1> QED  BY <1>1 DEF Left, Replaced

\* A constant is pushed.
LEMMA PushConstReplaced ==
  ASSUME NEW c, Good(c), NEW e, NEW n, Left(c, e, n), NEW v \in Values
  PROVE  Replaced(c, PushConst(e, v), n, <<v>>)
<1> DEFINE d == PushConst(e, v)
<1>1. e \in Context /\ Len(e.stack) = Len(c.stack) - n /\ DOMAIN e.stack = 1 .. Len(c.stack) - n
  BY LeftShape
<1>2. /\ Intact(e, d, DOMAIN e.stack) /\ ValueAt(d, Len(e.stack) + 1) = v
      /\ Len(d.stack) = Len(e.stack) + 1
  <2> DEFINE s == ConstSlot(v)
             I == DOMAIN e.stack
  <2>1. s \in Slot /\ s.loc = "const" /\ s.val = v  BY DEF Slot, ConstSlot
  <2>2. d = Push(e, s)  BY DEF PushConst
  <2>3. I \in SUBSET (DOMAIN e.stack)  OBVIOUS
  <2> HIDE DEF d, s, I
  <2>4. Intact(e, d, I) /\ ValueAt(d, Len(e.stack) + 1) = v  BY <1>1, <2>1, <2>2, <2>3, PushIntact
  <2>5. Len(d.stack) = Len(e.stack) + 1  BY <1>1, <2>1, <2>2, Pushed
  <2> QED  BY <2>4, <2>5 DEF I
<1> HIDE DEF d
<1>3. Intact(c, d, 1 .. Len(c.stack) - n)  BY <1>1, <1>2, IntactTransitive DEF Left
<1>4. Len(<<v>>) = 1 /\ <<v>>[1] = v  OBVIOUS
<1>5. \A j \in 1 .. 1 : ValueAt(d, Len(c.stack) - n + j) = <<v>>[j]  BY <1>1, <1>2
<1> QED  BY <1>1, <1>2, <1>3, <1>4, <1>5 DEF Replaced, d

\* Without a maximum, memory.grow takes its operand off and pushes the size.
LEMMA GrowCodeReplaced ==
  ASSUME NEW c, Found(c, 1), NEW v \in Values, MaxMemory = 0
  PROVE  Replaced(c, GrowCode(c, v), 1, <<v>>)
<1> DEFINE value == PopToRegister(c, {})
<1>1. GrowCode(c, v) = PushConst(value.c, v)  BY DEF GrowCode
<1>2. Good(c) /\ Fits(c) /\ Len(c.stack) > 0  BY FoundLeft
<1>3. Left(c, value.c, 1)  BY <1>2, PopFirst
<1> HIDE DEF value
<1> QED  BY <1>1, <1>2, <1>3, PushConstReplaced

LEMMA LoadedValueReplaced ==
  ASSUME NEW c, Found(c, 0), NEW v \in Values
  PROVE  Replaced(c, LoadedValue(c, v), 0, <<v>>)
<1> DEFINE d == LoadedValue(c, v)
<1>1. Fits(c) /\ Good(c) /\ Choice({}) /\ Len(c.stack) \in Nat  BY FoundFits, FitsShape
<1>2. Intact(c, d, DOMAIN c.stack) /\ ValueAt(d, Len(c.stack) + 1) = v  BY <1>1, LoadedValueIntact
<1>3. Len(d.stack) = Len(c.stack) + 1  BY <1>1, LoadedValueGood
<1> HIDE DEF d
<1>4. Replaced(c, d, 0, <<v>>)  BY <1>1, <1>2, <1>3, ExtendedReplaced
<1> QED  BY <1>4 DEF d

LEMMA CopyLocalReplaced ==
  ASSUME NEW c, Found(c, 0), NEW x \in 1 .. NumLocals
  PROVE  Replaced(c, CopyLocal(c, x), 0, <<ValueAt(c, x)>>)
<1> DEFINE d == CopyLocal(c, x)
           v == ValueAt(c, x)
<1>1. Fits(c) /\ Good(c) /\ Choice({}) /\ Len(c.stack) \in Nat  BY FoundFits, FitsShape
<1>2. x \in DOMAIN c.stack  BY FoundHeights, ContextShape
<1>3. Intact(c, d, DOMAIN c.stack) /\ ValueAt(d, Len(c.stack) + 1) = v  BY <1>1, <1>2, CopyLocalIntact
<1>4. Len(d.stack) = Len(c.stack) + 1  BY <1>1, <1>2, CopyLocalGood
<1> HIDE DEF d, v
<1>5. Replaced(c, d, 0, <<v>>)  BY <1>1, <1>3, <1>4, ExtendedReplaced
<1> QED  BY <1>5 DEF d, v

LEMMA ConstReplaced ==
  ASSUME NEW c, Found(c, 0), NEW v \in Values
  PROVE  Replaced(c, PushConst(c, v), 0, <<v>>)
<1>1. Good(c) /\ Left(c, c, 0)  BY FoundLeft
<1> QED  BY <1>1, PushConstReplaced

LEMMA DropTopReplaced ==
  ASSUME NEW c, Found(c, 1)
  PROVE  Replaced(c, DropTop(c), 1, <<>>)
<1> DEFINE d == DropTop(c)
<1>1. Good(c) /\ Len(c.stack) > 0  BY FoundHeights
<1>2. Good(d) /\ Len(d.stack) = Len(c.stack) - 1  BY <1>1, DropTopGood
<1>3. Intact(c, d, 1 .. Len(c.stack) - 1)  BY <1>1, DropTopIntact
<1> HIDE DEF d
<1>4. Replaced(c, d, 1, <<>>)  BY <1>2, <1>3, LeftReplaced DEF Left
<1> QED  BY <1>4 DEF d

LEMMA SpillLocalsReplaced ==
  ASSUME NEW c, Found(c, 0)
  PROVE  Replaced(c, SpillLocals(c, NumLocals), 0, <<>>)
<1> DEFINE d == SpillLocals(c, NumLocals)
<1>1. NumLocals \in 0 .. Len(c.stack) /\ Len(c.stack) \in Nat  BY FoundHeights
<1>2. Fits(c) /\ DOMAIN c.stack = 1 .. Len(c.stack)  BY FoundFits, FitsShape
<1>3. Good(d) /\ Len(d.stack) = Len(c.stack)  BY <1>1, <1>2, SpillLocalsGood
<1>4. Intact(c, d, DOMAIN c.stack)  BY <1>1, <1>2, SpillLocalsIntact
<1> HIDE DEF d
<1>5. Len(c.stack) - 0 = Len(c.stack)  BY <1>1
<1>6. Replaced(c, d, 0, <<>>)  BY <1>2, <1>3, <1>4, <1>5, LeftReplaced DEF Left
<1> QED  BY <1>6 DEF d

\* What the top n slots hold, from the lowest up.
Arguments(c, n) == [j \in 1 .. n |-> ValueAt(c, Len(c.stack) - n + j)]

\* Parameters travel in registers of their own.
LEMMA ParamRegsDistinct ==
  ASSUME NEW n \in Nat
  PROVE  \A j \in InRegister(n) : /\ ParamRegs[j] \in Regs \ Reserved /\ ParamRegs[j] # RAX
                                  /\ ParamReg(n, ParamRegs[j]) = j /\ j \in 1 .. n
<1> SUFFICES ASSUME NEW j \in InRegister(n)
             PROVE  /\ ParamRegs[j] \in Regs \ Reserved /\ ParamRegs[j] # RAX
                    /\ ParamReg(n, ParamRegs[j]) = j /\ j \in 1 .. n
  OBVIOUS
<1>1. ParamRegs \in Seq(Regs \ Reserved)  BY ValueStackAssumption
<1>2. \A i \in InRegister(n) : i \in DOMAIN ParamRegs /\ i \in 1 .. n
  BY <1>1 DEF InRegister
<1>3. ParamRegs[j] \in Regs \ Reserved  BY <1>1, <1>2
<1>4. ParamRegs[j] # RAX /\ \A i \in InRegister(n) : ParamRegs[i] = ParamRegs[j] => i = j
  BY <1>2, ValueStackAssumption
<1>5. ParamReg(n, ParamRegs[j]) = j
  <2>1. ParamReg(n, ParamRegs[j]) \in InRegister(n) /\ ParamRegs[ParamReg(n, ParamRegs[j])] = ParamRegs[j]
    BY DEF ParamReg
  <2> QED  BY <1>4, <2>1
<1> QED  BY <1>2, <1>3, <1>4, <1>5

\* Every argument arrives in its register.
LEMMA TransferArgsRegs ==
  ASSUME NEW c \in Context, NEW n \in Nat
  PROVE  /\ TransferArgs(c, n).mem = c.mem
         /\ \A j \in InRegister(n) :
              TransferArgs(c, n).regs[ParamRegs[j]] = ValueAt(c, Len(c.stack) - n + j)
         /\ \A r \in Regs : (\A j \in InRegister(n) : ParamRegs[j] # r)
                            => TransferArgs(c, n).regs[r] = c.regs[r]
<1> DEFINE g == [r \in Regs |->
                   IF \E j \in InRegister(n) : ParamRegs[j] = r
                   THEN ValueAt(c, Height(c) - n + ParamReg(n, r)) ELSE c.regs[r]]
<1>1. TransferArgs(c, n) = [c EXCEPT !.regs = g]  BY DEF TransferArgs
<1>2. ASSUME NEW j \in InRegister(n)
      PROVE  g[ParamRegs[j]] = ValueAt(c, Len(c.stack) - n + j)
  BY ParamRegsDistinct DEF Height
<1>3. ASSUME NEW r \in Regs, \A j \in InRegister(n) : ParamRegs[j] # r
      PROVE  g[r] = c.regs[r]
  BY <1>3
<1> HIDE DEF g
<1>4. TransferArgs(c, n).regs = g /\ TransferArgs(c, n).mem = c.mem  BY <1>1 DEF Context
<1> QED  BY <1>2, <1>3, <1>4

\* A slot that is not in a register holds what it held, whatever happens to
\* the registers.
LEMMA SavedValues ==
  ASSUME NEW c, NEW base \in Nat, Saved(c, base), NEW d, d.mem = c.mem,
         base <= Len(c.stack), \A i \in 1 .. base : d.stack[i] = c.stack[i]
  PROVE  Intact(c, d, 1 .. base)
BY DEF Saved, Intact, ValueAt

\* The slots below the arguments are saved, and all slots hold what they held.
LEMMA SpillBelowIntact ==
  ASSUME NEW c, Fits(c), NEW base \in 0 .. Len(c.stack)
  PROVE  Intact(c, SpillBelow(c, base), DOMAIN c.stack) /\ SpillBelow(c, base).regs = c.regs
<1> DEFINE I == {i \in 1 .. base : c.stack[i].loc = "reg"}
<1>1. c \in Context /\ DOMAIN c.stack = 1 .. Len(c.stack) /\ Len(c.stack) \in Nat  BY FitsShape
<1>2. I \in SUBSET (DOMAIN c.stack)  BY <1>1
<1>3. SpillBelow(c, base) = StoreSlots(c, I)  BY DEF SpillBelow
<1> HIDE DEF I
<1> QED  BY <1>1, <1>2, <1>3, StoreIntact, StoredRegs

\* The call takes the arguments off and leaves its result in rax.
LEMMA FinishReplaced ==
  ASSUME NEW c, NEW n \in Nat, Saved(c, Len(c.stack) - n), n <= Len(c.stack),
         NEW result \in Results
  PROVE  Replaced(c, Finish(c, n, result), n, result)
<1> DEFINE m == Len(c.stack) - n
           t == SubSeq(c.stack, 1, m)
           junk == [r \in Regs |-> Junk]
           zero == [r \in Regs |-> 0]
           cut == [c EXCEPT !.stack = t, !.regs = junk]
           gone == ResetUsed(cut)
<1>0. /\ c \in Context /\ Len(c.stack) \in Nat /\ m \in Nat /\ m <= Len(c.stack)
      /\ c.stack \in Seq(Slot) /\ DOMAIN c.stack = 1 .. Len(c.stack)
      /\ \A i \in 1 .. Len(c.stack) : c.stack[i] \in Slot
      /\ \A i \in 1 .. m : c.stack[i].loc # "reg"
  BY ContextShape DEF Saved
<1>1. /\ t \in Seq(Slot) /\ Len(t) = m /\ DOMAIN t = 1 .. m
      /\ \A i \in 1 .. m : t[i] = c.stack[i]
  <2>1. t \in Seq(Slot) /\ Len(t) = m /\ \A i \in 1 .. m : t[i] = c.stack[i]
    BY <1>0, SubSeqProperties
  <2> QED  BY <2>1, LenProperties
<1>2. junk \in [Regs -> Values \cup {Junk}] /\ zero \in [Regs -> Nat]  OBVIOUS
<1> HIDE DEF t, junk, zero
<1>3. cut \in Context /\ cut.stack = t /\ cut.mem = c.mem  BY <1>0, <1>1, <1>2 DEF Context
<1>4. gone = [cut EXCEPT !.used = Reserved, !.count = zero]  BY DEF ResetUsed, zero
<1>5. Finish(c, n, result) =
        IF result = <<>> THEN gone
        ELSE PushRegister(Assert(SetReg(gone, RAX, result[1]), ~(RAX \in gone.used)), RAX)
  BY DEF Finish, t, junk
<1> HIDE DEF cut, gone
<1>6. gone \in Context /\ gone.stack = t /\ gone.mem = c.mem
  BY <1>2, <1>3, <1>4, RegsAssumption DEF Context
<1>7. Intact(c, gone, 1 .. m)
  <2> HIDE DEF m
  <2>1. m \in Nat /\ m <= Len(c.stack) /\ Saved(c, m)  BY <1>0 DEF m
  <2>2. \A i \in 1 .. m : gone.stack[i] = c.stack[i]  BY <1>1, <1>6
  <2> QED  BY <1>6, <2>1, <2>2, SavedValues
<1>8. CASE result = <<>>
  <2>1. Len(result) = 0 /\ Len(gone.stack) = m + 0  BY <1>0, <1>1, <1>6, <1>8
  <2> QED  BY <1>5, <1>7, <1>8, <2>1 DEF Replaced
<1>9. CASE result # <<>>
  <2> DEFINE v == result[1]
             s == SetReg(gone, RAX, v)
             a == Assert(s, ~(RAX \in gone.used))
             d == PushRegister(a, RAX)
  <2>1. v \in Values \cup {Junk} /\ Len(result) = 1 /\ result = <<v>>  BY <1>9 DEF Results
  <2>2. /\ s \in Context /\ s.stack = t /\ s.mem = c.mem /\ s.regs[RAX] = v
    BY <1>6, <2>1, FixedRegs, SetRegRegs DEF Same
  <2> HIDE DEF s
  <2>3. a \in Context /\ a.stack = t /\ a.mem = c.mem /\ a.regs[RAX] = v
    <3> HIDE DEF v
    <3>1. Same(s, a)  BY <2>2, AssertSame DEF a
    <3>2. a.mem = s.mem /\ a.regs = s.regs  BY <2>2, AssertMem DEF Assert
    <3> HIDE DEF a, t
    <3> QED  BY <2>2, <3>1, <3>2 DEF Same
  <2> HIDE DEF a, v
  <2>4. Intact(c, a, 1 .. m)
    <3> HIDE DEF m
    <3>1. m \in Nat /\ m <= Len(c.stack) /\ Saved(c, m)  BY <1>0 DEF m
    <3>2. \A i \in 1 .. m : a.stack[i] = c.stack[i]  BY <1>1, <2>3
    <3> QED  BY <2>3, <3>1, <3>2, SavedValues
  <2>5. /\ Intact(a, d, DOMAIN a.stack) /\ ValueAt(d, Len(a.stack) + 1) = v
        /\ Len(d.stack) = Len(a.stack) + 1
    BY <2>3, FixedRegs, PushRegisterIntact
  <2>6. DOMAIN a.stack = 1 .. m /\ Len(a.stack) = m  BY <1>1, <2>3
  <2> HIDE DEF d
  <2>7. Intact(c, d, 1 .. m)  BY <2>4, <2>5, <2>6, IntactTransitive
  <2>8. \A j \in 1 .. 1 : ValueAt(d, m + j) = result[j]  BY <2>1, <2>5, <2>6
  <2>9. Finish(c, n, result) = d  BY <1>5, <1>9 DEF d, a, s, v
  <2> QED  BY <2>1, <2>5, <2>6, <2>7, <2>8, <2>9 DEF Replaced
<1> QED  BY <1>8, <1>9

\* What a call finds below its arguments goes on from c to the end of it.
LEMMA CallReplaced ==
  ASSUME NEW c, NEW k, NEW n \in Nat, NEW e, Left(c, e, k), k + n <= Len(c.stack), k \in Nat,
         Fits(e), Good(c), NEW d, Same(SpillBelow(e, Len(e.stack) - n), d),
         d.mem = SpillBelow(e, Len(e.stack) - n).mem, NEW result \in Results
  PROVE  Replaced(c, Finish(d, n, result), k + n, result)
<1> DEFINE m == Len(e.stack) - n
           b == SpillBelow(e, m)
           f == Finish(d, n, result)
<1>1. /\ Len(c.stack) \in Nat /\ Len(e.stack) \in Nat /\ m \in 0 .. Len(e.stack) /\ m \in Nat
      /\ Len(e.stack) = Len(c.stack) - k /\ m = Len(c.stack) - (k + n) /\ n <= Len(e.stack)
      /\ Good(e) /\ Len(e.stack) <= MaxHeight /\ DOMAIN e.stack = 1 .. Len(e.stack)
  <2>1. Len(c.stack) \in Nat /\ Len(e.stack) = Len(c.stack) - k  BY LeftShape, LeftSelf
  <2>2. /\ Good(e) /\ Len(e.stack) <= MaxHeight /\ DOMAIN e.stack = 1 .. Len(e.stack)
        /\ Len(e.stack) \in Nat
    BY FitsShape
  <2> QED  BY <2>1, <2>2
<1>2. Saved(b, m) /\ Len(b.stack) = Len(e.stack)  BY <1>1, SpillBelowSaved
<1>3. Intact(e, b, DOMAIN e.stack)  BY <1>1, SpillBelowIntact
<1>4. Same(b, d) /\ d.mem = b.mem  OBVIOUS
<1> HIDE DEF b
<1>5. Saved(d, m) /\ Len(d.stack) = Len(e.stack) /\ d.stack = b.stack
  BY <1>2, <1>4, SavedSame DEF Same
<1>6. Intact(b, d, 1 .. m)
  <2>1. m <= Len(b.stack)  BY <1>1, <1>2
  <2> HIDE DEF m
  <2> QED  BY <1>1, <1>2, <1>4, <1>5, <2>1, SavedValues
<1>7. Intact(e, b, 1 .. m)
  <2>1. 1 .. m \in SUBSET (DOMAIN e.stack)  BY <1>1
  <2> QED  BY <1>3, <2>1, IntactFewer
<1>8. Intact(c, e, 1 .. m)
  <2> DEFINE K == Len(c.stack) - k
  <2>1. K = Len(e.stack) /\ m <= Len(e.stack)  BY <1>1
  <2>2. Intact(c, e, 1 .. K)  BY DEF Left
  <2> HIDE DEF m, K
  <2>3. 1 .. m \in SUBSET (1 .. K)  BY <1>1, <2>1
  <2> QED  BY <2>2, <2>3, IntactFewer
<1>9. Intact(c, d, 1 .. m)  BY <1>6, <1>7, <1>8, IntactTransitive
<1>10. Replaced(d, f, n, result)
  <2>1. Len(d.stack) - n = m /\ n <= Len(d.stack)  BY <1>1, <1>5
  <2> QED  BY <1>5, <2>1, FinishReplaced
<1> HIDE DEF f
<1>11. Len(d.stack) - n = m  BY <1>5
<1> HIDE DEF m
<1>12. /\ Len(f.stack) = m + Len(result) /\ Intact(d, f, 1 .. m)
       /\ \A j \in 1 .. Len(result) : ValueAt(f, m + j) = result[j]
  BY <1>10, <1>11 DEF Replaced
<1>13. Intact(c, f, 1 .. m)  BY <1>9, <1>12, IntactTransitive
<1>14. Len(c.stack) - (k + n) = m  BY <1>1
<1>15. Replaced(c, f, k + n, result)  BY <1>12, <1>13, <1>14 DEF Replaced
<1> QED  BY <1>15 DEF f

\* The arguments travel: b with the slots of e, read where they are in b.
LEMMA TransferredArgs ==
  ASSUME NEW e, Fits(e), NEW n \in 0 .. Len(e.stack)
  PROVE  LET b == SpillBelow(e, Len(e.stack) - n)
         IN  /\ b \in Context /\ Len(b.stack) = Len(e.stack) /\ b.regs = e.regs
             /\ Same(b, TransferArgs(b, n)) /\ TransferArgs(b, n).mem = b.mem
             /\ \A j \in 1 .. n : ValueAt(b, Len(b.stack) - n + j) = Arguments(e, n)[j]
             /\ \A j \in InRegister(n) : TransferArgs(b, n).regs[ParamRegs[j]] = Arguments(e, n)[j]
             /\ \A r \in Regs : (\A j \in InRegister(n) : ParamRegs[j] # r)
                                => TransferArgs(b, n).regs[r] = e.regs[r]
<1> DEFINE L == Len(e.stack)
           b == SpillBelow(e, L - n)
<1>1. /\ L \in Nat /\ n \in Nat /\ L - n \in 0 .. L /\ Good(e) /\ L <= MaxHeight
      /\ DOMAIN e.stack = 1 .. L
  BY FitsShape
<1>2. Saved(b, L - n) /\ Len(b.stack) = L  BY <1>1, SpillBelowSaved
<1>3. Intact(e, b, DOMAIN e.stack) /\ b.regs = e.regs  BY <1>1, SpillBelowIntact
<1> HIDE DEF b
<1>4. b \in Context /\ Len(b.stack) <= MaxHeight  BY <1>2 DEF Saved
<1>5. Same(b, TransferArgs(b, n))  BY <1>1, <1>2, <1>4, TransferArgsSame
<1>6. /\ TransferArgs(b, n).mem = b.mem
      /\ \A j \in InRegister(n) : TransferArgs(b, n).regs[ParamRegs[j]] = ValueAt(b, L - n + j)
      /\ \A r \in Regs : (\A j \in InRegister(n) : ParamRegs[j] # r)
                         => TransferArgs(b, n).regs[r] = b.regs[r]
  BY <1>1, <1>2, <1>4, TransferArgsRegs
<1>7. \A j \in 1 .. n : ValueAt(b, L - n + j) = Arguments(e, n)[j]
  <2> TAKE j \in 1 .. n
  <2>1. L - n + j \in DOMAIN e.stack  BY <1>1
  <2> QED  BY <1>3, <2>1 DEF Intact, Arguments
<1>8. \A j \in InRegister(n) : j \in 1 .. n  BY DEF InRegister
<1>9. \A j \in InRegister(n) : TransferArgs(b, n).regs[ParamRegs[j]] = Arguments(e, n)[j]
  BY <1>6, <1>7, <1>8
<1> QED  BY <1>2, <1>3, <1>4, <1>5, <1>6, <1>7, <1>9 DEF b

\* The callee finds what the arguments held.
LEMMA PassedArguments ==
  ASSUME NEW c, NEW n, NEW b, NEW d, Len(b.stack) = Len(c.stack),
         \A j \in 1 .. n : ValueAt(b, Len(b.stack) - n + j) = Arguments(c, n)[j],
         \A j \in InRegister(n) : d.regs[ParamRegs[j]] = Arguments(c, n)[j]
  PROVE  Passed(b, d, n) = Arguments(c, n)
<1>1. Arguments(c, n) = [j \in 1 .. n |-> Arguments(c, n)[j]]  BY DEF Arguments
<1>2. \A j \in 1 .. n : (IF j \in InRegister(n) THEN d.regs[ParamRegs[j]]
                        ELSE ValueAt(b, Height(b) - n + j)) = Arguments(c, n)[j]
  BY DEF Height
<1>3. Passed(b, d, n) = [j \in 1 .. n |-> Arguments(c, n)[j]]  BY <1>2 DEF Passed
<1> QED  BY <1>1, <1>3

\* After the registers are freed the address of the callee goes to rax.
LEMMA AddressRegister ==
  ASSUME NEW d \in Context
  PROVE  /\ GetUnused(ResetUsed(d), {}, {}).reg = RAX
         /\ GetUnused(ResetUsed(d), {}, {}).c \in Context
         /\ GetUnused(ResetUsed(d), {}, {}).c.regs = d.regs
<1> DEFINE zero == [r \in Regs |-> 0]
           e == ResetUsed(d)
           P == \A r \in {} : (\A q \in {} \ e.used : r <= q) => Consistent(e, r)
           a == Assert(e, P)
           free == (Regs \ a.used) \ {}
<1>1. zero \in [Regs -> Nat] /\ e = [d EXCEPT !.used = Reserved, !.count = zero]  BY DEF ResetUsed
<1> HIDE DEF zero
<1>2. e \in Context /\ e.used = Reserved /\ e.regs = d.regs
  <2> HIDE DEF e
  <2> QED  BY <1>1, RegsAssumption DEF Context
<1> HIDE DEF e
<1>3. P \in BOOLEAN /\ GetUnused(e, {}, {}) = GetUnusedRegister(a, {})  BY DEF GetUnused
<1> HIDE DEF P
<1>4. a \in Context /\ a.used = Reserved /\ a.regs = d.regs
  BY <1>2, <1>3, AssertSame, AssertMem DEF Same
<1> HIDE DEF a
<1>5. free = Regs \ Reserved /\ RAX \in free /\ free \in SUBSET Nat /\ free # {}
  BY <1>4, FixedRegs, RegsAssumption
<1>6. GetUnusedRegister(a, {}) = With(a, FirstOf(free))  BY <1>5 DEF GetUnusedRegister
<1> HIDE DEF free
<1>7. FirstOf(free) \in free /\ FirstOf(free) <= RAX  BY <1>5, FirstOfIsLeast
<1>8. RAX <= FirstOf(free)  BY <1>5, <1>7, ValueStackAssumption
<1>9. FirstOf(free) = RAX
  <2>1. FirstOf(free) \in Nat /\ RAX \in Nat  BY <1>5, <1>7
  <2> QED  BY <1>7, <1>8, <2>1
<1> QED  BY <1>3, <1>4, <1>6, <1>9 DEF With, e

LEMMA DirectCallReplaced ==
  ASSUME NEW c, NEW n \in Nat, Found(c, n), NEW result \in Results
  PROVE  /\ Replaced(c, Finish(DirectCall(c, n).c, n, result), n, result)
         /\ DirectCall(c, n).args = Arguments(c, n)
<1> DEFINE b == SpillBelow(c, Len(c.stack) - n)
           d == TransferArgs(b, n)
           addr == GetUnused(ResetUsed(d), {}, {})
           x == SetReg(addr.c, addr.reg, Junk)
<1>0. /\ Fits(c) /\ Good(c) /\ Left(c, c, 0) /\ Len(c.stack) \in Nat /\ n \in 0 .. Len(c.stack)
      /\ 0 + n = n /\ n <= Len(c.stack)
  BY FoundLeft
<1>1. DirectCall(c, n).c = d /\ DirectCall(c, n).args = Passed(c, x, n)  BY DEF DirectCall, Height
<1>2. /\ b \in Context /\ Same(b, d) /\ d.mem = b.mem
      /\ \A j \in InRegister(n) : d.regs[ParamRegs[j]] = Arguments(c, n)[j]
  BY <1>0, TransferredArgs
<1>3. Replaced(c, Finish(d, n, result), n, result)  BY <1>0, <1>2, CallReplaced
<1> HIDE DEF d
<1>4. d \in Context  BY <1>2 DEF Same
<1>5. addr.reg = RAX /\ addr.c \in Context /\ addr.c.regs = d.regs  BY <1>4, AddressRegister
<1> HIDE DEF addr
<1>6. \A q \in Regs : x.regs[q] = IF q = RAX THEN Junk ELSE d.regs[q]
  <2> DEFINE a == addr.c
  <2>1. a \in Context /\ x = SetReg(a, RAX, Junk) /\ a.regs = d.regs  BY <1>5
  <2> HIDE DEF a, x
  <2> QED  BY <2>1, FixedRegs, SetRegMem
<1> HIDE DEF x
<1>7. \A j \in InRegister(n) : x.regs[ParamRegs[j]] = Arguments(c, n)[j]
  BY <1>2, <1>6, ParamRegsDistinct
<1>8. \A j \in 1 .. n : ValueAt(c, Len(c.stack) - n + j) = Arguments(c, n)[j]  BY DEF Arguments
<1>9. Passed(c, x, n) = Arguments(c, n)  BY <1>7, <1>8, PassedArguments
<1> QED  BY <1>1, <1>3, <1>9

\* A value read into a register of its own, on the way to be used.
Loaded(c, e, n, r, v) ==
  Left(c, e, n) /\ Fits(e) /\ r \in Regs \ Reserved /\ r \notin e.used /\ e.regs[r] = v

LEMMA TableIndexLoaded ==
  ASSUME NEW c, NEW n \in Nat, Found(c, n + 1)
  PROVE  Loaded(c, TableIndex(c).c, 1, TableIndex(c).reg, ValueAt(c, Len(c.stack)))
<1> DEFINE popped == PopToRegister(c, {})
           new    == GetUnused(popped.c, {}, {})
           d      == Move(new.c, new.reg, popped.reg)
           v      == ValueAt(c, Len(c.stack))
<1>0. TableIndex(c) = IF popped.reg \in popped.c.used THEN With(d, new.reg) ELSE popped
  BY DEF TableIndex
<1>1. Good(c) /\ Fits(c) /\ Len(c.stack) > 0
  <2> DEFINE k == n + 1
  <2>1. k \in Nat /\ k > 0 /\ Found(c, k)  OBVIOUS
  <2> HIDE DEF k
  <2> QED  BY <2>1, FoundLeft
<1>2. /\ Left(c, popped.c, 1) /\ Fits(popped.c) /\ popped.reg \in Regs \ Reserved
      /\ popped.c.regs[popped.reg] = v
  BY <1>1, PopFirst
<1> HIDE DEF popped, v
<1>3. CASE popped.reg \notin popped.c.used
  BY <1>0, <1>2, <1>3 DEF Loaded, v
<1>4. CASE popped.reg \in popped.c.used
  <2>1. Left(c, new.c, 1) /\ Given(popped.c, {}, new)  BY <1>2, Choices, UnusedLeft
  <2> HIDE DEF new
  <2> DEFINE e == new.c
             r == new.reg
             W == {r}
  <2>2. /\ Fits(e) /\ e \in Context /\ r \in Regs \ Reserved /\ r \in Regs /\ r \notin e.used
        /\ e.regs[popped.reg] = v /\ Left(c, e, 1)
    BY <1>2, <2>1, FitsShape DEF Given
  <2>3. d = Move(e, r, popped.reg)  OBVIOUS
  <2>4. W \in SUBSET Regs /\ W \cap e.used \subseteq Reserved /\ \A q \in Regs \ W : q # r
    BY <2>2
  <2> HIDE DEF e, r, d, W
  <2>5. /\ Same(e, d) /\ d.mem = e.mem /\ d.regs[r] = v
        /\ \A q \in Regs : q # r => d.regs[q] = e.regs[q]
    <3> DEFINE s == popped.reg
    <3>1. s \in Regs /\ r \in Regs /\ e \in Context  BY <1>2, <2>2
    <3>2. d = Move(e, r, s) /\ e.regs[s] = v  BY <2>2, <2>3
    <3> HIDE DEF s
    <3>3. /\ Same(e, d) /\ d.mem = e.mem
          /\ \A q \in Regs : d.regs[q] = IF q = r THEN e.regs[s] ELSE e.regs[q]
      <4>1. /\ Same(e, Move(e, r, s)) /\ Move(e, r, s).mem = e.mem
            /\ \A q \in Regs : Move(e, r, s).regs[q] = IF q = r THEN e.regs[s] ELSE e.regs[q]
        BY <3>1, MoveRegs
      <4> QED  BY <3>2, <4>1
    <3> QED  BY <3>1, <3>2, <3>3
  <2>6. Untouched(e, d, W)  BY <2>4, <2>5 DEF Untouched
  <2>7. Left(c, d, 1)  BY <2>2, <2>4, <2>6, UntouchedLeft
  <2>8. Fits(d) /\ r \notin d.used
    <3>1. Good(d)  BY <2>2, <2>5, SameCache DEF Same, Fits
    <3> QED  BY <2>2, <2>5, <3>1 DEF Fits, Same
  <2>9. TableIndex(c).c = d /\ TableIndex(c).reg = r  BY <1>0, <1>4 DEF With, r
  <2> QED  BY <2>2, <2>5, <2>7, <2>8, <2>9 DEF Loaded, v
<1> QED  BY <1>3, <1>4

\* The index is read before its own register is reused.
LEMMA TableEntryLoaded ==
  ASSUME HasTable, NEW c, NEW index, NEW n, NEW v, Loaded(c, index.c, n, index.reg, v)
  PROVE  /\ Left(c, TableEntry(index).c, n) /\ Fits(TableEntry(index).c)
         /\ TableEntry(index).reg \in Regs \ Reserved
         /\ TableEntry(index).c.regs[TableEntry(index).reg] = v
<1> DEFINE I == index.reg
           p == {I}
           table   == GetUnused(index.c, {}, p)
           p2 == {I, table.reg}
           const   == GetUnused(table.c, {}, p2)
           p3 == {I, table.reg, const.reg}
           scratch == GetUnused(const.c, {}, p3)
           e == scratch.c
           r == scratch.reg
           w == e.regs[I]
           a == SetReg(e, const.reg, Junk)
           b == SetReg(a, table.reg, Junk)
           d == SetReg(b, r, w)
           f == SetReg(d, I, Junk)
           W == {I, table.reg, const.reg, r}
<1>0. TableEntry(index).c = f /\ TableEntry(index).reg = r  BY DEF TableEntry, With
<1>1. /\ Left(c, index.c, n) /\ Fits(index.c) /\ I \in Regs \ Reserved /\ I \notin index.c.used
      /\ index.c.regs[I] = v
  BY DEF Loaded
<1>2. Choice(p) /\ Choice(p2) /\ Choice(p3)  BY Choices, FourthChoice
<1>3. Left(c, table.c, n) /\ Given(index.c, p, table)
  <2> HIDE DEF p
  <2> QED  BY <1>1, <1>2, UnusedLeft
<1> HIDE DEF table
<1>4. Left(c, const.c, n) /\ Given(table.c, p2, const)
  <2> HIDE DEF p2
  <2> QED  BY <1>2, <1>3, UnusedLeft DEF Given
<1> HIDE DEF const
<1>5. Left(c, scratch.c, n) /\ Given(const.c, p3, scratch)
  <2> HIDE DEF p3
  <2> QED  BY <1>2, <1>4, UnusedLeft DEF Given
<1> HIDE DEF scratch
<1>6. /\ table.reg \in Regs \ Reserved /\ const.reg \in Regs \ Reserved /\ r \in Regs \ Reserved
      /\ r # I /\ r # table.reg /\ r # const.reg
      /\ W \cap e.used = {} /\ e.regs[I] = v /\ Fits(e) /\ Left(c, e, n)
  <2>1. /\ table.reg \in Regs \ Reserved /\ const.reg \in Regs \ Reserved /\ r \in Regs \ Reserved
        /\ r \notin p3 /\ Fits(e) /\ Left(c, e, n)
    BY <1>3, <1>4, <1>5 DEF Given
  <2>2. e.regs = const.c.regs /\ const.c.regs = table.c.regs /\ table.c.regs = index.c.regs
    BY <1>3, <1>4, <1>5 DEF Given
  <2>3. /\ r \notin e.used /\ e.used \subseteq const.c.used /\ const.reg \notin const.c.used
        /\ const.c.used \subseteq table.c.used /\ table.reg \notin table.c.used
        /\ table.c.used \subseteq index.c.used
    BY <1>3, <1>4, <1>5 DEF Given
  <2> QED  BY <1>1, <2>1, <2>2, <2>3
<1> DEFINE T == table.reg
           C == const.reg
<1>7. /\ T \in Regs /\ C \in Regs /\ r \in Regs /\ I \in Regs /\ r # I /\ r # T /\ r # C
      /\ a = SetReg(e, C, Junk) /\ b = SetReg(a, T, Junk) /\ W = {I, T, C, r}
      /\ Junk \in Values \cup {Junk} /\ e \in Context
  BY <1>1, <1>6, FitsShape
<1>8. w \in Values \cup {Junk}  BY <1>7, ContextShape
<1>9. W \in SUBSET Regs /\ W \cap e.used \subseteq Reserved  BY <1>6, <1>7
<1> HIDE DEF e, r, T, C, I, w
<1>10. /\ Same(e, a) /\ a \in Context /\ a.mem = e.mem
       /\ \A q \in Regs : a.regs[q] = IF q = C THEN Junk ELSE e.regs[q]
  BY <1>7, SetRegRegs
<1> HIDE DEF a
<1>11. /\ Same(a, b) /\ b \in Context /\ b.mem = a.mem
       /\ \A q \in Regs : b.regs[q] = IF q = T THEN Junk ELSE a.regs[q]
  BY <1>7, <1>10, SetRegRegs
<1> HIDE DEF b
<1>12. /\ Same(b, d) /\ d \in Context /\ d.mem = b.mem
       /\ \A q \in Regs : d.regs[q] = IF q = r THEN w ELSE b.regs[q]
  <2>1. b \in Context /\ r \in Regs /\ d = SetReg(b, r, w)  BY <1>7, <1>11
  <2> HIDE DEF d
  <2> QED  BY <1>8, <2>1, SetRegRegs
<1> HIDE DEF d
<1>13. /\ Same(d, f) /\ f \in Context /\ f.mem = d.mem
       /\ \A q \in Regs : f.regs[q] = IF q = I THEN Junk ELSE d.regs[q]
  BY <1>7, <1>12, SetRegRegs
<1> HIDE DEF f
<1>14. Same(e, f) /\ f.mem = e.mem
  <2>1. Same(e, b)  BY <1>10, <1>11, SameTransitive
  <2>2. Same(e, d)  BY <1>12, <2>1, SameTransitive
  <2> QED  BY <1>10, <1>11, <1>12, <1>13, <2>2, SameTransitive
<1>15. f.regs[r] = w  BY <1>7, <1>12, <1>13
<1>16. \A q \in Regs \ W : f.regs[q] = e.regs[q]
  <2> TAKE q \in Regs \ W
  <2>1. q \in Regs /\ q # I /\ q # T /\ q # C /\ q # r  BY <1>7
  <2> QED  BY <1>10, <1>11, <1>12, <1>13, <2>1
<1>17. Untouched(e, f, W)  BY <1>14, <1>16 DEF Untouched
<1>18. Fits(e) /\ Left(c, e, n) /\ r \in Regs \ Reserved /\ w = v  BY <1>6 DEF e, r, w, I
<1> HIDE DEF W
<1>19. Left(c, f, n)  BY <1>9, <1>17, <1>18, UntouchedLeft
<1>20. Fits(f)
  <2>1. Good(f)  BY <1>14, <1>18, SameCache DEF Same, Fits
  <2> QED  BY <1>14, <1>18, <2>1 DEF Fits, Same
<1> QED  BY <1>0, <1>15, <1>18, <1>19, <1>20

\* The target of the call is the table entry, wherever the arguments go.
LEMMA IndirectCallReplaced ==
  ASSUME NEW c, Good(c), NEW n \in Nat, n + 1 <= Len(c.stack), NEW entry, NEW v,
         Left(c, entry.c, 1), Fits(entry.c), entry.reg \in Regs, entry.c.regs[entry.reg] = v,
         NEW result \in Results, v = ValueAt(c, Len(c.stack))
  PROVE  /\ Replaced(c, Finish(IndirectCall(entry, n).c, n, result), n + 1, result)
         /\ IndirectCall(entry, n).args = Arguments(c, n + 1)
<1> DEFINE L == Len(c.stack)
           e == entry.c
           R == entry.reg
           b == SpillBelow(e, Len(e.stack) - n)
           t == TransferArgs(b, n)
           params == {ParamRegs[j] : j \in InRegister(n)}
           clash  == R \in params
           target == IF clash THEN FirstOf(Regs \ params) ELSE R
           w == b.regs[R]
           d == IF clash THEN SetReg(t, target, w) ELSE t
<1>0. /\ L \in Nat /\ Len(e.stack) = L - 1 /\ n \in 0 .. Len(e.stack) /\ Len(e.stack) \in Nat
      /\ n <= Len(e.stack) /\ 1 + n = n + 1 /\ 1 + n <= L
  <2>1. L \in Nat /\ Len(e.stack) = L - 1  BY LeftShape, LeftSelf
  <2> QED  BY <2>1
<1>1. IndirectCall(entry, n).c = d /\ IndirectCall(entry, n).args = Append(Passed(b, d, n), d.regs[target])
  BY DEF IndirectCall, Height
<1>2. Left(c, e, 1) /\ Fits(e) /\ R \in Regs /\ e.regs[R] = v  OBVIOUS
<1> HIDE DEF e, R
<1>3. /\ b \in Context /\ Len(b.stack) = Len(e.stack) /\ b.regs = e.regs
      /\ Same(b, t) /\ t.mem = b.mem
      /\ \A j \in 1 .. n : ValueAt(b, Len(b.stack) - n + j) = Arguments(e, n)[j]
      /\ \A j \in InRegister(n) : t.regs[ParamRegs[j]] = Arguments(e, n)[j]
      /\ \A r \in Regs : (\A j \in InRegister(n) : ParamRegs[j] # r) => t.regs[r] = e.regs[r]
  BY <1>0, <1>2, TransferredArgs
<1>4. target \in Regs /\ target \notin params
  <2>1. CASE clash
    <3> DEFINE S == Regs \ params
    <3>1. ScratchGP \in S
      <4>1. ScratchGP \in Reserved /\ ScratchGP \in Regs  BY ValueStackAssumption, FixedRegs
      <4>2. \A q \in params : q \notin Reserved  BY ParamRegsDistinct
      <4> QED  BY <4>1, <4>2
    <3>2. S \in SUBSET Nat /\ S # {}  BY <3>1, RegsAssumption
    <3>3. target = FirstOf(S)  BY <2>1
    <3> HIDE DEF S, target
    <3>4. target \in S  BY <3>2, <3>3, FirstOfIsLeast
    <3> QED  BY <3>4 DEF S
  <2>2. CASE ~clash  BY <1>2, <2>2
  <2> QED  BY <2>1, <2>2
<1>5. w = v  BY <1>2, <1>3
<1>6. w \in Values \cup {Junk}
  <2> HIDE DEF b
  <2> QED  BY <1>2, <1>3, ContextShape
<1> HIDE DEF b, t, w
<1>7. /\ Same(b, d) /\ d.mem = b.mem /\ d.regs[target] = v
      /\ \A q \in Regs : q # target => d.regs[q] = t.regs[q]
  <2>1. CASE clash
    <3>1. d = SetReg(t, target, w) /\ t \in Context  BY <1>3, <2>1 DEF Same
    <3> HIDE DEF d, target
    <3>2. /\ Same(t, d) /\ d.mem = t.mem
          /\ \A q \in Regs : d.regs[q] = IF q = target THEN w ELSE t.regs[q]
      BY <1>4, <1>6, <3>1, SetRegRegs
    <3> QED  BY <1>3, <1>4, <1>5, <3>2, SameTransitive
  <2>2. CASE ~clash
    <3>1. d = t /\ target = R  BY <2>2
    <3>2. \A j \in InRegister(n) : ParamRegs[j] # R  BY <2>2
    <3> QED  BY <1>2, <1>3, <3>1, <3>2
  <2> QED  BY <2>1, <2>2
<1>8. \A j \in InRegister(n) : d.regs[ParamRegs[j]] = Arguments(e, n)[j]
  <2> TAKE j \in InRegister(n)
  <2>1. ParamRegs[j] \in Regs /\ ParamRegs[j] # target  BY <1>4, ParamRegsDistinct
  <2> QED  BY <1>3, <1>7, <2>1
<1> HIDE DEF d, target
<1>9. Passed(b, d, n) = Arguments(e, n)  BY <1>3, <1>8, PassedArguments
<1>10. Append(Arguments(e, n), v) = Arguments(c, n + 1)
  <2> DEFINE s == Arguments(e, n)
  <2>1. s = [j \in 1 .. n |-> ValueAt(e, Len(e.stack) - n + j)]  BY DEF Arguments
  <2>2. s = [j \in 1 .. n |-> ValueAt(c, L - (n + 1) + j)]
    <3>1. \A j \in 1 .. n : ValueAt(e, Len(e.stack) - n + j) = ValueAt(c, L - (n + 1) + j)
      <4> TAKE j \in 1 .. n
      <4>1. Len(e.stack) - n + j = L - (n + 1) + j /\ L - (n + 1) + j \in 1 .. L - 1  BY <1>0
      <4> QED  BY <1>2, <4>1 DEF Left, Intact
    <3> QED  BY <2>1, <3>1
  <2> HIDE DEF s
  <2> DEFINE g == [j \in 1 .. n |-> ValueAt(c, L - (n + 1) + j)]
             h == [j \in 1 .. n + 1 |-> ValueAt(c, L - (n + 1) + j)]
             V == {ValueAt(c, L - (n + 1) + j) : j \in 1 .. n + 1}
  <2>3. Append(g, v) = h
    <3>1. g \in [1 .. n -> V] /\ h \in [1 .. n + 1 -> V] /\ h[n + 1] = v /\ v \in V
      <4>1. \A j \in 1 .. n : j \in 1 .. n + 1  OBVIOUS
      <4>2. n + 1 \in 1 .. n + 1 /\ L - (n + 1) + (n + 1) = L
        <5>1. \A x, y \in Nat : x - (y + 1) + (y + 1) = x /\ y + 1 \in 1 .. y + 1  OBVIOUS
        <5> HIDE DEF L
        <5> QED  BY <1>0, <5>1
      <4>3. \A j \in 1 .. n + 1 : ValueAt(c, L - (n + 1) + j) \in V  OBVIOUS
      <4>4. h[n + 1] = v
        <5> DEFINE k == L - (n + 1) + (n + 1)
        <5>1. h[n + 1] = ValueAt(c, k)  BY <4>2
        <5>2. k = L  BY <4>2
        <5> HIDE DEF h, k
        <5> QED  BY <5>1, <5>2
      <4>5. v \in V  BY <4>2, <4>3
      <4> HIDE DEF V
      <4>6. g \in [1 .. n -> V] /\ h \in [1 .. n + 1 -> V]  BY <4>1, <4>3
      <4> QED  BY <4>4, <4>5, <4>6
    <3>2. \A j \in 1 .. n : h[j] = g[j]
      <4>1. \A j \in 1 .. n : j \in 1 .. n + 1  OBVIOUS
      <4> QED  BY <4>1
    <3> HIDE DEF g, h, V
    <3>3. g \in Seq(V) /\ Len(g) = n  BY <3>1
    <3>4. /\ Append(g, v) \in Seq(V) /\ Len(Append(g, v)) = n + 1
          /\ Append(g, v)[n + 1] = v /\ \A j \in 1 .. n : Append(g, v)[j] = g[j]
      BY <3>1, <3>3, AppendProperties
    <3>5. Append(g, v) \in [1 .. n + 1 -> V]  BY <3>4, LenProperties
    <3>6. \A j \in 1 .. n + 1 : Append(g, v)[j] = h[j]
      <4> TAKE j \in 1 .. n + 1
      <4>1. j \in 1 .. n \/ j = n + 1  OBVIOUS
      <4> QED  BY <3>1, <3>2, <3>4, <4>1
    <3> QED  BY <3>1, <3>5, <3>6
  <2>4. h = Arguments(c, n + 1)  BY DEF Arguments
  <2> QED  BY <2>2, <2>3, <2>4 DEF s
<1>11. Replaced(c, Finish(d, n, result), 1 + n, result)
  BY <1>0, <1>2, <1>7, CallReplaced DEF b, L
<1> QED  BY <1>0, <1>1, <1>7, <1>9, <1>10, <1>11

-----------------------------------------------------------------------------
(* The value stack of WasmStack is what the slots hold. *)

\* The top n values.
LEMMA ContentsArgs ==
  ASSUME NEW c, Fits(c), NEW n \in 0 .. Len(c.stack)
  PROVE  SubSeq(Contents(c), Len(Contents(c)) - n + 1, Len(Contents(c))) = Arguments(c, n)
<1> DEFINE V == Values \cup {Junk}
           L == Len(c.stack)
           s == Contents(c)
           a == Arguments(c, n)
           p == L - n + 1
           k == SubSeq(s, p, L)
<1>1. L \in Nat /\ n \in Nat /\ n <= L /\ p \in Nat /\ p >= 1  BY FitsShape
<1>2. /\ s \in Seq(V) /\ Len(s) = L /\ \A i \in 1 .. L : s[i] = ValueAt(c, i)
  BY ContentsShape
<1>3. \A j \in 1 .. n : L - n + j \in 1 .. L /\ p + j - 1 = L - n + j  BY <1>1
<1>4. a = [j \in 1 .. n |-> ValueAt(c, L - n + j)]  BY DEF Arguments
<1>5. \A i \in 1 .. L : s[i] \in V
  <2>1. s \in [1 .. Len(s) -> V]  BY <1>2, LenProperties
  <2> QED  BY <1>2, <2>1
<1> HIDE DEF V, s, a
<1>6. a \in [1 .. n -> V] /\ \A j \in 1 .. n : a[j] = s[L - n + j]
  <2>1. \A j \in 1 .. n : ValueAt(c, L - n + j) = s[L - n + j] /\ s[L - n + j] \in V
    BY <1>2, <1>3, <1>5
  <2> QED  BY <1>4, <2>1
<1>7. a \in Seq(V) /\ Len(a) = n  BY <1>1, <1>6
<1>8. k \in Seq(V) /\ Len(k) = n /\ \A j \in 1 .. n : k[j] = s[L - n + j]
  <2>1. \A i \in p .. L : s[i] \in V
    <3>1. \A i \in p .. L : i \in 1 .. L  BY <1>1
    <3> QED  BY <1>5, <3>1
  <2>2. p \in Int /\ L \in Int  BY <1>1
  <2> DEFINE q == p
             M == L
  <2>3. q = L - n + 1 /\ M = L  OBVIOUS
  <2> HIDE DEF q, M
  <2>4. /\ SubSeq(s, q, M) \in Seq(V) /\ Len(SubSeq(s, q, M)) = IF q <= M THEN M - q + 1 ELSE 0
        /\ \A i \in 1 .. M - q + 1 : SubSeq(s, q, M)[i] = s[q + i - 1]
    BY <2>1, <2>2, SubSeqProperties DEF q, M
  <2>5. k = SubSeq(s, q, M)  BY DEF q, M
  <2> HIDE DEF k
  <2>6. M - q + 1 = n /\ (~(q <= M) => n = 0)
    <3> HIDE DEF L
    <3> QED  BY <1>1, <2>3
  <2>7. Len(k) = n  BY <2>4, <2>5, <2>6
  <2>8. \A j \in 1 .. n : k[j] = s[q + j - 1]  BY <2>4, <2>5, <2>6
  <2>9. \A j \in 1 .. n : q + j - 1 = L - n + j  BY <1>3, <2>3
  <2> QED  BY <2>4, <2>5, <2>7, <2>8, <2>9
<1> HIDE DEF k, L
<1>9. \A j \in 1 .. Len(k) : k[j] = a[j]  BY <1>6, <1>8
<1>10. k = a  BY <1>7, <1>8, <1>9, SeqEqual
<1> QED  BY <1>2, <1>10 DEF s, a, k

-----------------------------------------------------------------------------
(* Every handler takes a step of WasmStack. *)

\* No slot ever holds junk.
Holding == Contents(Ctx) \in Seq(Values)

LEMMA FrameIsContents ==
  /\ [i \in DOMAIN stack |-> ValueAt(Ctx, i)] = Contents(Ctx)
  /\ [i \in DOMAIN stack |-> ValueAt(Ctx, i)]' = Contents(Ctx)'
BY DEF Contents, Ctx

LEMMA BecomeContents ==
  ASSUME NEW c, Whole(c), Become(c)
  PROVE  Fits(c) /\ Contents(Ctx)' = Contents(c)
<1>1. Good(c) /\ c \in Context /\ Len(c.stack) <= MaxHeight
  BY DEF Whole, Good, Become, Height
<1>2. Fits(c)  BY <1>1 DEF Fits
<1>3. Ctx' = Settled(c)
  <2>1. Settled(c) = [stack |-> c.stack, used |-> c.used, count |-> c.count, last |-> c.last,
                      spills |-> c.spills, ok |-> c.ok, regs |-> LiveRegs(c), mem |-> LiveMem(c)]
    BY <1>1, SettledSame
  <2> QED  BY <2>1 DEF Become, Ctx
<1>4. Contents(Settled(c)) = Contents(c)  BY <1>2, SettledContents
<1>5. Contents(Ctx)' = Contents(Ctx')  BY DEF Contents
<1> QED  BY <1>2, <1>3, <1>4, <1>5

LEMMA KeptHolds ==
  ASSUME NEW s \in Seq(Values), NEW m \in 0 .. Len(s)
  PROVE  SubSeq(s, 1, m) \in Seq(Values) /\ Len(SubSeq(s, 1, m)) = m
<1>1. s \in [1 .. Len(s) -> Values] /\ Len(s) \in Nat  BY LenProperties
<1>2. \A i \in 1 .. m : s[i] \in Values  BY <1>1
<1>3. /\ SubSeq(s, 1, m) \in Seq(Values)
      /\ Len(SubSeq(s, 1, m)) = IF 1 <= m THEN m - 1 + 1 ELSE 0
  BY <1>1, <1>2, SubSeqProperties
<1>4. (IF 1 <= m THEN m - 1 + 1 ELSE 0) = m  BY <1>1
<1> QED  BY <1>3, <1>4

\* A handler that replaces n slots by the values vs.
LEMMA StepMeans ==
  ASSUME NEW n \in Nat, Found(Ctx, n), Holding, NEW d, Whole(d), NEW vs \in Seq(Values),
         Replaced(Ctx, d, n, vs), Become(d), NEW k, NEW args, Emit(k, args)
  PROVE  Wasm!Step(k, args, n, vs) /\ Holding'
<1> DEFINE s == Contents(Ctx)
           t == Contents(d)
           L == Len(s)
<1>1. /\ Fits(Ctx) /\ Len(Ctx.stack) \in Nat /\ NumLocals \in Nat
      /\ Len(Ctx.stack) >= NumLocals + n
  BY FoundLeft
<1>2. L = Len(Ctx.stack) /\ s \in Seq(Values)  BY <1>1, ContentsShape DEF Holding
<1>3. Fits(d) /\ Contents(Ctx)' = t  BY BecomeContents
<1>4. n \in 0 .. Len(Ctx.stack)  BY <1>1
<1>5. t = SubSeq(s, 1, L - n) \o vs
  <2>1. vs \in Seq(Values \cup {Junk})
    <3>1. vs \in [1 .. Len(vs) -> Values] /\ Len(vs) \in Nat  BY LenProperties
    <3>2. vs \in [1 .. Len(vs) -> Values \cup {Junk}]  BY <3>1
    <3> QED  BY <3>1, <3>2
  <2> QED  BY <1>1, <1>3, <1>4, <2>1, ContentsReplaced
<1>6. Len(d.stack) <= MaxHeight /\ Len(d.stack) = L - n + Len(vs)
  BY <1>2, <1>3, FitsShape DEF Replaced
<1>7. L - NumLocals >= n /\ L - n \in 0 .. L  BY <1>1, <1>2
<1>8. SubSeq(s, 1, L - n) \o vs \in Seq(Values)
  <2>1. SubSeq(s, 1, L - n) \in Seq(Values)
    <3> HIDE DEF s
    <3> QED  BY <1>2, <1>7, KeptHolds
  <2> QED  BY <2>1, ConcatProperties
<1>9. Holding'  BY <1>3, <1>5, <1>8 DEF Holding
<1>10. [i \in DOMAIN stack |-> ValueAt(Ctx, i)] = s
       /\ [i \in DOMAIN stack |-> ValueAt(Ctx, i)]' = t
  BY <1>3, FrameIsContents
<1> HIDE DEF s, t
<1>11. Wasm!Does(k, args)  BY DEF Emit, Wasm!Does, Wasm!Effect
<1>12. Wasm!Operands >= n  BY <1>7, <1>10 DEF Wasm!Operands
<1>13. [i \in DOMAIN stack |-> ValueAt(Ctx, i)]' = Wasm!Keep(n) \o vs
  BY <1>5, <1>10 DEF Wasm!Keep
<1>14. Len([i \in DOMAIN stack |-> ValueAt(Ctx, i)]) - n + Len(vs) <= MaxHeight
  BY <1>6, <1>10
<1> QED  BY <1>9, <1>11, <1>12, <1>13, <1>14 DEF Wasm!Step

\* What WasmStack reads of the stack is what the slots hold.
LEMMA OperandsRead ==
  ASSUME NEW n \in Nat, Found(Ctx, n), Holding
  PROVE  /\ Wasm!Operands >= n /\ Wasm!Operands \in Nat
         /\ Len(Ctx.stack) \in Nat /\ Len(Ctx.stack) >= NumLocals + n /\ NumLocals \in Nat
         /\ Wasm!Args(n) = Arguments(Ctx, n)
         /\ \A i \in 1 .. Len(Ctx.stack) :
              /\ [j \in DOMAIN stack |-> ValueAt(Ctx, j)][i] = ValueAt(Ctx, i)
              /\ ValueAt(Ctx, i) \in Values
         /\ \A k \in 1 .. n : /\ Wasm!Operand(k) = ValueAt(Ctx, Len(Ctx.stack) + 1 - k)
                              /\ Wasm!Operand(k) \in Values
<1> DEFINE s == Contents(Ctx)
           L == Len(Ctx.stack)
<1>1. Fits(Ctx) /\ L \in Nat /\ NumLocals \in Nat /\ L >= NumLocals + n  BY FoundLeft
<1>2. Len(s) = L /\ s \in Seq(Values) /\ \A i \in 1 .. L : s[i] = ValueAt(Ctx, i)
  BY <1>1, ContentsShape DEF Holding
<1>3. [i \in DOMAIN stack |-> ValueAt(Ctx, i)] = s  BY FrameIsContents
<1>4. SubSeq(s, Len(s) - n + 1, Len(s)) = Arguments(Ctx, n)
  <2>1. n \in 0 .. Len(Ctx.stack)  BY <1>1
  <2> QED  BY <1>1, <2>1, ContentsArgs
<1> HIDE DEF s
<1>5. Wasm!Args(n) = Arguments(Ctx, n)  BY <1>3, <1>4 DEF Wasm!Args
<1>6. Wasm!Operands >= n /\ Wasm!Operands \in Nat
  <2>1. Wasm!Operands = L - NumLocals  BY <1>2, <1>3 DEF Wasm!Operands
  <2> QED  BY <1>1, <2>1
<1>7. \A i \in 1 .. L : ValueAt(Ctx, i) \in Values
  <2>1. s \in [1 .. Len(s) -> Values]  BY <1>2, LenProperties
  <2> QED  BY <1>2, <2>1
<1>8. ASSUME NEW k \in 1 .. n
      PROVE  Wasm!Operand(k) = ValueAt(Ctx, L + 1 - k) /\ Wasm!Operand(k) \in Values
  <2>1. L + 1 - k \in 1 .. L  BY <1>1
  <2>2. Wasm!Operand(k) = s[L + 1 - k]  BY <1>2, <1>3 DEF Wasm!Operand
  <2> QED  BY <1>2, <1>7, <2>1, <2>2
<1> QED  BY <1>1, <1>2, <1>3, <1>5, <1>6, <1>7, <1>8

\* local.set and local.tee.
LEMMA SetLocalMeans ==
  ASSUME NEW x \in 1 .. NumLocals, Found(Ctx, 1), Holding, NEW isTee \in BOOLEAN,
         Become(SetLocalImpl(Ctx, x, isTee))
  PROVE  LET m == Len(Contents(Ctx)) - (IF isTee THEN 0 ELSE 1)
         IN  /\ Contents(Ctx)' = [SubSeq(Contents(Ctx), 1, m) EXCEPT
                                    ![x] = Contents(Ctx)[Len(Contents(Ctx))]]
             /\ Holding'
<1> DEFINE s == Contents(Ctx)
           d == SetLocalImpl(Ctx, x, isTee)
           L == Len(Ctx.stack)
           m == L - (IF isTee THEN 0 ELSE 1)
           k == SubSeq(s, 1, m)
           v == s[Len(s)]
<1>1. /\ Fits(Ctx) /\ L \in Nat /\ NumLocals \in Nat /\ L >= NumLocals + 1 /\ Choice({})
  BY FoundLeft, Choices
<1>2. Len(s) = L /\ s \in Seq(Values)  BY <1>1, ContentsShape DEF Holding
<1>3. Whole(d)  BY SetLocalWhole
<1>4. Fits(d) /\ Contents(Ctx)' = Contents(d)  BY <1>3, BecomeContents
<1>5. x \in 1 .. L - 1 /\ m \in 0 .. L /\ x \in 1 .. m
  <2>1. m = L \/ m = L - 1
    <3>1. CASE isTee
      <4>1. m = L - 0  BY <3>1
      <4> HIDE DEF m, L
      <4> QED  BY <1>1, <4>1
    <3>2. CASE ~isTee  BY <3>2
    <3> QED  BY <3>1, <3>2
  <2> HIDE DEF m, L
  <2> QED  BY <1>1, <2>1
<1>6. Len(d.stack) = m /\ Assigned(Ctx, d, x, 1 .. m)
  BY <1>1, <1>5, SetLocalGood, SetLocalAssigned
<1> HIDE DEF d, m
<1>7. Contents(d) = [k EXCEPT ![x] = v]  BY <1>1, <1>2, <1>4, <1>5, <1>6, ContentsAssigned
<1> HIDE DEF s
<1>8. k \in Seq(Values) /\ Len(k) = m  BY <1>2, <1>5, KeptHolds
<1>9. v \in Values
  <2>1. s \in [1 .. Len(s) -> Values]  BY <1>2, LenProperties
  <2>2. Len(s) \in 1 .. Len(s)  BY <1>1, <1>2
  <2> QED  BY <2>1, <2>2
<1> HIDE DEF k, v
<1>10. [k EXCEPT ![x] = v] \in Seq(Values)
  <2>1. x \in 1 .. Len(k)  BY <1>5, <1>8
  <2> QED  BY <1>8, <1>9, <2>1, ExceptSeq
<1>11. Holding'  BY <1>4, <1>7, <1>10 DEF Holding
<1> QED  BY <1>2, <1>4, <1>7, <1>11 DEF s, m, k, v

LEMMA TeeLocalMeans ==
  ASSUME NEW x \in 1 .. NumLocals, Found(Ctx, 1), Holding, TeeLocal(x)
  PROVE  Wasm!TeeLocal(x) /\ Holding'
<1> DEFINE s == Contents(Ctx)
<1>1. /\ Contents(Ctx)' = [SubSeq(s, 1, Len(s) - 0) EXCEPT ![x] = s[Len(s)]] /\ Holding'
  BY SetLocalMeans DEF TeeLocal
<1>2. s \in Seq(Values) /\ Len(s) \in Nat  BY LenProperties DEF Holding
<1>3. SubSeq(s, 1, Len(s) - 0) = s
  <2> HIDE DEF s
  <2> DEFINE k == SubSeq(s, 1, Len(s))
  <2>1. s \in [1 .. Len(s) -> Values]  BY <1>2, LenProperties
  <2>2. Len(s) \in 0 .. Len(s)  BY <1>2
  <2>3. k \in Seq(Values) /\ Len(k) = Len(s)  BY <1>2, <2>2, KeptHolds
  <2>4. \A i \in 1 .. Len(s) - 1 + 1 : k[i] = s[1 + i - 1]
    BY <1>2, <2>1, SubSeqProperties
  <2>5. \A i \in 1 .. Len(s) : i \in 1 .. Len(s) - 1 + 1 /\ 1 + i - 1 = i  BY <1>2
  <2>6. \A i \in 1 .. Len(k) : k[i] = s[i]  BY <2>3, <2>4, <2>5
  <2> HIDE DEF k
  <2>7. k = s  BY <1>2, <2>3, <2>6, SeqEqual
  <2>8. Len(s) - 0 = Len(s)  BY <1>2
  <2> QED  BY <2>7, <2>8 DEF k
<1>4. /\ [i \in DOMAIN stack |-> ValueAt(Ctx, i)] = s
      /\ [i \in DOMAIN stack |-> ValueAt(Ctx, i)]' = [s EXCEPT ![x] = s[Len(s)]]
  BY <1>1, <1>3, FrameIsContents
<1> HIDE DEF s
<1>5. Wasm!Does("tee_local", <<x>>)  BY DEF TeeLocal, Emit, Wasm!Does, Wasm!Effect
<1>6. Wasm!Operands >= 1 /\ Len(s) + 1 - 1 = Len(s)  BY <1>2, OperandsRead
<1>7. Wasm!Operand(1) = s[Len(s)]  BY <1>4, <1>6 DEF Wasm!Operand
<1> QED  BY <1>1, <1>4, <1>5, <1>6, <1>7 DEF Wasm!TeeLocal

LEMMA SetLocalStep ==
  ASSUME NEW x \in 1 .. NumLocals, Found(Ctx, 1), Holding, SetLocal(x)
  PROVE  Wasm!SetLocal(x) /\ Holding'
<1> DEFINE s == Contents(Ctx)
<1>1. /\ Contents(Ctx)' = [SubSeq(s, 1, Len(s) - 1) EXCEPT ![x] = s[Len(s)]] /\ Holding'
  BY SetLocalMeans DEF SetLocal
<1>2. s \in Seq(Values) /\ Len(s) \in Nat  BY LenProperties DEF Holding
<1>3. /\ [i \in DOMAIN stack |-> ValueAt(Ctx, i)] = s
      /\ [i \in DOMAIN stack |-> ValueAt(Ctx, i)]'
           = [SubSeq(s, 1, Len(s) - 1) EXCEPT ![x] = s[Len(s)]]
  BY <1>1, FrameIsContents
<1> HIDE DEF s
<1>4. Wasm!Does("set_local", <<x>>)  BY DEF SetLocal, Emit, Wasm!Does, Wasm!Effect
<1>5. Wasm!Operands >= 1 /\ Len(s) + 1 - 1 = Len(s)  BY <1>2, OperandsRead
<1>6. Wasm!Operand(1) = s[Len(s)] /\ Wasm!Keep(1) = SubSeq(s, 1, Len(s) - 1)
  BY <1>3, <1>5 DEF Wasm!Operand, Wasm!Keep
<1> QED  BY <1>1, <1>3, <1>4, <1>5, <1>6 DEF Wasm!SetLocal

\* One step per handler, a third time.
LEMMA NextMeans ==
  ASSUME IInv, Holding, Next, MaxMemory = 0
  PROVE  Wasm!Next /\ Holding'
<1>0. Found(Ctx, 0)  BY DEF IInv
<1>1. ASSUME NEW n \in Nat, Ready(n) PROVE Found(Ctx, n)
  BY <1>0, <1>1 DEF Found, Ready, Ctx
\* A handler that pushes one value, and one that pushes none.
<1>2. ASSUME NEW n \in Nat, Found(Ctx, n), NEW d, Whole(d), NEW v \in Values,
             Replaced(Ctx, d, n, <<v>>), Become(d), NEW k, NEW args, Emit(k, args)
      PROVE  Wasm!Step(k, args, n, <<v>>) /\ Holding'
  <2> DEFINE vs == <<v>>
  <2>1. vs \in Seq(Values)  OBVIOUS
  <2> HIDE DEF vs
  <2>2. Replaced(Ctx, d, n, vs)  BY <1>2 DEF vs
  <2>3. Wasm!Step(k, args, n, vs) /\ Holding'  BY <1>2, <2>1, <2>2, StepMeans
  <2> QED  BY <2>3 DEF vs
<1>3. ASSUME NEW n \in Nat, Found(Ctx, n), NEW d, Whole(d),
             Replaced(Ctx, d, n, <<>>), Become(d), NEW k, NEW args, Emit(k, args)
      PROVE  Wasm!Step(k, args, n, <<>>) /\ Holding'
  <2> DEFINE vs == <<>>
  <2>1. vs \in Seq(Values)  OBVIOUS
  <2> HIDE DEF vs
  <2>2. Replaced(Ctx, d, n, vs)  BY <1>3 DEF vs
  <2>3. Wasm!Step(k, args, n, vs) /\ Holding'  BY <1>3, <2>1, <2>2, StepMeans
  <2> QED  BY <2>3 DEF vs
<1>4. ASSUME NEW v \in Values, I32Const(v) PROVE Wasm!Produce /\ Holding'
  <2> DEFINE d == PushConst(Ctx, v)
  <2>1. Whole(d) /\ Replaced(Ctx, d, 0, <<v>>)  BY <1>0, PushConstWhole, ConstReplaced
  <2>2. Become(d) /\ Emit("const", <<v>>)  BY <1>4 DEF I32Const
  <2> HIDE DEF d
  <2>3. Wasm!Step("const", <<v>>, 0, <<v>>) /\ Holding'  BY <1>0, <1>2, <2>1, <2>2
  <2> QED  BY <2>3 DEF Wasm!Produce
<1>5. ASSUME NEW v \in Values, MemoryGrow(v) PROVE Wasm!Grow /\ Holding'
  <2> DEFINE d == GrowCode(Ctx, v)
  <2>1. Found(Ctx, 1)  BY <1>1, <1>5 DEF MemoryGrow
  <2>2. Whole(d) /\ Replaced(Ctx, d, 1, <<v>>)  BY <2>1, GrowCodeWhole, GrowCodeReplaced
  <2>3. Become(d) /\ Emit("grow", <<v>>)  BY <1>5 DEF MemoryGrow
  <2> HIDE DEF d
  <2>4. Wasm!Step("grow", <<v>>, 1, <<v>>) /\ Holding'  BY <1>2, <2>1, <2>2, <2>3
  <2> QED  BY <2>4 DEF Wasm!Grow
<1>6. ASSUME NEW v \in Values, LoadValue(v) PROVE Wasm!Produce /\ Holding'
  <2> DEFINE d == LoadedValue(Ctx, v)
  <2>1. Whole(d) /\ Replaced(Ctx, d, 0, <<v>>)  BY <1>0, LoadedValueWhole, LoadedValueReplaced
  <2>2. Become(d) /\ Emit("const", <<v>>)  BY <1>6 DEF LoadValue
  <2> HIDE DEF d
  <2>3. Wasm!Step("const", <<v>>, 0, <<v>>) /\ Holding'  BY <1>0, <1>2, <2>1, <2>2
  <2> QED  BY <2>3 DEF Wasm!Produce
<1>7. ASSUME NEW x \in 1 .. NumLocals, GetLocal(x) PROVE Wasm!GetLocal(x) /\ Holding'
  <2> DEFINE d == CopyLocal(Ctx, x)
             v == ValueAt(Ctx, x)
  <2>1. Whole(d) /\ Replaced(Ctx, d, 0, <<v>>)  BY <1>0, CopyLocalWhole, CopyLocalReplaced
  <2>2. Become(d) /\ Emit("get_local", <<x>>)  BY <1>7 DEF GetLocal
  <2>3. v \in Values /\ [j \in DOMAIN stack |-> ValueAt(Ctx, j)][x] = v
    <3>1. Len(Ctx.stack) \in Nat /\ Len(Ctx.stack) >= NumLocals + 0 /\ NumLocals \in Nat
      BY <1>0, OperandsRead
    <3>2. x \in 1 .. Len(Ctx.stack)  BY <3>1
    <3> QED  BY <1>0, <3>2, OperandsRead
  <2> HIDE DEF d, v
  <2>4. Wasm!Step("get_local", <<x>>, 0, <<v>>) /\ Holding'  BY <1>0, <1>2, <2>1, <2>2, <2>3
  <2> QED  BY <2>3, <2>4 DEF Wasm!GetLocal
<1>8. ASSUME NEW x \in 1 .. NumLocals, SetLocal(x) PROVE Wasm!SetLocal(x) /\ Holding'
  <2>1. Found(Ctx, 1)  BY <1>1, <1>8 DEF SetLocal
  <2> QED  BY <1>8, <2>1, SetLocalStep
<1>9. ASSUME NEW x \in 1 .. NumLocals, TeeLocal(x) PROVE Wasm!TeeLocal(x) /\ Holding'
  <2>1. Found(Ctx, 1)  BY <1>1, <1>9 DEF TeeLocal
  <2> QED  BY <1>9, <2>1, TeeLocalMeans
<1>10. ASSUME Drop PROVE Wasm!Drop /\ Holding'
  <2> DEFINE d == DropTop(Ctx)
  <2>1. Found(Ctx, 1)  BY <1>1, <1>10 DEF Drop
  <2>2. Whole(d) /\ Replaced(Ctx, d, 1, <<>>)  BY <2>1, DropTopWhole, DropTopReplaced
  <2>3. Become(d) /\ Emit("drop", <<>>)  BY <1>10 DEF Drop
  <2> HIDE DEF d
  <2>4. Wasm!Step("drop", <<>>, 1, <<>>) /\ Holding'  BY <1>3, <2>1, <2>2, <2>3
  <2> QED  BY <2>4 DEF Wasm!Drop
\* Two opcodes with one meaning: the operand is replaced by the result.
<1>11. ASSUME Ready(1), NEW d, Whole(d), Become(d), Emit("unary", <<>>),
              Replaced(Ctx, d, 1, <<Unary(ValueAt(Ctx, Len(Ctx.stack)))>>)
       PROVE  Wasm!Unary /\ Holding'
  <2> DEFINE o == ValueAt(Ctx, Len(Ctx.stack))
             v == UnaryOp[o]
  <2>1. Found(Ctx, 1)  BY <1>1, <1>11
  <2>2. o \in Values /\ Wasm!Operand(1) = o /\ Wasm!Operands >= 1
    <3>1. /\ Wasm!Operand(1) = ValueAt(Ctx, Len(Ctx.stack) + 1 - 1)
          /\ Wasm!Operand(1) \in Values /\ Wasm!Operands >= 1 /\ Len(Ctx.stack) \in Nat
      <4>1. 1 \in Nat /\ 1 \in 1 .. 1  OBVIOUS
      <4> QED  BY <2>1, <4>1, OperandsRead
    <3>2. Len(Ctx.stack) + 1 - 1 = Len(Ctx.stack)  BY <3>1
    <3> QED  BY <3>1, <3>2
  <2> HIDE DEF o
  <2>3. Unary(o) = v /\ v \in Values  BY <2>2, ValueStackAssumption DEF Unary
  <2>4. Replaced(Ctx, d, 1, <<v>>)  BY <1>11, <2>3 DEF o
  <2> HIDE DEF v
  <2>5. Wasm!Step("unary", <<>>, 1, <<v>>) /\ Holding'  BY <1>2, <1>11, <2>1, <2>3, <2>4
  <2> QED  BY <2>2, <2>5 DEF Wasm!Unary, v
<1>12. ASSUME UnOp PROVE Wasm!Unary /\ Holding'
  <2> DEFINE d == UnaryCode(Ctx)
  <2>1. Found(Ctx, 1)  BY <1>1, <1>12 DEF UnOp
  <2>2. Whole(d) /\ Replaced(Ctx, d, 1, <<Unary(ValueAt(Ctx, Len(Ctx.stack)))>>)
    BY <2>1, UnaryCodeWhole, UnaryCodeReplaced
  <2>3. Ready(1) /\ Become(d) /\ Emit("unary", <<>>)  BY <1>12 DEF UnOp
  <2> HIDE DEF d
  <2> QED  BY <1>11, <2>2, <2>3
<1>13. ASSUME LoadMem PROVE Wasm!Unary /\ Holding'
  <2> DEFINE d == LoadCode(Ctx)
  <2>1. Found(Ctx, 1)  BY <1>1, <1>13 DEF LoadMem
  <2>2. Whole(d) /\ Replaced(Ctx, d, 1, <<Unary(ValueAt(Ctx, Len(Ctx.stack)))>>)
    BY <2>1, LoadCodeWhole, LoadCodeReplaced
  <2>3. Ready(1) /\ Become(d) /\ Emit("unary", <<>>)  BY <1>13 DEF LoadMem
  <2> HIDE DEF d
  <2> QED  BY <1>11, <2>2, <2>3
\* What the three kinds of binary opcodes share.
<1>14. ASSUME Ready(2), NEW d, Whole(d), Become(d), Emit("binary", <<>>),
              Replaced(Ctx, d, 2, <<Binary(ValueAt(Ctx, Len(Ctx.stack) - 1),
                                           ValueAt(Ctx, Len(Ctx.stack)))>>)
       PROVE  Wasm!Binary /\ Holding'
  <2> DEFINE o == ValueAt(Ctx, Len(Ctx.stack))
             p == ValueAt(Ctx, Len(Ctx.stack) - 1)
             v == BinaryOp[<<p, o>>]
  <2>1. Found(Ctx, 2)  BY <1>1, <1>14
  <2>2. /\ o \in Values /\ p \in Values /\ Wasm!Operand(1) = o /\ Wasm!Operand(2) = p
        /\ Wasm!Operands >= 2
    <3>1. /\ Wasm!Operand(1) = ValueAt(Ctx, Len(Ctx.stack) + 1 - 1) /\ Wasm!Operand(1) \in Values
          /\ Wasm!Operand(2) = ValueAt(Ctx, Len(Ctx.stack) + 1 - 2) /\ Wasm!Operand(2) \in Values
          /\ Wasm!Operands >= 2 /\ Len(Ctx.stack) \in Nat
      <4>1. 2 \in Nat /\ 1 \in 1 .. 2 /\ 2 \in 1 .. 2  OBVIOUS
      <4> QED  BY <2>1, <4>1, OperandsRead
    <3>2. Len(Ctx.stack) + 1 - 1 = Len(Ctx.stack) /\ Len(Ctx.stack) + 1 - 2 = Len(Ctx.stack) - 1
      BY <3>1
    <3> QED  BY <3>1, <3>2
  <2> HIDE DEF o, p
  <2>3. Binary(p, o) = v /\ v \in Values  BY <2>2, ValueStackAssumption DEF Binary
  <2>4. Replaced(Ctx, d, 2, <<v>>)  BY <1>14, <2>3 DEF o, p
  <2> HIDE DEF v
  <2>5. Wasm!Step("binary", <<>>, 2, <<v>>) /\ Holding'  BY <1>2, <1>14, <2>1, <2>3, <2>4
  <2> QED  BY <2>2, <2>5 DEF Wasm!Binary, v
<1>15. ASSUME Ready(2)
       PROVE  /\ Good(Ctx) /\ InHand(Ctx, PopOperands(Ctx)) /\ Operands(PopOperands(Ctx))
  <2>1. Found(Ctx, 2)  BY <1>1, <1>15
  <2> QED  BY <2>1, FoundHeights, PopOperandsInHand, PopOperandsFound DEF Operands
<1>16. ASSUME BinOp PROVE Wasm!Binary /\ Holding'
  <2> DEFINE o == PopOperands(Ctx)
             d == BinaryCode(o)
  <2>1. Ready(2) /\ Become(d) /\ Emit("binary", <<>>)  BY <1>16 DEF BinOp
  <2>2. Good(Ctx) /\ InHand(Ctx, o) /\ Operands(o)  BY <1>15, <2>1
  <2> HIDE DEF o
  <2>3. Whole(d) /\ Replaced(Ctx, d, 2, <<Binary(ValueAt(Ctx, Len(Ctx.stack) - 1),
                                                ValueAt(Ctx, Len(Ctx.stack)))>>)
    BY <2>2, BinaryCodeWhole, BinaryCodeReplaced
  <2> HIDE DEF d
  <2> QED  BY <1>14, <2>1, <2>3
<1>17. ASSUME ShiftOp PROVE Wasm!Binary /\ Holding'
  <2> DEFINE o == PopOperands(Ctx)
             d == ShiftCode(o)
  <2>1. Ready(2) /\ Become(d) /\ Emit("binary", <<>>)  BY <1>17 DEF ShiftOp
  <2>2. Good(Ctx) /\ InHand(Ctx, o) /\ Operands(o)  BY <1>15, <2>1
  <2> HIDE DEF o
  <2>3. Whole(d) /\ Replaced(Ctx, d, 2, <<Binary(ValueAt(Ctx, Len(Ctx.stack) - 1),
                                                ValueAt(Ctx, Len(Ctx.stack)))>>)
    BY <2>2, ShiftCodeWhole, ShiftCodeReplaced
  <2> HIDE DEF d
  <2> QED  BY <1>14, <2>1, <2>3
<1>18. ASSUME NEW result \in {RAX, RDX}, DivOp(result) PROVE Wasm!Binary /\ Holding'
  <2> DEFINE o == PopOperands(Ctx)
             d == DivisionCode(o, result)
  <2>1. Ready(2) /\ Become(d) /\ Emit("binary", <<>>)  BY <1>18 DEF DivOp
  <2>2. Good(Ctx) /\ InHand(Ctx, o) /\ Operands(o)  BY <1>15, <2>1
  <2> HIDE DEF o
  <2>3. Whole(d) /\ Replaced(Ctx, d, 2, <<Binary(ValueAt(Ctx, Len(Ctx.stack) - 1),
                                                ValueAt(Ctx, Len(Ctx.stack)))>>)
    BY <2>2, DivisionCodeWhole, DivisionCodeReplaced
  <2> HIDE DEF d
  <2> QED  BY <1>14, <2>1, <2>3
<1>19. ASSUME Select PROVE Wasm!Select /\ Holding'
  <2> DEFINE d == SelectCode(Ctx)
             o == ValueAt(Ctx, Len(Ctx.stack))
             p == ValueAt(Ctx, Len(Ctx.stack) - 1)
             q == ValueAt(Ctx, Len(Ctx.stack) - 2)
             v == IF o # 0 THEN q ELSE p
  <2>1. Found(Ctx, 3) /\ Become(d) /\ Emit("select", <<>>)  BY <1>1, <1>19 DEF Select
  <2>2. Whole(d) /\ Replaced(Ctx, d, 3, <<v>>)  BY <2>1, SelectCodeWhole, SelectCodeReplaced
  <2> HIDE DEF d
  <2>3. /\ p \in Values /\ q \in Values /\ Wasm!Operands >= 3
        /\ Wasm!Operand(1) = o /\ Wasm!Operand(2) = p /\ Wasm!Operand(3) = q
    <3>1. /\ Wasm!Operand(1) = ValueAt(Ctx, Len(Ctx.stack) + 1 - 1)
          /\ Wasm!Operand(2) = ValueAt(Ctx, Len(Ctx.stack) + 1 - 2) /\ Wasm!Operand(2) \in Values
          /\ Wasm!Operand(3) = ValueAt(Ctx, Len(Ctx.stack) + 1 - 3) /\ Wasm!Operand(3) \in Values
          /\ Wasm!Operands >= 3 /\ Len(Ctx.stack) \in Nat
      <4>1. 3 \in Nat /\ 1 \in 1 .. 3 /\ 2 \in 1 .. 3 /\ 3 \in 1 .. 3  OBVIOUS
      <4> QED  BY <2>1, <4>1, OperandsRead
    <3>2. /\ Len(Ctx.stack) + 1 - 1 = Len(Ctx.stack) /\ Len(Ctx.stack) + 1 - 2 = Len(Ctx.stack) - 1
          /\ Len(Ctx.stack) + 1 - 3 = Len(Ctx.stack) - 2
      BY <3>1
    <3> QED  BY <3>1, <3>2
  <2> HIDE DEF o, p, q
  <2>4. v \in Values  BY <2>3
  <2> HIDE DEF v
  <2>5. Wasm!Step("select", <<>>, 3, <<v>>) /\ Holding'  BY <1>2, <2>1, <2>2, <2>4
  <2> QED  BY <2>3, <2>5 DEF Wasm!Select, v
<1>20. ASSUME StoreMem PROVE Wasm!Store /\ Holding'
  <2> DEFINE d == StoreOperands(Ctx).c
             args == StoreOperands(Ctx).args
             L == Len(Ctx.stack)
  <2>1. Found(Ctx, 2) /\ Become(d) /\ Emit("store", args)  BY <1>1, <1>20 DEF StoreMem
  <2>2. Whole(d) /\ Left(Ctx, d, 2) /\ args = <<ValueAt(Ctx, L - 1), ValueAt(Ctx, L)>>
    BY <2>1, StoreOperandsWhole, StoreOperandsLeft
  <2> HIDE DEF d, args
  <2>3. Replaced(Ctx, d, 2, <<>>)  BY <2>2, LeftReplaced
  <2>4. args = Wasm!Args(2)
    <3>1. Wasm!Args(2) = Arguments(Ctx, 2) /\ L \in Nat  BY <2>1, OperandsRead
    <3>2. Arguments(Ctx, 2) = <<ValueAt(Ctx, L - 2 + 1), ValueAt(Ctx, L - 2 + 2)>>
      BY DEF Arguments
    <3>3. L - 2 + 1 = L - 1 /\ L - 2 + 2 = L  BY <3>1
    <3> HIDE DEF L
    <3> QED  BY <2>2, <3>1, <3>2, <3>3
  <2>5. Wasm!Step("store", args, 2, <<>>) /\ Holding'  BY <1>3, <2>1, <2>2, <2>3
  <2> QED  BY <2>4, <2>5 DEF Wasm!Store
<1>21. ASSUME SetGlobal PROVE Wasm!SetGlobal /\ Holding'
  <2> DEFINE p == PopToRegister(Ctx, {})
             d == p.c
             args == <<d.regs[p.reg]>>
             L == Len(Ctx.stack)
  <2>1. Found(Ctx, 1) /\ Become(d) /\ Emit("global", args)  BY <1>1, <1>21 DEF SetGlobal
  <2>2. Whole(d)
    <3>1. Found(PopToRegister(Ctx, {}).c, 0)  BY <2>1, Choices, PopEach
    <3> HIDE DEF p
    <3>2. Found(d, 0)  BY <3>1 DEF p
    <3> QED  BY <3>2, FoundWhole
  <2>3. Left(Ctx, d, 1) /\ args = <<ValueAt(Ctx, L)>>
    <3>1. Fits(Ctx) /\ L > 0  BY <2>1, FoundLeft
    <3> QED  BY <3>1, PopFirst
  <2> HIDE DEF d, args
  <2>4. Replaced(Ctx, d, 1, <<>>)  BY <2>3, LeftReplaced
  <2>5. args = Wasm!Args(1)
    <3>1. Wasm!Args(1) = Arguments(Ctx, 1) /\ L \in Nat  BY <2>1, OperandsRead
    <3>2. Arguments(Ctx, 1) = <<ValueAt(Ctx, L - 1 + 1)>>  BY DEF Arguments
    <3>3. L - 1 + 1 = L  BY <3>1
    <3> HIDE DEF L
    <3> QED  BY <2>3, <3>1, <3>2, <3>3
  <2>6. Wasm!Step("global", args, 1, <<>>) /\ Holding'  BY <1>3, <2>1, <2>2, <2>4
  <2> QED  BY <2>5, <2>6 DEF Wasm!SetGlobal
<1>22. ASSUME EnterLoop PROVE Wasm!Loop /\ Holding'
  <2> DEFINE d == SpillLocals(Ctx, NumLocals)
  <2>1. Whole(d) /\ Replaced(Ctx, d, 0, <<>>)  BY <1>0, SpillLocalsWhole, SpillLocalsReplaced
  <2>2. Become(d) /\ Emit("loop", <<>>)  BY <1>22 DEF EnterLoop
  <2> HIDE DEF d
  <2>3. Wasm!Step("loop", <<>>, 0, <<>>) /\ Holding'  BY <1>0, <1>3, <2>1, <2>2
  <2> QED  BY <2>3 DEF Wasm!Loop
<1>23. \A result \in Results : result \in Seq(Values) /\ result \in Wasm!Results
  <2> SUFFICES ASSUME NEW result \in Results
               PROVE  result \in Seq(Values) /\ result \in Wasm!Results
    OBVIOUS
  <2>1. result \in Wasm!Results  BY DEF Results, Wasm!Results
  <2>2. CASE result = <<>>  BY <2>1, <2>2
  <2>3. ASSUME NEW v \in Values, result = <<v>> PROVE result \in Seq(Values)
    BY <2>3
  <2> QED  BY <2>1, <2>2, <2>3 DEF Results
<1>24. ASSUME NEW n \in 0 .. MaxParams, NEW result \in Results, CallDirect(n, result)
       PROVE  Wasm!Call /\ Holding'
  <2> DEFINE d == Finish(DirectCall(Ctx, n).c, n, result)
             args == DirectCall(Ctx, n).args
  <2>0. n \in Nat  BY ValueStackAssumption
  <2>1. Found(Ctx, n) /\ Become(d) /\ Emit("call", <<args, result>>)
    BY <1>1, <1>24, <2>0 DEF CallDirect
  <2>2. Whole(d) /\ Replaced(Ctx, d, n, result) /\ args = Arguments(Ctx, n)
    BY <2>0, <2>1, DirectCallWhole, DirectCallReplaced
  <2> HIDE DEF d, args
  <2>3. args = Wasm!Args(n) /\ Wasm!Operands >= n  BY <2>0, <2>1, <2>2, OperandsRead
  <2>4. Wasm!Step("call", <<args, result>>, n, result) /\ Holding'
    BY <1>23, <2>0, <2>1, <2>2, StepMeans
  <2> QED  BY <1>23, <2>3, <2>4 DEF Wasm!Call
<1>25. ASSUME NEW n \in 0 .. MaxParams, NEW result \in Results, CallIndirect(n, result)
       PROVE  Wasm!CallIndirect /\ Holding'
  <2> DEFINE index == TableIndex(Ctx)
             entry == TableEntry(index)
             call  == IndirectCall(entry, n)
             d     == Finish(call.c, n, result)
             args  == call.args
             v     == ValueAt(Ctx, Len(Ctx.stack))
             k     == n + 1
  <2>0. n \in Nat /\ k \in Nat  BY ValueStackAssumption
  <2>1. /\ HasTable /\ Found(Ctx, k) /\ Become(d) /\ Emit("indirect", <<args, result>>)
    BY <1>1, <1>25, <2>0 DEF CallIndirect
  <2>2. Loaded(Ctx, index.c, 1, index.reg, v)  BY <2>0, <2>1, TableIndexLoaded
  <2>3. Found(index.c, n) /\ index.reg \in Regs \ Reserved  BY <2>0, <2>1, TableIndexFound
  <2> HIDE DEF index
  <2>4. /\ Left(Ctx, entry.c, 1) /\ Fits(entry.c) /\ entry.reg \in Regs
        /\ entry.c.regs[entry.reg] = v
    BY <2>1, <2>2, TableEntryLoaded
  <2>5. Found(entry.c, n)  BY <2>0, <2>1, <2>3, TableEntryFound
  <2> HIDE DEF entry
  <2>6. Whole(d)  BY <2>0, <2>4, <2>5, IndirectCallWhole
  <2>7. Replaced(Ctx, d, k, result) /\ args = Arguments(Ctx, k)
    <3>1. Good(Ctx) /\ n + 1 <= Len(Ctx.stack)  BY <2>0, <2>1, FoundLeft
    <3> QED  BY <2>0, <2>4, <3>1, IndirectCallReplaced
  <2> HIDE DEF d, args
  <2>8. args = Wasm!Args(k) /\ Wasm!Operands > n
    <3> HIDE DEF k
    <3>1. args = Wasm!Args(k) /\ Wasm!Operands >= k /\ Wasm!Operands \in Nat
      BY <2>0, <2>1, <2>7, OperandsRead
    <3>2. k > n /\ \A m \in Nat : m >= k => m > n  BY <2>0 DEF k
    <3> QED  BY <3>1, <3>2
  <2>9. Wasm!Step("indirect", <<args, result>>, k, result) /\ Holding'
    BY <1>23, <2>0, <2>1, <2>6, <2>7, StepMeans
  <2> QED  BY <1>23, <2>8, <2>9 DEF Wasm!CallIndirect
<1>26. Immediates \subseteq Values  BY ValueStackAssumption
<1> QED
  BY <1>4, <1>5, <1>6, <1>7, <1>8, <1>9, <1>10, <1>12, <1>13, <1>16, <1>17, <1>18, <1>19,
     <1>20, <1>21, <1>22, <1>24, <1>25, <1>26 DEF Next, Wasm!Next

\* The parameters arrive in their registers and the other locals hold zero.
LEMMA InitMeans ==
  ASSUME Init, ~FirstFunction
  PROVE  Wasm!Init /\ Holding
<1>0. /\ NumLocals \in Nat /\ NumParams \in 0 .. NumLocals /\ NumParams <= Len(ParamRegs)
      /\ ParamRegs \in Seq(Regs \ Reserved) /\ 0 \in Values
      /\ stack = [i \in 1 .. NumLocals |-> EntrySlot(i)]
  BY ValueStackAssumption, RegsAssumption DEF Init
<1>1. PICK v \in [1 .. NumParams -> Values] :
        regs = [r \in Regs |-> IF \E i \in 1 .. NumParams : ParamRegs[i] = r
                               THEN v[CHOOSE i \in 1 .. NumParams : ParamRegs[i] = r] ELSE Junk]
  BY DEF Init
<1>2. ASSUME NEW i \in 1 .. NumLocals PROVE ValueAt(Ctx, i) \in Values
  <2>0. Ctx.stack[i] = EntrySlot(i) /\ Ctx.regs = regs  BY <1>0 DEF Ctx
  <2>1. CASE i <= NumParams
    <3> DEFINE r == ParamRegs[i]
    <3>1. r \in Regs /\ i \in 1 .. NumParams  BY <1>0, <2>1
    <3>2. (CHOOSE j \in 1 .. NumParams : ParamRegs[j] = r) \in 1 .. NumParams  BY <3>1
    <3>3. regs[r] = v[CHOOSE j \in 1 .. NumParams : ParamRegs[j] = r]  BY <1>1, <3>1
    <3>4. EntrySlot(i).loc = "reg" /\ EntrySlot(i).reg = r  BY <2>1 DEF EntrySlot, RegSlot
    <3>5. ValueAt(Ctx, i) = regs[r]  BY <2>0, <3>4 DEF ValueAt
    <3> QED  BY <3>2, <3>3, <3>5
  <2>2. CASE ~(i <= NumParams)
    <3>1. EntrySlot(i).loc = "const" /\ EntrySlot(i).val = 0  BY <2>2 DEF EntrySlot, ConstSlot
    <3>2. ValueAt(Ctx, i) = 0  BY <2>0, <3>1 DEF ValueAt
    <3> QED  BY <1>0, <3>2
  <2> QED  BY <2>1, <2>2
<1>3. DOMAIN stack = 1 .. NumLocals  BY <1>0
<1>4. [i \in DOMAIN stack |-> ValueAt(Ctx, i)] \in [1 .. NumLocals -> Values]  BY <1>2, <1>3
<1>5. Holding
  <2>1. Contents(Ctx) \in [1 .. NumLocals -> Values]  BY <1>4, FrameIsContents
  <2> QED  BY <1>0, <2>1 DEF Holding
<1>6. effect = Wasm!Effect("none", <<>>)  BY DEF Init, Wasm!Effect
<1> QED  BY <1>4, <1>5, <1>6 DEF Wasm!Init

LEMMA StutterMeans ==
  ASSUME Holding, UNCHANGED vars
  PROVE  Holding' /\ UNCHANGED Wasm!vars
<1>1. Ctx' = Ctx /\ effect' = effect /\ stack' = stack
  BY DEF vars, cache, Ctx
<1>2. Contents(Ctx)' = Contents(Ctx)  BY <1>1 DEF Contents, ValueAt
<1>3. Holding'  BY <1>2 DEF Holding
<1>4. UNCHANGED [i \in DOMAIN stack |-> ValueAt(Ctx, i)]  BY <1>2, FrameIsContents
<1> QED  BY <1>1, <1>3, <1>4 DEF Wasm!vars

-----------------------------------------------------------------------------
(* Theorems. *)

\* The strengthening of the properties below: it holds at the entry of
\* every function but the first, and every handler keeps it.
THEOREM Inductive == ASSUME ~FirstFunction PROVE Spec => []IInv
<1>1. Init => IInv
  <2> SUFFICES ASSUME Init PROVE IInv  OBVIOUS
  <2>1. effect.kind = "none"  BY DEF Init
  <2> QED  BY <2>1, InitFound DEF IInv, Opcodes
<1>2. IInv /\ [Next]_vars => IInv'  BY NextFound, StutterFound
<1> QED  BY <1>1, <1>2, PTL DEF Spec

\* The cache state is well formed after every handler.
THEOREM TypeCorrect == ASSUME ~FirstFunction PROVE Spec => []TypeOK
<1>1. IInv => TypeOK
  <2> SUFFICES ASSUME IInv PROVE TypeOK  OBVIOUS
  <2>1. Found(Ctx, 0) /\ Ctx.stack = stack  BY DEF IInv, Ctx
  <2>2. /\ Ctx \in Context /\ Len(stack) \in Nat /\ Len(stack) >= NumLocals
        /\ Len(stack) <= MaxHeight /\ NumLocals \in Nat /\ MaxHeight \in Nat
    BY <2>1, FoundHeights
  <2> QED  BY <2>2 DEF TypeOK, IInv
<1> QED  BY <1>1, Inductive, PTL

\* register_use_count and used_registers say what the cache stack says, so
\* dec_used never frees a register that is held and spill_register finds
\* every slot of the register it frees.
THEOREM CountsAreExact == ASSUME ~FirstFunction PROVE Spec => []CountsExact
<1>1. IInv => CountsExact
  BY DEF IInv, Found, Good, Exact, CountsExact, Ctx
<1> QED  BY <1>1, Inductive, PTL

\* No local and no operand is ever kept in a reserved register.
THEOREM ReservedAreFree == ASSUME ~FirstFunction PROVE Spec => []ReservedStayFree
<1>1. IInv => ReservedStayFree
  BY DEF IInv, Found, Good, Homes, ReservedStayFree, Ctx
<1> QED  BY <1>1, Inductive, PTL

\* No slot in the frame lies beyond what the prologue reserves.
THEOREM FrameIsCovered == ASSUME ~FirstFunction PROVE Spec => []FrameCoversSlots
<1>1. IInv => FrameCoversSlots
  BY DEF IInv, Found, Good, Covered, FrameCoversSlots, Ctx
<1> QED  BY <1>1, Inductive, PTL

\* The only assert a function can fail is the one of Move on the copy that
\* call_indirect makes of its table index, and only while every register is in
\* use: then the copy is made to the register of the index itself.
THEOREM OnlyIndexCopyFails == ASSUME ~FirstFunction PROVE Spec => [][AssertStep]_vars
<1>1. IInv /\ [Next]_vars => [AssertStep]_vars  BY NextOk
<1> QED  BY <1>1, Inductive, PTL DEF Spec

\* In a module without a table no assert of the allocator or of Move ever
\* fails, whatever the function, its locals and the registers of the machine.
THEOREM AssertsDoHold == ASSUME ~FirstFunction, ~HasTable PROVE Spec => []AssertsHold
<1>1. Init => AssertsHold  BY DEF Init, AssertsHold
<1>2. IInv /\ AssertsHold /\ [Next]_vars => AssertsHold'
  <2> SUFFICES ASSUME IInv, AssertsHold, [Next]_vars PROVE AssertsHold'
    OBVIOUS
  <2>1. CASE Next  BY <2>1, NextOk DEF AssertStep, AssertsHold
  <2>2. CASE UNCHANGED vars  BY <2>2 DEF vars, cache, AssertsHold
  <2> QED  BY <2>1, <2>2
<1> QED  BY <1>1, <1>2, Inductive, PTL DEF Spec

\* Every behaviour of the allocator on one function is a behaviour of the
\* WebAssembly value stack: whatever registers, spill slots and constants hold
\* the locals and the operands, the values found there are the ones WebAssembly
\* computes, and every instruction emitted works on them.  The hypotheses are
\* the two cases that the code treats wrongly: while it compiles the first
\* function the reserved registers are free to be allocated, and memory.grow
\* on a memory with a maximum leaves an operand too many.
THEOREM CodeImplementsWasm ==
  ASSUME ~FirstFunction, MaxMemory = 0
  PROVE  Spec => ImplementsWasm
<1>1. Init => IInv /\ Wasm!Init /\ Holding
  <2> SUFFICES ASSUME Init PROVE IInv /\ Wasm!Init /\ Holding  OBVIOUS
  <2>1. effect.kind = "none"  BY DEF Init
  <2>2. IInv  BY <2>1, InitFound DEF IInv, Opcodes
  <2> QED  BY <2>2, InitMeans
<1>2. IInv /\ Holding /\ [Next]_vars => Holding' /\ [Wasm!Next]_(Wasm!vars)
  <2> SUFFICES ASSUME IInv, Holding, [Next]_vars
               PROVE  Holding' /\ [Wasm!Next]_(Wasm!vars)
    OBVIOUS
  <2>1. CASE Next  BY <2>1, NextMeans
  <2>2. CASE UNCHANGED vars  BY <2>2, StutterMeans
  <2> QED  BY <2>1, <2>2
<1> QED  BY <1>1, <1>2, Inductive, PTL DEF Spec, ImplementsWasm, Wasm!Spec

=============================================================================
