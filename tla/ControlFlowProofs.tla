-------------------------- MODULE ControlFlowProofs --------------------------
(***************************************************************************)
(* Structured control flow, for every number of locals, registers, blocks  *)
(* and every nesting: the cache states the compiler may come back to are   *)
(* well formed, and no assert of a merge or of a return fails where code   *)
(* runs.                                                                   *)
(*                                                                         *)
(* The invariant, IInv, has four parts.  The compiler's state is good      *)
(* (Fits).  So is every state kept for a label or an else arm, and it is   *)
(* as high as its block asks for (Blocks).  The validator's height is the  *)
(* compiler's where code runs (Level).  And the states that may meet at a  *)
(* label have their slots in places a merge can reconcile (Agreeing).      *)
(*                                                                         *)
(* The values follow from the same invariant: a merge leaves in the slots  *)
(* of a label what WebAssembly takes there (MergeContents), so that every  *)
(* opcode is a step of WasmControl (PathsImplementWasm).                   *)
(***************************************************************************)
EXTENDS ControlFlow, RegisterCacheProofs, FunctionTheorems

-----------------------------------------------------------------------------
(* What ControlFlow takes from ValueStack. *)

\* The context of ValueStack is the record of the variables.
LEMMA CodeCtx ==
  Ctx = [stack |-> stack, used |-> used, count |-> count, last |-> last,
         spills |-> spills, ok |-> ok, regs |-> regs, mem |-> mem]
BY DEF Ctx, Code!Ctx

\* The operators of ValueStack on contexts are those of RegisterCache.
LEMMA CodeLive ==
  ASSUME NEW c
  PROVE  Code!LiveRegs(c) = LiveRegs(c) /\ Code!LiveMem(c) = LiveMem(c) /\ Code!Height(c) = Height(c)
BY DEF Code!LiveRegs, Code!LiveMem, Code!Holders, Code!Height, Code!Frame, Code!Junk,
       LiveRegs, LiveMem, Holders, Height, Frame, Junk

\* A handler leaves the context it computes, less the contents nobody may read.
LEMMA Becomes ==
  ASSUME NEW c \in Context, Code!Become(c)
  PROVE  Ctx' = Settled(c) /\ Len(c.stack) <= MaxHeight
<1>1. Ctx' = [stack |-> stack', used |-> used', count |-> count', last |-> last',
              spills |-> spills', ok |-> ok', regs |-> regs', mem |-> mem']
  BY DEF Ctx, Code!Ctx
<1>2. /\ Height(c) <= MaxHeight
      /\ stack' = c.stack /\ used' = c.used /\ count' = c.count /\ last' = c.last
      /\ spills' = c.spills /\ ok' = c.ok
      /\ regs' = LiveRegs(c) /\ mem' = LiveMem(c)
  BY CodeLive DEF Code!Become
<1>3. Settled(c) = [stack |-> c.stack, used |-> c.used, count |-> c.count, last |-> c.last,
                    spills |-> c.spills, ok |-> c.ok, regs |-> LiveRegs(c), mem |-> LiveMem(c)]
  BY SettledSame
<1> QED  BY <1>1, <1>2, <1>3 DEF Height

LEMMA CodeCardinality ==
  ASSUME NEW S
  PROVE  Code!Cardinality(S) = Cardinality(S)
BY DEF Code!Cardinality, Cardinality

\* The parts of the context most steps look at.
LEMMA CtxFields ==
  /\ Ctx.stack = stack /\ Ctx.spills = spills /\ Ctx.ok = ok
BY CodeCtx

LEMMA CtxFieldsNext ==
  /\ Ctx'.stack = stack' /\ Ctx'.spills = spills' /\ Ctx'.ok = ok'
BY DEF Ctx, Code!Ctx

\* There is always a register to hand out when at most one is pinned.
LEMMA OneMoreRegister ==
  ASSUME NEW p
  PROVE  Choice({}) /\ Choice({p})
<1> DEFINE A == Regs \ Reserved
<1>1. IsFiniteSet(A) /\ Cardinality(A) >= 2 /\ Cardinality(A) \in Nat
  <2>1. IsFiniteSet(A)  BY RegsAssumption, FS_Difference
  <2>2. Cardinality(A) \in Nat  BY <2>1, FS_CardinalityType
  <2> QED  BY <2>1, <2>2, ControlFlowAssumption
<1> HIDE DEF A
<1>2. IsFiniteSet({p}) /\ Cardinality({p}) = 1  BY FS_Singleton
<1>3. ~(A \subseteq {p})
  <2> SUFFICES ASSUME A \subseteq {p} PROVE FALSE  OBVIOUS
  <2>1. Cardinality(A) <= Cardinality({p})  BY <1>2, FS_Subset
  <2> QED  BY <1>1, <1>2, <2>1
<1> QED  BY <1>3 DEF A, Choice

-----------------------------------------------------------------------------
(* States that are kept. *)

\* A state in the frame of n slots: what Good says of the compiler's own.
Sound(c, n) == c \in Context /\ Exact(c) /\ Homes(c)
               /\ \A i \in DOMAIN c.stack : c.stack[i].loc = "stack" => i <= n

\* Good is Sound, with the frame the context itself has.
LEMMA SoundIsGood ==
  ASSUME NEW c
  PROVE  Good(c) <=> Sound(c, c.spills)
BY DEF Good, Sound, Covered

\* The frame only grows.
LEMMA SoundLater ==
  ASSUME NEW c, NEW m \in Nat, NEW n \in Nat, Sound(c, m), m <= n
  PROVE  Sound(c, n)
<1>1. c \in Context /\ \A i \in DOMAIN c.stack : i \in Nat  BY ContextShape DEF Sound
<1>2. \A i \in DOMAIN c.stack : i <= m => i <= n  BY <1>1
<1> QED  BY <1>2 DEF Sound

\* Soundness is about the cache, not about the contents.
LEMMA SoundSame ==
  ASSUME NEW c, NEW n, Sound(c, n), NEW d \in Context,
         d.stack = c.stack, d.used = c.used, d.count = c.count
  PROVE  Sound(d, n)
<1>1. \A r \in Regs : Holders(d, r) = Holders(c, r)  BY DEF Holders
<1>2. Exact(d) /\ Homes(d)  BY <1>1 DEF Sound, Exact, Homes
<1> QED  BY <1>2 DEF Sound

\* The state of a label that no path has reached yet.
LEMMA FreshSound ==
  /\ FreshState \in Context /\ FreshState.stack = <<>> /\ FreshState.ok
  /\ FreshState.used = Reserved /\ FreshState.count = [r \in Regs |-> 0]
  /\ FreshState.spills = 0
  /\ \A n : Sound(FreshState, n)
<1>1. FreshState \in Context
  <2>1. <<>> \in Seq(Slot)  OBVIOUS
  <2> QED  BY <2>1, RegsAssumption DEF FreshState, Context, NoRegs, NoFrame
<1>2. /\ FreshState.stack = <<>> /\ FreshState.ok /\ FreshState.used = Reserved
      /\ FreshState.count = [r \in Regs |-> 0] /\ FreshState.spills = 0
  BY DEF FreshState
<1>3. DOMAIN FreshState.stack = {}  BY <1>2
<1>4. \A r \in Regs : Holders(FreshState, r) = {}  BY <1>3 DEF Holders
<1>5. Exact(FreshState)
  <2>1. Cardinality({}) = 0  BY FS_EmptySet
  <2>2. \A r \in Regs : FreshState.count[r] = 0  BY <1>2
  <2>3. FreshState.used = Reserved  BY <1>2
  <2> SUFFICES ASSUME NEW r \in Regs
               PROVE  /\ FreshState.count[r] = Cardinality(Holders(FreshState, r))
                      /\ r \in FreshState.used <=> (r \in Reserved \/ FreshState.count[r] > 0)
    BY DEF Exact
  <2>4. FreshState.count[r] = 0 /\ Cardinality(Holders(FreshState, r)) = 0
    BY <1>4, <2>1, <2>2
  <2> QED  BY <2>3, <2>4
<1> QED  BY <1>1, <1>2, <1>3, <1>5 DEF Sound, Homes

\* What is kept of a state when a block begins or a path reaches a label.
LEMMA KeptSound ==
  ASSUME NEW c \in Context
  PROVE  /\ Kept(c) \in Context /\ Kept(c).ok /\ Kept(c).stack = c.stack
         /\ Kept(c).used = c.used /\ Kept(c).count = c.count /\ Kept(c).mem = LiveMem(c)
         /\ \A n : Sound(c, n) => Sound(Kept(c), n)
<1> DEFINE g == LiveRegs(c)
           w == LiveMem(c)
           d == [c EXCEPT !.spills = 0, !.ok = TRUE, !.regs = g, !.mem = w]
<1>1. g \in [Regs -> Values \cup {Junk}] /\ w \in [Frame -> Values \cup {Junk}]
  BY ContextShape DEF LiveRegs, LiveMem
<1>2. Kept(c) = d  BY DEF Kept
<1> HIDE DEF g, w
<1>3. /\ d \in Context /\ d.ok /\ d.stack = c.stack /\ d.used = c.used /\ d.count = c.count
      /\ d.mem = w
  BY <1>1 DEF Context
<1> QED  BY <1>2, <1>3, SoundSame DEF w

\* What the machine held is forgotten: where no path goes on, or back to a loop.
LEMMA ForgottenSound ==
  ASSUME NEW c \in Context
  PROVE  /\ [c EXCEPT !.regs = NoRegs, !.mem = NoFrame] \in Context
         /\ Same(c, [c EXCEPT !.regs = NoRegs, !.mem = NoFrame])
         /\ [c EXCEPT !.regs = NoRegs, !.mem = NoFrame].ok = c.ok
         /\ [c EXCEPT !.regs = NoRegs, !.mem = NoFrame].mem = NoFrame
BY DEF Context, Same, NoRegs, NoFrame

\* steal_state: the state of a label in the frame of the compiler.
LEMMA RestoreSound ==
  ASSUME NEW c \in Context, NEW s, Sound(s, c.spills)
  PROVE  /\ Good(Restore(c, s)) /\ Restore(c, s).stack = s.stack /\ Restore(c, s).ok = c.ok
         /\ Restore(c, s).spills = c.spills /\ Restore(c, s).mem = s.mem
<1>1. s \in Context  BY DEF Sound
<1>2. /\ Restore(c, s) \in Context /\ Restore(c, s).stack = s.stack /\ Restore(c, s).ok = c.ok
      /\ Restore(c, s).spills = c.spills /\ Restore(c, s).mem = s.mem
      /\ Restore(c, s).used = s.used /\ Restore(c, s).count = s.count
  <2>1. c.spills \in Nat /\ c.ok \in BOOLEAN  BY ContextShape
  <2> QED  BY <1>1, <2>1 DEF Restore, Context
<1>3. Sound(Restore(c, s), c.spills)  BY <1>2, SoundSame
<1> QED  BY <1>2, <1>3, SoundIsGood

-----------------------------------------------------------------------------
(* What a handler leaves of the slots I that it does not name. *)

\* The constants are the same; slots share a register only if they did; slots
\* of one source are slots of one source still, wherever that is now.
Follows(c, d, I) ==
  /\ \A i \in I : c.stack[i].loc = "const" \/ d.stack[i].loc = "const"
                    => d.stack[i] = c.stack[i]
  /\ \A i, j \in I : d.stack[i].loc = "reg" /\ d.stack[i] = d.stack[j]
                       => c.stack[i].loc = "reg" /\ c.stack[i] = c.stack[j]
  /\ \A i, j \in I : SameSource(c, i, j) => SameSource(d, i, j)

\* ... and the frame only grows.
Later(c, d, I) == c.spills <= d.spills /\ Follows(c, d, I)

\* Follows and Later compose, and hold of fewer slots.
LEMMA FollowsTransitive ==
  ASSUME NEW c, NEW d, NEW e, NEW I, Follows(c, d, I), Follows(d, e, I)
  PROVE  Follows(c, e, I)
BY DEF Follows

LEMMA FollowsFewer ==
  ASSUME NEW c, NEW d, NEW I, Follows(c, d, I), NEW J \in SUBSET I
  PROVE  Follows(c, d, J)
BY DEF Follows

LEMMA LaterTransitive ==
  ASSUME NEW c \in Context, NEW d \in Context, NEW e \in Context, NEW I,
         Later(c, d, I), Later(d, e, I)
  PROVE  Later(c, e, I)
<1>1. c.spills <= e.spills  BY ContextShape DEF Later
<1> QED  BY <1>1, FollowsTransitive DEF Later

\* Slots that are left as they are follow.
LEMMA UntouchedFollows ==
  ASSUME NEW c, NEW d, NEW I, \A i \in I : d.stack[i] = c.stack[i] /\ d.mem[i] = c.mem[i]
  PROVE  Follows(c, d, I)
BY DEF Follows, SameSource

\* A part of what is emitted that touches neither the slots nor the frame.
LEMMA SameFollows ==
  ASSUME NEW c \in Context, NEW d, NEW I, d.stack = c.stack, d.mem = c.mem, d.spills = c.spills
  PROVE  Later(c, d, I)
<1>1. c.spills <= c.spills  BY ContextShape
<1> QED  BY <1>1, UntouchedFollows DEF Later

\* Forgetting dead contents of the frame.
LEMMA SettledFollows ==
  ASSUME NEW c \in Context, NEW I \in SUBSET Frame, I \subseteq DOMAIN c.stack, NEW d,
         d.stack = c.stack, d.mem = LiveMem(c) \/ d.mem = NoFrame
  PROVE  Follows(c, d, I)
<1>1. \A i, j \in I : c.mem[i] = c.mem[j] /\ c.stack[i].loc = "stack" /\ c.stack[j].loc = "stack"
                        => d.mem[i] = d.mem[j]
  BY DEF LiveMem, NoFrame
<1> QED  BY <1>1 DEF Follows, SameSource

\* Each handler leaves what it does not touch where it was, or moves it to its home.
LEMMA SpillLater ==
  ASSUME NEW c, Fits(c), NEW r \in Regs, NEW I \in SUBSET (DOMAIN c.stack)
  PROVE  Later(c, SpillRegister(c, r), I)
<1> DEFINE d == SpillRegister(c, r)
           H == Holders(c, r)
<1>0. /\ Good(c) /\ DOMAIN c.stack = 1 .. Len(c.stack) /\ Len(c.stack) \in Nat
      /\ Len(c.stack) <= MaxHeight /\ MaxHeight \in Nat
  BY FitsShape
<1>1. /\ c.spills <= d.spills
      /\ \A i \in I : d.stack[i] = IF i \in H THEN StackSlot ELSE c.stack[i]
      /\ \A i \in Frame : d.mem[i] = IF i \in H THEN c.regs[r] ELSE c.mem[i]
  BY <1>0, SpillRegisterShape
<1>2. \A i \in I : i \in H <=> c.stack[i].loc = "reg" /\ c.stack[i].reg = r
  BY DEF Holders
<1>3. I \subseteq Frame  BY <1>0 DEF Frame
<1>4. StackSlot.loc = "stack"  BY DEF StackSlot
<1> HIDE DEF d, H
<1>5. ASSUME NEW i \in I, c.stack[i].loc = "const" \/ d.stack[i].loc = "const"
      PROVE  d.stack[i] = c.stack[i]
  BY <1>1, <1>2, <1>4, <1>5
<1>6. ASSUME NEW i \in I, NEW j \in I, d.stack[i].loc = "reg", d.stack[i] = d.stack[j]
      PROVE  c.stack[i].loc = "reg" /\ c.stack[i] = c.stack[j]
  BY <1>1, <1>4, <1>6
<1>7. ASSUME NEW i \in I, NEW j \in I, SameSource(c, i, j)
      PROVE  SameSource(d, i, j)
  <2>1. d.mem[i] = (IF i \in H THEN c.regs[r] ELSE c.mem[i])
        /\ d.mem[j] = (IF j \in H THEN c.regs[r] ELSE c.mem[j])
    BY <1>1, <1>3
  <2>2. CASE c.stack[i].loc = "stack"
    <3>1. c.stack[j].loc = "stack" /\ c.mem[i] = c.mem[j]  BY <1>7, <2>2 DEF SameSource
    <3> QED  BY <1>1, <1>2, <2>1, <2>2, <3>1 DEF SameSource
  <2>3. CASE c.stack[i].loc # "stack"
    <3>1. c.stack[i].loc = "reg" /\ c.stack[i] = c.stack[j]  BY <1>7, <2>3 DEF SameSource
    <3>2. i \in H <=> j \in H  BY <1>2, <3>1
    <3> QED  BY <1>1, <1>4, <2>1, <3>1, <3>2 DEF SameSource
  <2> QED  BY <2>2, <2>3
<1> QED  BY <1>1, <1>5, <1>6, <1>7 DEF Later, Follows, d

\* Nothing but a spill happens when a register is chosen.
LEMMA GetUnusedLater ==
  ASSUME NEW c, Fits(c), NEW pinned, Choice(pinned), NEW I \in SUBSET (DOMAIN c.stack)
  PROVE  Later(c, GetUnused(c, {}, pinned).c, I)
<1> DEFINE P == \A q \in {} : (\A x \in {} \ c.used : q <= x) => Consistent(c, q)
           a == Assert(c, P)
           m == MarkSpilled(a, pinned)
           r == NextSpillReg(a, pinned)
<1>0. c \in Context /\ Good(c) /\ Len(c.stack) <= MaxHeight  BY FitsShape
<1>1. GetUnused(c, {}, pinned) = GetUnusedRegister(a, pinned)  BY DEF GetUnused
<1>2. P \in BOOLEAN  OBVIOUS
<1> HIDE DEF P
<1>3. a \in Context /\ Good(a) /\ a.stack = c.stack /\ a.mem = c.mem /\ a.spills = c.spills
  BY <1>0, <1>2, AssertGood, AssertMem DEF Good
<1> HIDE DEF a
<1>4. Good(m) /\ m \in Context /\ m.stack = a.stack /\ m.mem = a.mem /\ m.spills = a.spills
  BY <1>3, MarkSpilledGood, MarkSpilledMem DEF Good
<1>5. r \in Regs  BY NextSpillRegAllowed
<1>6. \/ GetUnusedRegister(a, pinned).c = a
      \/ GetUnusedRegister(a, pinned).c = SpillRegister(m, r)
  <2>1. Unpinned(pinned) # {}  BY DEF Choice, Unpinned
  <2> QED  BY <2>1 DEF GetUnusedRegister, SpillOneRegister, With
<1> HIDE DEF m, r
<1>7. Later(c, a, I)  BY <1>0, <1>3, SameFollows
<1>8. Later(c, m, I)  BY <1>0, <1>3, <1>4, SameFollows
<1>9. Later(m, SpillRegister(m, r), I)
  <2>1. Fits(m)  BY <1>0, <1>3, <1>4 DEF Fits
  <2> QED  BY <1>3, <1>4, <1>5, <2>1, SpillLater
<1>10. SpillRegister(m, r) \in Context
  BY <1>0, <1>3, <1>4, <1>5, SpillRegisterGood DEF Good
<1> QED  BY <1>0, <1>1, <1>4, <1>6, <1>7, <1>8, <1>9, <1>10, LaterTransitive

\* A push leaves the slots below alone.
LEMMA PushLater ==
  ASSUME NEW c \in Context, NEW s \in Slot, NEW I \in SUBSET (DOMAIN c.stack)
  PROVE  Later(c, Push(c, s), I)
<1>1. /\ DOMAIN c.stack = 1 .. Len(c.stack)
      /\ \A i \in 1 .. Len(c.stack) : Push(c, s).stack[i] = c.stack[i]
      /\ Push(c, s).spills = c.spills /\ c.spills <= c.spills /\ Push(c, s).mem = c.mem
  BY ContextShape, Pushed, PushMem
<1> QED  BY <1>1, UntouchedFollows DEF Later

LEMMA PushRegisterLater ==
  ASSUME NEW c \in Context, NEW r \in Regs, NEW I \in SUBSET (DOMAIN c.stack)
  PROVE  Later(c, PushRegister(c, r), I) /\ PushRegister(c, r) \in Context
<1> DEFINE d == IncUsed(c, r)
<1>1. d \in Context /\ d.stack = c.stack /\ d.mem = c.mem /\ d.spills = c.spills
  BY IncUsedShape, IncUsedMem
<1>2. Later(c, d, I)  BY <1>1, SameFollows
<1>3. PushRegister(c, r) = Push(d, RegSlot(r))  BY DEF PushRegister
<1> HIDE DEF d
<1>4. RegSlot(r) \in Slot  BY SlotsAreSlots
<1>5. Later(d, Push(d, RegSlot(r)), I) /\ Push(d, RegSlot(r)) \in Context
  BY <1>1, <1>4, PushLater, Pushed
<1> QED  BY <1>1, <1>2, <1>3, <1>5, LaterTransitive

\* So does a pop.
LEMMA PopLater ==
  ASSUME NEW c \in Context, Len(c.stack) > 0, NEW I \in SUBSET (1 .. Len(c.stack) - 1)
  PROVE  Later(c, Pop(c), I)
<1>1. /\ \A i \in 1 .. Len(c.stack) - 1 : Pop(c).stack[i] = c.stack[i]
      /\ Pop(c).spills = c.spills /\ c.spills <= c.spills /\ Pop(c).mem = c.mem
  BY ContextShape, Popped
<1> QED  BY <1>1, UntouchedFollows DEF Later

LEMMA PopToRegisterLater ==
  ASSUME NEW c, Fits(c), Len(c.stack) > 0, NEW pinned, Choice(pinned),
         NEW I \in SUBSET (1 .. Len(c.stack) - 1)
  PROVE  Later(c, PopToRegister(c, pinned).c, I)
<1>0. /\ c \in Context /\ Good(c) /\ Len(c.stack) \in Nat /\ Len(c.stack) <= MaxHeight
      /\ MaxHeight \in Nat
  BY FitsShape
<1>1. /\ Pop(c) \in Context /\ Later(c, Pop(c), I) /\ DOMAIN Pop(c).stack = 1 .. Len(c.stack) - 1
      /\ Len(Pop(c).stack) = Len(c.stack) - 1
  BY <1>0, PopLater, Popped
<1>2. CASE Top(c).loc = "reg"
  <2> DEFINE d == DecUsed(Pop(c), Top(c).reg)
  <2>1. PopToRegister(c, pinned).c = d  BY <1>2, PoppedFromRegister
  <2>2. d \in Context /\ d.stack = Pop(c).stack /\ d.mem = Pop(c).mem /\ d.spills = Pop(c).spills
    BY <1>0, <1>1, <1>2, DecUsedOfPop, DecUsedMem
  <2>3. Later(Pop(c), d, I)  BY <1>1, <2>2, SameFollows
  <2> QED  BY <1>0, <1>1, <2>1, <2>2, <2>3, LaterTransitive
<1>3. CASE Top(c).loc # "reg"
  <2> DEFINE u == GetUnused(Pop(c), {}, pinned)
             d == PopToRegister(c, pinned).c
  <2>1. Fits(Pop(c))  BY <1>0, <1>1, <1>3, PopPlainGood DEF Fits
  <2>2. u.c \in Context /\ Good(u.c) /\ u.reg \in Regs
    BY <2>1, FitsShape, GetUnusedGood DEF Good
  <2>3. Later(Pop(c), u.c, I)  BY <1>1, <2>1, GetUnusedLater
  <2>4. u.reg # NoReg  BY <2>2, RegsAssumption DEF NoReg
  <2>5. \/ d = LoadConstant(u.c, u.reg, Top(c).val)
        \/ d = Fill(u.c, u.reg, Height(c))
    BY <1>3, <2>4, PoppedFromFrame
  <2>6. d \in Context  BY <1>0, PopToRegisterGood DEF Good
  <2> HIDE DEF u
  <2>7. d.stack = u.c.stack /\ d.mem = u.c.mem /\ d.spills = u.c.spills
    BY <2>2, <2>5, SetRegMem DEF LoadConstant, Fill
  <2> HIDE DEF d
  <2>8. Later(u.c, d, I)  BY <2>2, <2>7, SameFollows
  <2>9. Later(c, u.c, I)  BY <1>0, <1>1, <2>2, <2>3, LaterTransitive
  <2> QED  BY <1>0, <2>2, <2>6, <2>8, <2>9, LaterTransitive DEF d
<1> QED  BY <1>2, <1>3

LEMMA DropTopLater ==
  ASSUME NEW c, Good(c), Len(c.stack) > 0, NEW I \in SUBSET (1 .. Len(c.stack) - 1)
  PROVE  Later(c, DropTop(c), I)
<1> DEFINE d == IF Top(c).loc = "reg" THEN DecUsed(c, Top(c).reg) ELSE c
<1>0. c \in Context /\ Len(c.stack) \in DOMAIN c.stack  BY ContextShape DEF Good
<1>1. d \in Context /\ d.stack = c.stack /\ d.mem = c.mem /\ d.spills = c.spills
  BY <1>0, DecUsedShape, DecUsedMem DEF Top
<1>2. DropTop(c) = Pop(d)  BY DEF DropTop
<1> HIDE DEF d
<1>3. Later(c, d, I)  BY <1>0, <1>1, SameFollows
<1>4. Later(d, Pop(d), I) /\ Pop(d) \in Context  BY <1>1, PopLater, Popped
<1> QED  BY <1>0, <1>1, <1>2, <1>3, <1>4, LaterTransitive

LEMMA LoadedValueLater ==
  ASSUME NEW c, Fits(c), Choice({}), NEW v \in Values, NEW I \in SUBSET (DOMAIN c.stack)
  PROVE  Later(c, LoadedValue(c, v), I)
<1> DEFINE u == GetUnused(c, {}, {})
           f == SetReg(u.c, u.reg, v)
<1>0. c \in Context /\ DOMAIN c.stack = 1 .. Len(c.stack)  BY FitsShape
<1>1. /\ u.c \in Context /\ u.reg \in Regs /\ Later(c, u.c, I)
      /\ DOMAIN u.c.stack = DOMAIN c.stack
  BY <1>0, UnusedFits, FitsShape, GetUnusedLater
<1>2. LoadedValue(c, v) = PushRegister(f, u.reg)  BY DEF LoadedValue
<1> HIDE DEF u
<1>3. /\ f \in Context /\ f.stack = u.c.stack /\ f.mem = u.c.mem /\ f.spills = u.c.spills
  BY <1>1, SetRegSame, SetRegMem DEF Same
<1> HIDE DEF f
<1>4. Later(u.c, f, I)  BY <1>1, <1>3, SameFollows
<1>5. Later(f, PushRegister(f, u.reg), I) /\ PushRegister(f, u.reg) \in Context
  BY <1>1, <1>3, PushRegisterLater
<1>6. Later(c, f, I)  BY <1>0, <1>1, <1>3, <1>4, LaterTransitive
<1> QED  BY <1>0, <1>2, <1>3, <1>5, <1>6, LaterTransitive

LEMMA CopyLocalLater ==
  ASSUME NEW c, Fits(c), Choice({}), NEW x \in DOMAIN c.stack, NEW I \in SUBSET (DOMAIN c.stack)
  PROVE  Later(c, CopyLocal(c, x), I)
<1> DEFINE slot == c.stack[x]
           u == GetUnused(c, {}, {})
           f == Fill(u.c, u.reg, x)
<1>0. c \in Context /\ DOMAIN c.stack = 1 .. Len(c.stack) /\ slot \in Slot
  BY FitsShape, ContextShape
<1>1. CASE slot.loc = "reg"
  <2>1. slot.reg \in Regs  BY <1>0, <1>1, SlotShape
  <2>2. CopyLocal(c, x) = PushRegister(c, slot.reg)  BY <1>1 DEF CopyLocal
  <2> QED  BY <1>0, <2>1, <2>2, PushRegisterLater
<1>2. CASE slot.loc = "const"
  <2>1. ConstSlot(slot.val) \in Slot  BY <1>0, SlotShape, SlotsAreSlots
  <2>2. CopyLocal(c, x) = Push(c, ConstSlot(slot.val))  BY <1>2 DEF CopyLocal, PushConst
  <2> QED  BY <1>0, <2>1, <2>2, PushLater
<1>3. CASE slot.loc \notin {"reg", "const"}
  <2>1. /\ u.c \in Context /\ u.reg \in Regs /\ Later(c, u.c, I)
        /\ DOMAIN u.c.stack = DOMAIN c.stack
    BY <1>0, UnusedFits, FitsShape, GetUnusedLater
  <2>2. CopyLocal(c, x) = PushRegister(f, u.reg)  BY <1>3 DEF CopyLocal
  <2>3. x \in Frame  BY <1>0, FitsShape DEF Frame
  <2> HIDE DEF u
  <2>4. /\ f \in Context /\ f.stack = u.c.stack /\ f.mem = u.c.mem /\ f.spills = u.c.spills
    BY <2>1, <2>3, FillSame, SetRegMem DEF Same, Fill
  <2> HIDE DEF f
  <2>5. Later(u.c, f, I)  BY <2>1, <2>4, SameFollows
  <2>6. Later(f, PushRegister(f, u.reg), I) /\ PushRegister(f, u.reg) \in Context
    BY <2>1, <2>4, PushRegisterLater
  <2>7. Later(c, f, I)  BY <1>0, <2>1, <2>4, <2>5, LaterTransitive
  <2> QED  BY <1>0, <2>2, <2>4, <2>6, <2>7, LaterTransitive
<1> QED  BY <1>1, <1>2, <1>3

\* Overwriting a slot leaves the others alone.
LEMMA SetSlotLater ==
  ASSUME NEW c \in Context, NEW x \in DOMAIN c.stack, NEW s \in Slot,
         NEW I \in SUBSET (DOMAIN c.stack), x \notin I
  PROVE  Later(c, SetSlot(c, x, s), I) /\ SetSlot(c, x, s) \in Context
<1>1. /\ \A i \in I : SetSlot(c, x, s).stack[i] = c.stack[i]
      /\ SetSlot(c, x, s).spills = c.spills /\ c.spills <= c.spills
      /\ SetSlot(c, x, s).mem = c.mem /\ SetSlot(c, x, s) \in Context
  BY ContextShape, SetSlotShape, SetSlotMem
<1> QED  BY <1>1, UntouchedFollows DEF Later

\* A slot gives up its register and is overwritten.
LEMMA VacateLater ==
  ASSUME NEW c, Good(c), NEW x \in DOMAIN c.stack, NEW s \in Slot,
         NEW I \in SUBSET (DOMAIN c.stack), x \notin I
  PROVE  LET freed == IF c.stack[x].loc = "reg" THEN DecUsed(c, c.stack[x].reg) ELSE c
         IN  Later(c, SetSlot(freed, x, s), I) /\ SetSlot(freed, x, s) \in Context
<1> DEFINE freed == IF c.stack[x].loc = "reg" THEN DecUsed(c, c.stack[x].reg) ELSE c
<1>0. c \in Context  BY DEF Good
<1>1. freed \in Context /\ freed.stack = c.stack /\ freed.mem = c.mem /\ freed.spills = c.spills
  BY <1>0, DecUsedShape, DecUsedMem
<1> HIDE DEF freed
<1>2. Later(c, freed, I)  BY <1>0, <1>1, SameFollows
<1>3. Later(freed, SetSlot(freed, x, s), I) /\ SetSlot(freed, x, s) \in Context
  BY <1>1, SetSlotLater
<1>4. Later(c, SetSlot(freed, x, s), I) /\ SetSlot(freed, x, s) \in Context
  BY <1>0, <1>1, <1>2, <1>3, LaterTransitive
<1> QED  BY <1>4 DEF freed

LEMMA SetFromFrameLater ==
  ASSUME NEW c, Fits(c), Choice({}), NEW x \in 1 .. Len(c.stack) - 1, Top(c).loc = "stack",
         NEW I \in SUBSET (DOMAIN c.stack), x \notin I
  PROVE  Later(c, SetFromFrame(c, x), I)
<1> DEFINE slot  == c.stack[x]
           freed == IF slot.loc = "reg" THEN SetSlot(DecUsed(c, slot.reg), x, StackSlot) ELSE c
           u     == GetUnused(freed, {}, {})
           f     == Fill(u.c, u.reg, Height(c))
           g     == IncUsed(f, u.reg)
<1>0. /\ c \in Context /\ Good(c) /\ Height(c) \in Frame /\ x \in DOMAIN c.stack
      /\ DOMAIN c.stack = 1 .. Len(c.stack) /\ Len(c.stack) <= MaxHeight
  BY LocalBelowTop DEF Height
<1>1. SetFromFrame(c, x) = IF slot.loc = "reg" /\ c.count[slot.reg] = 1
                           THEN Fill(c, slot.reg, Height(c)) ELSE SetSlot(g, x, RegSlot(u.reg))
  BY DEF SetFromFrame
<1>2. Later(c, Fill(c, slot.reg, Height(c)), I)
  BY <1>0, SetRegMem, SameFollows DEF Fill
<1>3. Later(c, SetSlot(g, x, RegSlot(u.reg)), I)
  <2>1. Good(freed) /\ Len(freed.stack) = Len(c.stack)  BY FreedForFrame
  <2>2. Later(c, freed, I)
    <3>1. StackSlot \in Slot  BY SlotsAreSlots
    <3>2. CASE slot.loc = "reg"
      BY <1>0, <3>1, <3>2, VacateLater
    <3>3. CASE slot.loc # "reg"
      <4>1. freed = c  BY <3>3
      <4> QED  BY <1>0, <4>1, SameFollows
    <3> QED  BY <3>2, <3>3
  <2> HIDE DEF freed, slot
  <2>3. Fits(freed) /\ freed \in Context /\ DOMAIN freed.stack = DOMAIN c.stack
    BY <1>0, <2>1, ContextShape DEF Fits, Good
  <2>4. /\ u.c \in Context /\ u.reg \in Regs /\ Later(freed, u.c, I)
        /\ DOMAIN u.c.stack = DOMAIN c.stack
    <3>1. I \in SUBSET (DOMAIN freed.stack)  BY <2>3
    <3>2. Later(freed, u.c, I)  BY <2>3, <3>1, GetUnusedLater
    <3>3. Fits(u.c) /\ u.reg \in Regs /\ Len(u.c.stack) = Len(freed.stack)
      BY <2>3, UnusedFits
    <3>4. u.c \in Context /\ DOMAIN u.c.stack = 1 .. Len(u.c.stack)  BY <3>3, FitsShape
    <3> QED  BY <1>0, <2>1, <3>2, <3>3, <3>4
  <2> HIDE DEF u
  <2>5. f \in Context /\ f.stack = u.c.stack /\ f.mem = u.c.mem /\ f.spills = u.c.spills
    BY <1>0, <2>4, FillSame, SetRegMem DEF Same, Fill
  <2> HIDE DEF f
  <2>6. g \in Context /\ g.stack = u.c.stack /\ g.mem = u.c.mem /\ g.spills = u.c.spills
    BY <2>4, <2>5, IncUsedShape, IncUsedMem
  <2> HIDE DEF g
  <2>7. RegSlot(u.reg) \in Slot  BY <2>4, SlotsAreSlots
  <2>8. Later(u.c, g, I)  BY <2>4, <2>6, SameFollows
  <2>9. Later(g, SetSlot(g, x, RegSlot(u.reg)), I) /\ SetSlot(g, x, RegSlot(u.reg)) \in Context
    BY <1>0, <2>4, <2>6, <2>7, SetSlotLater
  <2>10. Later(c, u.c, I)  BY <1>0, <2>2, <2>3, <2>4, LaterTransitive
  <2>11. Later(c, g, I)  BY <1>0, <2>4, <2>6, <2>8, <2>10, LaterTransitive
  <2> QED  BY <1>0, <2>6, <2>9, <2>11, LaterTransitive
<1> QED  BY <1>1, <1>2, <1>3

LEMMA SetLocalLater ==
  ASSUME NEW c, Fits(c), Choice({}), NEW x \in 1 .. Len(c.stack) - 1,
         NEW I \in SUBSET (1 .. Len(c.stack) - 1), x \notin I
  PROVE  Later(c, SetLocalImpl(c, x, FALSE), I)
<1> DEFINE src   == Top(c)
           freed == IF c.stack[x].loc = "reg" THEN DecUsed(c, c.stack[x].reg) ELSE c
           moved == SetSlot(freed, x, src)
           set   == IF src.loc = "stack" THEN SetFromFrame(c, x) ELSE moved
<1>0. /\ c \in Context /\ Good(c) /\ x \in DOMAIN c.stack /\ DOMAIN c.stack = 1 .. Len(c.stack)
      /\ Len(c.stack) \in Nat /\ Len(c.stack) > 0 /\ src \in Slot
  BY LocalBelowTop
<1>1. SetLocalImpl(c, x, FALSE) = Pop(set)  BY DEF SetLocalImpl
<1>2. set \in Context /\ Len(set.stack) = Len(c.stack) /\ Later(c, set, I)
  <2>1. I \subseteq DOMAIN c.stack  BY <1>0
  <2>2. CASE src.loc = "stack"
    <3>1. Good(SetFromFrame(c, x)) /\ Len(SetFromFrame(c, x).stack) = Len(c.stack)
      BY <2>2, SetFromFrameGood
    <3>2. Later(c, SetFromFrame(c, x), I)  BY <2>1, <2>2, SetFromFrameLater
    <3> QED  BY <2>2, <3>1, <3>2 DEF Good
  <2>3. CASE src.loc # "stack"
    <3>1. freed \in Context /\ freed.stack = c.stack  BY <1>0, FreedOk
    <3>2. Len(moved.stack) = Len(freed.stack) /\ moved \in Context
      <4> HIDE DEF freed, src
      <4>1. x \in DOMAIN freed.stack  BY <1>0, <3>1
      <4> QED  BY <1>0, <3>1, <4>1, SetSlotShape
    <3>3. Later(c, moved, I)  BY <1>0, <2>1, VacateLater
    <3> QED  BY <2>3, <3>1, <3>2, <3>3
  <2> QED  BY <2>2, <2>3
<1> HIDE DEF set
<1>3. Later(set, Pop(set), I) /\ Pop(set) \in Context  BY <1>0, <1>2, PopLater, Popped
<1> QED  BY <1>0, <1>1, <1>2, <1>3, LaterTransitive

\* A slot in the frame says no more than that.
LEMMA InFrameIsStackSlot ==
  ASSUME NEW s \in Slot, s.loc = "stack"
  PROVE  s = StackSlot
BY DEF Slot, RegSlot, ConstSlot

\* spill_locals puts every local in the frame and leaves the operands alone.
LEMMA SpillLocalsShape ==
  ASSUME NEW c, Fits(c), NEW n \in 0 .. Len(c.stack)
  PROVE  /\ c.spills <= SpillLocals(c, n).spills
         /\ \A i \in DOMAIN c.stack :
              SpillLocals(c, n).stack[i] = IF i <= n THEN StackSlot ELSE c.stack[i]
         /\ \A i \in Frame : i > n => SpillLocals(c, n).mem[i] = c.mem[i]
<1> DEFINE I == {i \in 1 .. n : c.stack[i].loc # "stack"}
           e == StoreSlots(c, I)
           d == SpillLocals(c, n)
<1>0. /\ c \in Context /\ DOMAIN c.stack = 1 .. Len(c.stack) /\ Len(c.stack) \in Nat
      /\ Len(c.stack) <= MaxHeight /\ c.spills \in Nat /\ I \subseteq DOMAIN c.stack
  BY FitsShape, ContextShape
<1>1. /\ e \in Context /\ e.spills >= c.spills
      /\ \A i \in DOMAIN c.stack : e.stack[i] = IF i \in I THEN StackSlot ELSE c.stack[i]
  BY <1>0, StoredSlots
<1>2. e.mem = [i \in Frame |-> IF i \in I THEN ValueAt(c, i) ELSE c.mem[i]]
  BY <1>0, StoredMem
<1> DEFINE held(r) == Cardinality(Holders(c, r) \cap (1 .. n))
           m == [r \in Regs |-> IF held(r) <= c.count[r] THEN c.count[r] - held(r) ELSE 0]
           u == {r \in c.used : held(r) = 0 \/ c.count[r] > held(r)}
           o == c.ok /\ \A r \in Regs : held(r) > 0 => r \in c.used /\ c.count[r] >= held(r)
<1>3. d = [e EXCEPT !.count = m, !.used = u, !.ok = o]  BY DEF SpillLocals
<1>4. d.stack = e.stack /\ d.mem = e.mem /\ d.spills = e.spills
  <2> HIDE DEF e, d, m, u, o
  <2> QED  BY <1>1, <1>3 DEF Context
<1> HIDE DEF held, m, u, o
<1>5. \A i \in 1 .. n : c.stack[i].loc = "stack" => c.stack[i] = StackSlot
  <2>1. \A i \in 1 .. n : c.stack[i] \in Slot  BY <1>0, ContextShape
  <2> QED  BY <2>1, InFrameIsStackSlot
<1>6. c.spills <= d.spills  BY <1>0, <1>1, <1>4, ContextShape
<1> HIDE DEF d, e
<1> QED  BY <1>0, <1>1, <1>2, <1>4, <1>5, <1>6 DEF d

LEMMA SpillLocalsLater ==
  ASSUME NEW c, Fits(c), NEW n \in 0 .. Len(c.stack), NEW I \in SUBSET (n + 1 .. Len(c.stack))
  PROVE  Later(c, SpillLocals(c, n), I)
<1> DEFINE d == SpillLocals(c, n)
<1>1. \A i \in I : i \in DOMAIN c.stack /\ i \in Frame /\ i > n /\ ~(i <= n)
  BY FitsShape DEF Frame
<1>2. /\ c.spills <= d.spills
      /\ \A i \in DOMAIN c.stack : d.stack[i] = IF i <= n THEN StackSlot ELSE c.stack[i]
      /\ \A i \in Frame : i > n => d.mem[i] = c.mem[i]
  BY SpillLocalsShape
<1> HIDE DEF d
<1>3. \A i \in I : d.stack[i] = c.stack[i] /\ d.mem[i] = c.mem[i]  BY <1>1, <1>2
<1>4. Later(c, d, I)  BY <1>2, <1>3, UntouchedFollows DEF Later
<1> QED  BY <1>4 DEF d

-----------------------------------------------------------------------------
(* init_merge_region. *)

\* Induction, with the set of the numbers that satisfy the hypothesis.
LEMMA UpTo ==
  ASSUME NEW S, 0 \in S, \A n \in Nat : n \in S => n + 1 \in S
  PROVE  Nat \subseteq S
<1> SUFFICES ASSUME NEW k \in Nat \ S PROVE FALSE
  OBVIOUS
<1>1. PICK m \in Nat \ S : \A y \in Nat \ S : m <= y
  BY LeastExists
<1>2. m - 1 \in Nat /\ m - 1 + 1 = m
  <2>1. m # 0  OBVIOUS
  <2> QED  BY <2>1
<1>3. m - 1 \in S  BY <1>1, <1>2
<1> QED  BY <1>2, <1>3

\* The loop over the slots as a function of the number of turns.
Turns(d, slots, keeps, reuses, taken, m, f) ==
  f = [k \in 0 .. m |-> IF k = 0 THEN Placing([d EXCEPT !.stack = <<>>])
                        ELSE Place(f[k - 1], slots[k], keeps, reuses, taken)]

\* A region is laid out slot by slot, in as many turns as it has slots.
LEMMA TurnsExist ==
  ASSUME NEW d, NEW slots, NEW keeps, NEW reuses, NEW taken, NEW m \in Nat
  PROVE  \E f : Turns(d, slots, keeps, reuses, taken, m, f)
<1> DEFINE P(x, f) == Turns(d, slots, keeps, reuses, taken, x, f)
           start == Placing([d EXCEPT !.stack = <<>>])
           S == {x \in Nat : \E f : P(x, f)}
<1>1. 0 \in S
  <2> DEFINE f == [k \in 0 .. 0 |-> start]
  <2>1. \A k \in 0 .. 0 : k = 0  OBVIOUS
  <2>2. P(0, f)  BY <2>1 DEF Turns
  <2> QED  BY <2>2
<1>2. ASSUME NEW x \in Nat, x \in S PROVE x + 1 \in S
  <2>1. PICK f : P(x, f)  BY <1>2
  <2> DEFINE e == Place(f[x], slots[x + 1], keeps, reuses, taken)
             g == [k \in 0 .. x + 1 |-> IF k = x + 1 THEN e ELSE f[k]]
             h == [k \in 0 .. x + 1 |-> IF k = 0 THEN start
                                        ELSE Place(g[k - 1], slots[k], keeps, reuses, taken)]
  <2> HIDE DEF e, start
  <2>2. ASSUME NEW k \in 0 .. x + 1 PROVE g[k] = h[k]
    <3>1. CASE k = x + 1
      <4>1. k # 0 /\ k - 1 = x /\ x \in 0 .. x + 1 /\ x # x + 1  BY <3>1
      <4>2. g[k - 1] = f[x]  BY <4>1
      <4>3. h[k] = Place(f[x], slots[x + 1], keeps, reuses, taken)  BY <3>1, <4>1, <4>2
      <4> QED  BY <3>1, <4>3 DEF e
    <3>2. CASE k # x + 1
      <4>1. k \in 0 .. x /\ (k # 0 => k - 1 \in 0 .. x /\ k - 1 \in 0 .. x + 1 /\ k - 1 # x + 1)
        BY <3>2
      <4>2. f[k] = IF k = 0 THEN start ELSE Place(f[k - 1], slots[k], keeps, reuses, taken)
        BY <2>1, <4>1 DEF Turns, start
      <4>3. k # 0 => g[k - 1] = f[k - 1]  BY <4>1
      <4>4. g[k] = f[k]  BY <3>2
      <4>5. h[k] = IF k = 0 THEN start ELSE Place(g[k - 1], slots[k], keeps, reuses, taken)
        OBVIOUS
      <4> HIDE DEF g, h
      <4> QED  BY <4>2, <4>3, <4>4, <4>5
    <3> QED  BY <3>1, <3>2
  <2>3. g = h
    <3>1. \A f1, f2 : f1 = [k \in 0 .. x + 1 |-> f1[k]] /\ f2 = [k \in 0 .. x + 1 |-> f2[k]]
                      /\ (\A k \in 0 .. x + 1 : f1[k] = f2[k]) => f1 = f2
      OBVIOUS
    <3>2. g = [k \in 0 .. x + 1 |-> g[k]] /\ h = [k \in 0 .. x + 1 |-> h[k]]  OBVIOUS
    <3> HIDE DEF g, h
    <3> QED  BY <2>2, <3>1, <3>2
  <2>4. P(x + 1, g)
    <3> HIDE DEF g
    <3> QED  BY <2>3 DEF Turns, start
  <2> QED  BY <2>4
<1> HIDE DEF S, P
<1>3. m \in S  BY <1>1, <1>2, UpTo
<1> QED  BY <1>3 DEF S, P

\* The placements between the m turns.
Steps(d, slots, keeps, reuses, taken, m, f) ==
  /\ f[0] = Placing([d EXCEPT !.stack = <<>>])
  /\ \A k \in 0 .. m - 1 : f[k + 1] = Place(f[k], slots[k + 1], keeps, reuses, taken)

\* The fold over a region is the last of its turns.
LEMMA RegionTurns ==
  ASSUME NEW d, NEW slots, NEW keeps, NEW reuses, NEW taken, NEW m \in Nat, Len(slots) = m
  PROVE  \E f : /\ Region(d, slots, keeps, reuses, taken) = f[m].d
                /\ Steps(d, slots, keeps, reuses, taken, m, f)
<1> DEFINE f == CHOOSE f : Turns(d, slots, keeps, reuses, taken, m, f)
<1>1. Turns(d, slots, keeps, reuses, taken, m, f)  BY TurnsExist
<1>2. Region(d, slots, keeps, reuses, taken) = f[m].d  BY DEF Region, Turns
<1> HIDE DEF f
<1>3. f[0] = Placing([d EXCEPT !.stack = <<>>])  BY <1>1 DEF Turns
<1>4. ASSUME NEW k \in 0 .. m - 1
      PROVE  f[k + 1] = Place(f[k], slots[k + 1], keeps, reuses, taken)
  <2>1. k + 1 \in 0 .. m /\ k + 1 # 0 /\ k + 1 - 1 = k  OBVIOUS
  <2>2. \A j \in 0 .. m : f[j] = IF j = 0 THEN Placing([d EXCEPT !.stack = <<>>])
                                 ELSE Place(f[j - 1], slots[j], keeps, reuses, taken)
    <3> DEFINE b(g, j) == IF j = 0 THEN Placing([d EXCEPT !.stack = <<>>])
                          ELSE Place(g[j - 1], slots[j], keeps, reuses, taken)
    <3>1. f = [j \in 0 .. m |-> b(f, j)]  BY <1>1 DEF Turns
    <3> HIDE DEF b
    <3>2. \A j \in 0 .. m : f[j] = b(f, j)  BY <3>1
    <3> QED  BY <3>2 DEF b
  <2>3. \A j \in 0 .. m : j # 0 => f[j] = Place(f[j - 1], slots[j], keeps, reuses, taken)
    BY <2>2
  <2>4. f[k + 1] = Place(f[k + 1 - 1], slots[k + 1], keeps, reuses, taken)
    <3> DEFINE j == k + 1
    <3>1. j \in 0 .. m /\ j # 0  BY <2>1
    <3> HIDE DEF j
    <3>2. f[j] = Place(f[j - 1], slots[j], keeps, reuses, taken)  BY <2>3, <3>1
    <3> QED  BY <3>2 DEF j
  <2> QED  BY <2>1, <2>4
<1>5. Steps(d, slots, keeps, reuses, taken, m, f)  BY <1>3, <1>4 DEF Steps
<1> QED  BY <1>2, <1>5

\* Holders once a slot is pushed.
LEMMA PushHolders ==
  ASSUME NEW c \in Context, NEW s \in Slot, NEW r \in Regs
  PROVE  Holders(Push(c, s), r) = IF s.loc = "reg" /\ s.reg = r
                                  THEN Holders(c, r) \cup {Len(c.stack) + 1} ELSE Holders(c, r)
<1> DEFINE d == Push(c, s)
           n == Len(c.stack)
<1>1. /\ DOMAIN c.stack = 1 .. n /\ n \in Nat /\ DOMAIN d.stack = 1 .. n + 1
      /\ \A i \in 1 .. n : d.stack[i] = c.stack[i]
      /\ d.stack[n + 1] = s
  BY ContextShape, Pushed
<1> HIDE DEF d, n
<1>2. \A i : i \in 1 .. n + 1 <=> i \in 1 .. n \/ i = n + 1  BY <1>1
<1>3. n + 1 \notin 1 .. n  BY <1>1
<1>4. \A i : i \in Holders(d, r) <=> \/ i \in Holders(c, r)
                                     \/ i = n + 1 /\ s.loc = "reg" /\ s.reg = r
  BY <1>1, <1>2, <1>3 DEF Holders
<1>5. Holders(d, r) = IF s.loc = "reg" /\ s.reg = r
                      THEN Holders(c, r) \cup {n + 1} ELSE Holders(c, r)
  BY <1>4
<1> QED  BY <1>5 DEF d, n

\* The slots of e account for the uses that d does not count.
Adds(d, e) ==
  \A r \in Regs : /\ e.count[r] = d.count[r] + Cardinality(Holders(e, r))
                  /\ r \in e.used <=> (r \in d.used \/ Holders(e, r) # {})

\* Each turn adds one slot and counts what it adds.
LEMMA PushAdds ==
  ASSUME NEW d, NEW c \in Context, Adds(d, c), NEW s \in Slot, s.loc # "reg"
  PROVE  Adds(d, Push(c, s))
<1>1. \A r \in Regs : Holders(Push(c, s), r) = Holders(c, r)  BY PushHolders
<1>2. Push(c, s).used = c.used /\ Push(c, s).count = c.count  BY Pushed
<1> QED  BY <1>1, <1>2 DEF Adds

LEMMA PushRegisterHolders ==
  ASSUME NEW c \in Context, NEW r \in Regs
  PROVE  /\ PushRegister(c, r) \in Context /\ PushRegister(c, r).spills = c.spills
         /\ PushRegister(c, r).ok = c.ok /\ PushRegister(c, r).mem = c.mem
         /\ PushRegister(c, r).used = c.used \cup {r}
         /\ PushRegister(c, r).count = [c.count EXCEPT ![r] = @ + 1]
         /\ Len(PushRegister(c, r).stack) = Len(c.stack) + 1
         /\ \A i \in 1 .. Len(c.stack) : PushRegister(c, r).stack[i] = c.stack[i]
         /\ PushRegister(c, r).stack[Len(c.stack) + 1] = RegSlot(r)
         /\ \A q \in Regs : Holders(PushRegister(c, r), q) =
              IF q = r THEN Holders(c, q) \cup {Len(c.stack) + 1} ELSE Holders(c, q)
<1> DEFINE d == IncUsed(c, r)
           e == Push(d, RegSlot(r))
<1>1. /\ d \in Context /\ d.stack = c.stack /\ d.spills = c.spills /\ d.mem = c.mem
      /\ d.count = [c.count EXCEPT ![r] = @ + 1] /\ d.used = c.used \cup {r}
  BY IncUsedShape, IncUsedMem
<1>2. PushRegister(c, r) = e  BY DEF PushRegister
<1>3. PushRegister(c, r).ok = c.ok  BY PushRegisterOk
<1> HIDE DEF d
<1>4. RegSlot(r) \in Slot /\ RegSlot(r).loc = "reg" /\ RegSlot(r).reg = r
  BY SlotsAreSlots DEF RegSlot
<1>5. \A q \in Regs : Holders(d, q) = Holders(c, q)  BY <1>1 DEF Holders
<1>6. \A q \in Regs : Holders(e, q) =
              IF q = r THEN Holders(d, q) \cup {Len(d.stack) + 1} ELSE Holders(d, q)
  BY <1>1, <1>4, PushHolders
<1>7. /\ e \in Context /\ Len(e.stack) = Len(d.stack) + 1
      /\ \A i \in 1 .. Len(d.stack) : e.stack[i] = d.stack[i]
      /\ e.stack[Len(d.stack) + 1] = RegSlot(r)
      /\ e.used = d.used /\ e.count = d.count /\ e.spills = d.spills /\ e.mem = d.mem
  BY <1>1, <1>4, Pushed, PushMem
<1> HIDE DEF e
<1> QED  BY <1>1, <1>2, <1>3, <1>5, <1>6, <1>7

LEMMA PushRegisterAdds ==
  ASSUME NEW d, NEW c \in Context, Adds(d, c), NEW r \in Regs, d.count \in [Regs -> Nat]
  PROVE  Adds(d, PushRegister(c, r))
<1> DEFINE e == PushRegister(c, r)
           n == Len(c.stack)
<1>1. /\ e.used = c.used \cup {r} /\ e.count = [c.count EXCEPT ![r] = @ + 1]
      /\ \A q \in Regs : Holders(e, q) =
           IF q = r THEN Holders(c, q) \cup {n + 1} ELSE Holders(c, q)
  BY PushRegisterHolders
<1>2. /\ Holders(c, r) \subseteq 1 .. n /\ IsFiniteSet(Holders(c, r)) /\ n \in Nat
      /\ Cardinality(Holders(c, r)) \in Nat /\ c.count \in [Regs -> Nat]
  BY HoldersFinite, ContextShape
<1> HIDE DEF e, n
<1>3. Cardinality(Holders(e, r)) = Cardinality(Holders(c, r)) + 1
  <2>1. n + 1 \notin Holders(c, r)  BY <1>2
  <2>2. Holders(e, r) = Holders(c, r) \cup {n + 1}  BY <1>1
  <2> QED  BY <1>2, <2>1, <2>2, FS_AddElement
<1>4. e.count[r] = d.count[r] + Cardinality(Holders(e, r))
  <2>1. e.count[r] = c.count[r] + 1 /\ c.count[r] \in Nat /\ d.count[r] \in Nat  BY <1>1, <1>2
  <2>2. c.count[r] = d.count[r] + Cardinality(Holders(c, r))  BY DEF Adds
  <2> QED  BY <1>2, <1>3, <2>1, <2>2
<1>5. r \in e.used /\ Holders(e, r) # {}  BY <1>1
<1>6. ASSUME NEW q \in Regs, q # r
      PROVE  /\ e.count[q] = d.count[q] + Cardinality(Holders(e, q))
             /\ r \in e.used
             /\ (q \in e.used) <=> (q \in d.used \/ Holders(e, q) # {})
  <2>1. e.count[q] = c.count[q] /\ Holders(e, q) = Holders(c, q)  BY <1>1, <1>2, <1>6
  <2>2. q \in e.used <=> q \in c.used  BY <1>1, <1>6
  <2> QED  BY <1>5, <2>1, <2>2 DEF Adds
<1>7. Adds(d, e)  BY <1>4, <1>5, <1>6 DEF Adds
<1> QED  BY <1>7 DEF e

\* Between two turns of the loop.
Placement == [d : Context, reuse : [Regs -> Regs \cup {NoReg}]]

\* Where a slot goes: its own register if free, the place its register went to before,
\* any free register, or memory.
LEMMA HomeShape ==
  ASSUME NEW p \in Placement, NEW slot \in Slot, NEW reuses \in BOOLEAN, NEW taken
  PROVE  LET h    == Home(p, slot, reuses, taken)
             free == (Regs \ p.d.used) \ taken
         IN  \/ slot.loc = "reg" /\ slot.reg \in Regs \ p.d.used /\ h = slot.reg
             \/ /\ slot.loc = "reg" /\ slot.reg \in p.d.used /\ reuses
                /\ p.reuse[slot.reg] # NoReg /\ h = p.reuse[slot.reg]
             \/ /\ slot.loc = "reg" => slot.reg \in p.d.used
                /\ slot.loc = "reg" /\ reuses => p.reuse[slot.reg] = NoReg
                /\ \/ h \in free
                   \/ free = {} /\ h = NoReg
<1> DEFINE h    == Home(p, slot, reuses, taken)
           free == (Regs \ p.d.used) \ taken
<1>1. slot.loc = "reg" => slot.reg \in Regs  BY SlotShape
<1>2. CASE slot.loc = "reg" /\ slot.reg \notin p.d.used
  BY <1>1, <1>2 DEF Home
<1>3. CASE /\ ~(slot.loc = "reg" /\ slot.reg \notin p.d.used)
           /\ slot.loc = "reg" /\ reuses /\ p.reuse[slot.reg] # NoReg
  BY <1>3 DEF Home
<1>4. CASE /\ ~(slot.loc = "reg" /\ slot.reg \notin p.d.used)
           /\ ~(slot.loc = "reg" /\ reuses /\ p.reuse[slot.reg] # NoReg)
  <2>1. h = IF free # {} THEN FirstOf(free) ELSE NoReg  BY <1>4 DEF Home
  <2>2. free # {} => FirstOf(free) \in free  BY RegsAssumption, FirstOfIsLeast
  <2> HIDE DEF h, free
  <2>3. \/ h \in free
        \/ free = {} /\ h = NoReg
    BY <2>1, <2>2
  <2> QED  BY <1>4, <2>3 DEF h, free
<1> QED  BY <1>2, <1>3, <1>4

\* One turn pushes one slot: the source itself, a slot in the frame, or a register.
Turn(p, q, slot, keeps, reuses, taken, new) ==
  LET home == Home(p, slot, reuses, taken)
  IN  /\ q \in Placement /\ Len(q.d.stack) = Len(p.d.stack) + 1
      /\ \A i \in 1 .. Len(p.d.stack) : q.d.stack[i] = p.d.stack[i]
      /\ q.d.stack[Len(p.d.stack) + 1] = new
      /\ q.d.spills = p.d.spills /\ q.d.ok = p.d.ok /\ q.d.mem = p.d.mem
      /\ q.d.used = p.d.used \cup {r \in Regs : new = RegSlot(r)}
      /\ \/ /\ (slot.loc = "stack" /\ keeps) \/ (slot.loc = "const" /\ reuses)
            /\ new = slot /\ q.reuse = p.reuse
         \/ /\ ~((slot.loc = "stack" /\ keeps) \/ (slot.loc = "const" /\ reuses))
            /\ home = NoReg /\ new = StackSlot /\ q.reuse = p.reuse
         \/ /\ ~((slot.loc = "stack" /\ keeps) \/ (slot.loc = "const" /\ reuses))
            /\ home \in Regs /\ new = RegSlot(home)
            /\ q.reuse = IF reuses /\ p.reuse[slot.reg] = NoReg
                         THEN [p.reuse EXCEPT ![slot.reg] = home] ELSE p.reuse

\* Placing a slot is a turn.
LEMMA PlaceTurns ==
  ASSUME NEW d, d.count \in [Regs -> Nat], NEW p \in Placement, Adds(d, p.d), NEW slot \in Slot,
         NEW keeps \in BOOLEAN, NEW reuses \in BOOLEAN, NEW taken
  PROVE  /\ Adds(d, Place(p, slot, keeps, reuses, taken).d)
         /\ \E new \in Slot :
              Turn(p, Place(p, slot, keeps, reuses, taken), slot, keeps, reuses, taken, new)
<1> DEFINE home == Home(p, slot, reuses, taken)
           q    == Place(p, slot, keeps, reuses, taken)
           keep == (slot.loc = "stack" /\ keeps) \/ (slot.loc = "const" /\ reuses)
           note == IF reuses /\ p.reuse[slot.reg] = NoReg
                   THEN [p.reuse EXCEPT ![slot.reg] = home] ELSE p.reuse
<1>0. p.d \in Context /\ p.reuse \in [Regs -> Regs \cup {NoReg}]
      /\ p = [d |-> p.d, reuse |-> p.reuse]
  BY DEF Placement
<1>1. home \in Regs \cup {NoReg}
  <2>1. slot.loc = "reg" => slot.reg \in Regs  BY SlotShape
  <2>2. slot.loc = "reg" => p.reuse[slot.reg] \in Regs \cup {NoReg}  BY <1>0, <2>1
  <2> HIDE DEF home
  <2> QED  BY <2>1, <2>2, HomeShape DEF home
<1>2. NoReg \notin Regs  BY RegsAssumption DEF NoReg
<1>3. \A s \in Slot : s.loc # "reg" => {r \in Regs : s = RegSlot(r)} = {}  BY DEF RegSlot
<1>4. ASSUME NEW s \in Slot, s.loc # "reg", q = [d |-> Push(p.d, s), reuse |-> p.reuse]
      PROVE  /\ q \in Placement /\ Len(q.d.stack) = Len(p.d.stack) + 1
             /\ \A i \in 1 .. Len(p.d.stack) : q.d.stack[i] = p.d.stack[i]
             /\ q.d.stack[Len(p.d.stack) + 1] = s
             /\ q.d.spills = p.d.spills /\ q.d.ok = p.d.ok /\ q.d.mem = p.d.mem
             /\ q.d.used = p.d.used \cup {r \in Regs : s = RegSlot(r)}
             /\ q.reuse = p.reuse /\ Adds(d, q.d)
  <2> DEFINE e == Push(p.d, s)
  <2>1. /\ e \in Context /\ Len(e.stack) = Len(p.d.stack) + 1
        /\ \A i \in 1 .. Len(p.d.stack) : e.stack[i] = p.d.stack[i]
        /\ e.stack[Len(p.d.stack) + 1] = s
        /\ e.spills = p.d.spills /\ e.ok = p.d.ok /\ e.mem = p.d.mem /\ e.used = p.d.used
        /\ Adds(d, e)
    BY <1>0, <1>4, Pushed, PushOk, PushMem, PushAdds
  <2>2. q.d = e /\ q.reuse = p.reuse  BY <1>4
  <2>3. q \in Placement  BY <1>0, <1>4, <2>1 DEF Placement
  <2>4. {r \in Regs : s = RegSlot(r)} = {}  BY <1>3, <1>4
  <2> HIDE DEF q, e
  <2> QED  BY <2>1, <2>2, <2>3, <2>4
<1>5. CASE keep
  <2>1. q = [d |-> Push(p.d, slot), reuse |-> p.reuse]  BY <1>0, <1>5 DEF Place
  <2>2. slot.loc # "reg"  BY <1>5
  <2> HIDE DEF q, home
  <2> QED  BY <1>4, <1>5, <2>1, <2>2 DEF Turn, q
<1>6. CASE ~keep /\ home = NoReg
  <2>1. q = [d |-> Push(p.d, StackSlot), reuse |-> p.reuse]  BY <1>0, <1>6 DEF Place
  <2>2. StackSlot \in Slot /\ StackSlot.loc # "reg"  BY SlotsAreSlots DEF StackSlot
  <2> HIDE DEF q, home
  <2>3. Turn(p, q, slot, keeps, reuses, taken, StackSlot)  BY <1>4, <1>6, <2>1, <2>2 DEF Turn, home
  <2> QED  BY <1>4, <2>1, <2>2, <2>3 DEF q
<1>7. CASE ~keep /\ home \in Regs
  <2> DEFINE e == PushRegister(p.d, home)
  <2>1. q = [d |-> e, reuse |-> note]
    BY <1>2, <1>7 DEF Place
  <2> HIDE DEF home
  <2>2. /\ e \in Context /\ Len(e.stack) = Len(p.d.stack) + 1
        /\ \A i \in 1 .. Len(p.d.stack) : e.stack[i] = p.d.stack[i]
        /\ e.stack[Len(p.d.stack) + 1] = RegSlot(home)
        /\ e.spills = p.d.spills /\ e.ok = p.d.ok /\ e.mem = p.d.mem
        /\ e.used = p.d.used \cup {home}
    BY <1>0, <1>7, PushRegisterHolders
  <2>3. Adds(d, e)  BY <1>0, <1>7, PushRegisterAdds
  <2>4. note \in [Regs -> Regs \cup {NoReg}]  BY <1>0, <1>7
  <2>5. {r \in Regs : RegSlot(home) = RegSlot(r)} = {home}  BY <1>7 DEF RegSlot
  <2>6. RegSlot(home) \in Slot  BY <1>7, SlotsAreSlots
  <2> HIDE DEF q, e, note
  <2>7. q.d = e /\ q.reuse = note /\ q \in Placement  BY <2>1, <2>2, <2>4 DEF Placement
  <2>8. Turn(p, q, slot, keeps, reuses, taken, RegSlot(home))
    BY <1>7, <2>2, <2>5, <2>7 DEF Turn, home, note
  <2> QED  BY <2>3, <2>6, <2>7, <2>8 DEF q
<1> QED  BY <1>1, <1>5, <1>6, <1>7

\* After k turns.  No register that was in use before is handed out, and the
\* registers of the slots placed are in use.
Placed(d, slots, k, p) ==
  /\ p \in Placement /\ Len(p.d.stack) = k /\ Adds(d, p.d)
  /\ p.d.spills = d.spills /\ p.d.ok = d.ok /\ p.d.mem = d.mem
  /\ \A i \in 1 .. k : /\ p.d.stack[i].loc = "reg" => p.d.stack[i].reg \notin d.used
                       /\ slots[i].loc = "reg" => slots[i].reg \in p.d.used
  /\ \A r \in Regs : p.reuse[r] \notin d.used

\* Placed holds before the first turn, and each turn keeps it.
LEMMA PlacedStart ==
  ASSUME NEW d \in Context, NEW slots
  PROVE  Placed(d, slots, 0, Placing([d EXCEPT !.stack = <<>>]))
<1> DEFINE e == [d EXCEPT !.stack = <<>>]
           p == Placing(e)
<1>1. /\ e \in Context /\ e.stack = <<>> /\ e.used = d.used /\ e.count = d.count
      /\ e.spills = d.spills /\ e.ok = d.ok /\ e.mem = d.mem
  <2>1. <<>> \in Seq(Slot)  OBVIOUS
  <2> QED  BY <2>1 DEF Context
<1>2. p.d = e /\ p.reuse = [r \in Regs |-> NoReg] /\ p \in Placement
  BY <1>1 DEF Placing, Placement
<1>3. \A r \in Regs : Holders(e, r) = {}  BY <1>1 DEF Holders
<1>4. Adds(d, e)
  <2>1. Cardinality({}) = 0  BY FS_EmptySet
  <2>2. \A r \in Regs : d.count[r] \in Nat  BY ContextShape
  <2>3. \A r \in Regs : Cardinality(Holders(e, r)) = 0  BY <1>3, <2>1
  <2>4. \A r \in Regs : e.count[r] = d.count[r] + Cardinality(Holders(e, r))
    BY <1>1, <2>2, <2>3
  <2>5. \A r \in Regs : r \in e.used <=> (r \in d.used \/ Holders(e, r) # {})
    BY <1>1, <1>3
  <2> HIDE DEF e
  <2> QED  BY <2>4, <2>5 DEF Adds
<1>5. NoReg \notin d.used  BY RegsAssumption, ContextShape DEF NoReg
<1>6. 1 .. 0 = {} /\ Len(e.stack) = 0  BY <1>1
<1> HIDE DEF p, e
<1>7. Placed(d, slots, 0, p)  BY <1>1, <1>2, <1>4, <1>5, <1>6 DEF Placed
<1> QED  BY <1>7 DEF p, e

\* Every register handed out was free, but for one that is reused.
LEMMA HomeIsNew ==
  ASSUME NEW d \in Context, NEW slots, NEW k, NEW p, Placed(d, slots, k, p),
         NEW slot \in Slot, NEW reuses \in BOOLEAN, NEW taken
  PROVE  Home(p, slot, reuses, taken) \notin d.used
<1>1. d.used \subseteq Regs /\ d.used \subseteq p.d.used  BY ContextShape DEF Placed, Adds
<1>2. p \in Placement /\ \A r \in Regs : p.reuse[r] \notin d.used  BY DEF Placed
<1>3. slot.loc = "reg" => slot.reg \in Regs  BY SlotShape
<1>4. NoReg \notin d.used  BY <1>1, RegsAssumption DEF NoReg
<1> QED  BY <1>1, <1>2, <1>3, <1>4, HomeShape

LEMMA PlacedStep ==
  ASSUME NEW d \in Context, NEW slots, NEW k \in Nat, NEW p, Placed(d, slots, k, p),
         slots[k + 1] \in Slot, NEW keeps \in BOOLEAN, NEW reuses \in BOOLEAN, NEW taken,
         NEW q, Adds(d, q.d), NEW new \in Slot,
         Turn(p, q, slots[k + 1], keeps, reuses, taken, new)
  PROVE  Placed(d, slots, k + 1, q)
<1> DEFINE slot == slots[k + 1]
           home == Home(p, slot, reuses, taken)
<1>1. /\ p \in Placement /\ Len(p.d.stack) = k
      /\ p.d.spills = d.spills /\ p.d.ok = d.ok /\ p.d.mem = d.mem
      /\ \A i \in 1 .. k : /\ p.d.stack[i].loc = "reg" => p.d.stack[i].reg \notin d.used
                           /\ slots[i].loc = "reg" => slots[i].reg \in p.d.used
      /\ \A r \in Regs : p.reuse[r] \notin d.used
  BY DEF Placed
<1>2. /\ q \in Placement /\ Len(q.d.stack) = k + 1
      /\ \A i \in 1 .. k : q.d.stack[i] = p.d.stack[i]
      /\ q.d.stack[k + 1] = new
      /\ q.d.spills = p.d.spills /\ q.d.ok = p.d.ok /\ q.d.mem = p.d.mem
      /\ q.d.used = p.d.used \cup {r \in Regs : new = RegSlot(r)}
  BY <1>1 DEF Turn
<1>3. home \notin d.used  BY HomeIsNew
<1>4. new.loc = "reg" => new = RegSlot(home) /\ home \in Regs
  BY DEF Turn, StackSlot
<1>5. slot.loc = "reg" => slot.reg \in q.d.used
  <2> SUFFICES ASSUME slot.loc = "reg" PROVE slot.reg \in q.d.used
    OBVIOUS
  <2>1. slot.reg \in Regs  BY SlotShape
  <2>2. CASE slot.reg \in p.d.used
    BY <1>2, <2>2
  <2>3. CASE slot.reg \notin p.d.used
    <3>1. home = slot.reg  BY <2>1, <2>3 DEF Home
    <3>2. home # NoReg  BY <2>1, <3>1, RegsAssumption DEF NoReg
    <3>3. new = RegSlot(slot.reg)
      <4> HIDE DEF home
      <4> QED  BY <3>1, <3>2 DEF Turn, home
    <3> QED  BY <1>2, <2>1, <3>3
  <2> QED  BY <2>2, <2>3
<1>6. \A r \in Regs : q.reuse[r] \notin d.used
  <2>1. q.reuse = p.reuse \/ q.reuse = [p.reuse EXCEPT ![slot.reg] = home]
    <3> HIDE DEF home
    <3> QED  BY DEF Turn, home
  <2>2. p.reuse \in [Regs -> Regs \cup {NoReg}]  BY <1>1 DEF Placement
  <2> HIDE DEF home, slot
  <2> QED  BY <1>1, <1>3, <2>1, <2>2
<1>7. new.loc = "reg" => new.reg \notin d.used
  <2> HIDE DEF home
  <2> QED  BY <1>3, <1>4 DEF RegSlot
<1>8. \A i \in 1 .. k + 1 : /\ q.d.stack[i].loc = "reg" => q.d.stack[i].reg \notin d.used
                            /\ slots[i].loc = "reg" => slots[i].reg \in q.d.used
  <2> SUFFICES ASSUME NEW i \in 1 .. k + 1
               PROVE  /\ q.d.stack[i].loc = "reg" => q.d.stack[i].reg \notin d.used
                      /\ slots[i].loc = "reg" => slots[i].reg \in q.d.used
    OBVIOUS
  <2>1. CASE i = k + 1
    BY <1>2, <1>5, <1>7, <2>1
  <2>2. CASE i # k + 1
    <3>1. i \in 1 .. k  BY <2>2
    <3> HIDE DEF home, slot
    <3> QED  BY <1>1, <1>2, <3>1
  <2> QED  BY <2>1, <2>2
<1> QED  BY <1>1, <1>2, <1>6, <1>8 DEF Placed

\* Without reuse no register is handed out twice, and there are no constants.
Apart(k, p) ==
  \A i \in 1 .. k : /\ p.d.stack[i].loc # "const"
                    /\ p.d.stack[i].loc = "reg" =>
                         \A j \in 1 .. k : p.d.stack[j] = p.d.stack[i] => j = i

\* Without reuse no register is given out twice.
LEMMA ApartStep ==
  ASSUME NEW d \in Context, NEW slots, NEW k \in Nat, NEW p, Placed(d, slots, k, p), Apart(k, p),
         slots[k + 1] \in Slot, NEW keeps \in BOOLEAN, NEW reuses \in BOOLEAN, ~reuses, NEW taken,
         NEW q, NEW new \in Slot, Turn(p, q, slots[k + 1], keeps, reuses, taken, new)
  PROVE  Apart(k + 1, q)
<1> DEFINE slot == slots[k + 1]
           home == Home(p, slot, reuses, taken)
<1>1. p \in Placement /\ p.d \in Context /\ Len(p.d.stack) = k  BY DEF Placed, Placement
<1>2. /\ \A i \in 1 .. k : q.d.stack[i] = p.d.stack[i]
      /\ q.d.stack[k + 1] = new
  BY <1>1 DEF Turn
<1>3. \/ home = NoReg
      \/ home \in Regs \ p.d.used
  BY <1>1, HomeShape
<1>4. new.loc = "reg" => new = RegSlot(home) /\ home \in Regs
  BY DEF Turn, StackSlot
<1>5. new.loc # "const"  BY DEF Turn, StackSlot, RegSlot
<1> HIDE DEF home, slot
<1>6. ASSUME NEW i \in 1 .. k, new.loc = "reg" PROVE p.d.stack[i] # new
  <2> SUFFICES ASSUME p.d.stack[i] = new PROVE FALSE  OBVIOUS
  <2>1. i \in DOMAIN p.d.stack  BY <1>1, ContextShape
  <2>2. i \in Holders(p.d, home)  BY <1>4, <1>6, <2>1 DEF Holders, RegSlot
  <2>3. home \in p.d.used  BY <1>4, <1>6, <2>2 DEF Placed, Adds
  <2>4. home # NoReg  BY <1>4, <1>6, RegsAssumption DEF NoReg
  <2> QED  BY <1>3, <2>3, <2>4
<1>7. \A i \in 1 .. k + 1 : i \in 1 .. k \/ i = k + 1  OBVIOUS
<1> SUFFICES ASSUME NEW i \in 1 .. k + 1
             PROVE  /\ q.d.stack[i].loc # "const"
                    /\ q.d.stack[i].loc = "reg" =>
                         \A j \in 1 .. k + 1 : q.d.stack[j] = q.d.stack[i] => j = i
  BY DEF Apart
<1>8. CASE i = k + 1
  <2>1. \A j \in 1 .. k : q.d.stack[j] = p.d.stack[j]  BY <1>2
  <2>2. q.d.stack[i] = new  BY <1>2, <1>8
  <2> QED  BY <1>5, <1>6, <1>7, <1>8, <2>1, <2>2
<1>9. CASE i \in 1 .. k
  <2>1. q.d.stack[i] = p.d.stack[i] /\ q.d.stack[i].loc # "const"  BY <1>2, <1>9 DEF Apart
  <2>2. ASSUME NEW j \in 1 .. k + 1, q.d.stack[i].loc = "reg", q.d.stack[j] = q.d.stack[i]
        PROVE  j = i
    <3>1. CASE j = k + 1
      BY <1>2, <1>6, <1>9, <2>1, <2>2, <3>1
    <3>2. CASE j \in 1 .. k
      BY <1>2, <1>9, <2>1, <2>2, <3>2 DEF Apart
    <3> QED  BY <1>7, <3>1, <3>2
  <2> QED  BY <2>1, <2>2
<1> QED  BY <1>7, <1>8, <1>9

\* With reuse the slots of a register stay together, and constants stay.
Tracks(slots, taken, k, p) ==
  /\ \A i \in 1 .. k :
       /\ slots[i].loc # "reg" => p.d.stack[i] = slots[i]
       /\ slots[i].loc = "reg" =>
            p.d.stack[i] = IF p.reuse[slots[i].reg] = NoReg THEN StackSlot
                           ELSE RegSlot(p.reuse[slots[i].reg])
       /\ slots[i].loc = "reg" /\ p.reuse[slots[i].reg] = NoReg
            => (Regs \ p.d.used) \ taken = {}
  /\ \A r \in Regs : p.reuse[r] # NoReg => r \in p.d.used /\ p.reuse[r] \in p.d.used
  /\ \A r, q \in Regs : p.reuse[r] # NoReg /\ p.reuse[r] = p.reuse[q] => r = q

\* A turn that pushes no register.
LEMMA TracksKept ==
  ASSUME NEW d \in Context, NEW slots, NEW taken, NEW k \in Nat, NEW p, Placed(d, slots, k, p),
         Tracks(slots, taken, k, p), NEW q,
         \A i \in 1 .. k : q.d.stack[i] = p.d.stack[i],
         q.d.used = p.d.used, q.reuse = p.reuse,
         \/ slots[k + 1].loc # "reg" /\ q.d.stack[k + 1] = slots[k + 1]
         \/ /\ slots[k + 1].loc = "reg" /\ p.reuse[slots[k + 1].reg] = NoReg
            /\ q.d.stack[k + 1] = StackSlot /\ (Regs \ p.d.used) \ taken = {}
  PROVE  Tracks(slots, taken, k + 1, q)
<1>1. \A i \in 1 .. k + 1 : i \in 1 .. k \/ i = k + 1  OBVIOUS
<1>2. ASSUME NEW i \in 1 .. k + 1
      PROVE  /\ slots[i].loc # "reg" => q.d.stack[i] = slots[i]
             /\ slots[i].loc = "reg" =>
                  q.d.stack[i] = IF q.reuse[slots[i].reg] = NoReg THEN StackSlot
                                 ELSE RegSlot(q.reuse[slots[i].reg])
             /\ slots[i].loc = "reg" /\ q.reuse[slots[i].reg] = NoReg
                  => (Regs \ q.d.used) \ taken = {}
  <2>1. CASE i = k + 1
    BY <2>1
  <2>2. CASE i \in 1 .. k
    BY <2>2 DEF Tracks
  <2> QED  BY <1>1, <2>1, <2>2
<1>3. /\ \A r \in Regs : q.reuse[r] # NoReg => r \in q.d.used /\ q.reuse[r] \in q.d.used
      /\ \A r, z \in Regs : q.reuse[r] # NoReg /\ q.reuse[r] = q.reuse[z] => r = z
  BY DEF Tracks
<1> QED  BY <1>2, <1>3 DEF Tracks

\* A turn that pushes the register its source went to before.
LEMMA TracksReused ==
  ASSUME NEW d \in Context, NEW slots, NEW taken, NEW k \in Nat, NEW p, Placed(d, slots, k, p),
         Tracks(slots, taken, k, p), NEW q,
         \A i \in 1 .. k : q.d.stack[i] = p.d.stack[i], q.reuse = p.reuse,
         slots[k + 1].loc = "reg", slots[k + 1].reg \in Regs,
         p.reuse[slots[k + 1].reg] # NoReg,
         q.d.stack[k + 1] = RegSlot(p.reuse[slots[k + 1].reg]),
         q.d.used = p.d.used \cup {r \in Regs : q.d.stack[k + 1] = RegSlot(r)}
  PROVE  Tracks(slots, taken, k + 1, q)
<1>1. \A i \in 1 .. k + 1 : i \in 1 .. k \/ i = k + 1  OBVIOUS
<1>2. q.d.used = p.d.used
  <2>1. p.reuse[slots[k + 1].reg] \in p.d.used  BY DEF Tracks
  <2>2. \A r \in Regs : q.d.stack[k + 1] = RegSlot(r) => r = p.reuse[slots[k + 1].reg]
    BY DEF RegSlot
  <2> QED  BY <2>1, <2>2
<1>3. ASSUME NEW i \in 1 .. k + 1
      PROVE  /\ slots[i].loc # "reg" => q.d.stack[i] = slots[i]
             /\ slots[i].loc = "reg" =>
                  q.d.stack[i] = IF q.reuse[slots[i].reg] = NoReg THEN StackSlot
                                 ELSE RegSlot(q.reuse[slots[i].reg])
             /\ slots[i].loc = "reg" /\ q.reuse[slots[i].reg] = NoReg
                  => (Regs \ q.d.used) \ taken = {}
  <2>1. CASE i = k + 1
    BY <2>1
  <2>2. CASE i \in 1 .. k
    BY <1>2, <2>2 DEF Tracks
  <2> QED  BY <1>1, <2>1, <2>2
<1>4. /\ \A r \in Regs : q.reuse[r] # NoReg => r \in q.d.used /\ q.reuse[r] \in q.d.used
      /\ \A r, z \in Regs : q.reuse[r] # NoReg /\ q.reuse[r] = q.reuse[z] => r = z
  BY <1>2 DEF Tracks
<1> QED  BY <1>3, <1>4 DEF Tracks

\* A turn that gives the register of its source a place.
LEMMA TracksNew ==
  ASSUME NEW d \in Context, NEW slots, NEW taken, NEW k \in Nat, NEW p, Placed(d, slots, k, p),
         Tracks(slots, taken, k, p), \A i \in 1 .. k : slots[i] \in Slot, NEW q,
         \A i \in 1 .. k : q.d.stack[i] = p.d.stack[i],
         slots[k + 1].loc = "reg", NEW r \in Regs, slots[k + 1].reg = r,
         p.reuse[r] = NoReg, NEW home \in Regs \ p.d.used,
         home = r \/ (r \in p.d.used /\ home \notin taken),
         q.reuse = [p.reuse EXCEPT ![r] = home],
         q.d.stack[k + 1] = RegSlot(home),
         q.d.used = p.d.used \cup {h \in Regs : q.d.stack[k + 1] = RegSlot(h)}
  PROVE  Tracks(slots, taken, k + 1, q)
<1>1. \A i \in 1 .. k + 1 : i \in 1 .. k \/ i = k + 1  OBVIOUS
<1>2. q.d.used = p.d.used \cup {home}
  <2>1. \A h \in Regs : RegSlot(home) = RegSlot(h) <=> h = home  BY DEF RegSlot
  <2> QED  BY <2>1
<1>3. home # NoReg  BY RegsAssumption DEF NoReg
<1>4. /\ q.reuse[r] = home
      /\ \A z \in Regs : z # r => q.reuse[z] = p.reuse[z]
      /\ p.reuse \in [Regs -> Regs \cup {NoReg}]
  BY DEF Placed, Placement
\* No earlier slot of the register is in the frame: none was free then.
<1>5. \A i \in 1 .. k : slots[i].loc = "reg" => slots[i].reg # r
  <2> SUFFICES ASSUME NEW i \in 1 .. k, slots[i].loc = "reg", slots[i].reg = r PROVE FALSE
    OBVIOUS
  <2>1. (Regs \ p.d.used) \ taken = {}  BY DEF Tracks
  <2>2. r \in p.d.used  BY DEF Placed
  <2> QED  BY <2>1, <2>2
<1>6. \A i \in 1 .. k : slots[i].loc = "reg" => q.reuse[slots[i].reg] = p.reuse[slots[i].reg]
  <2>1. \A i \in 1 .. k : slots[i].loc = "reg" => slots[i].reg \in Regs  BY SlotShape
  <2> QED  BY <1>4, <1>5, <2>1
<1>7. ASSUME NEW i \in 1 .. k + 1
      PROVE  /\ slots[i].loc # "reg" => q.d.stack[i] = slots[i]
             /\ slots[i].loc = "reg" =>
                  q.d.stack[i] = IF q.reuse[slots[i].reg] = NoReg THEN StackSlot
                                 ELSE RegSlot(q.reuse[slots[i].reg])
             /\ slots[i].loc = "reg" /\ q.reuse[slots[i].reg] = NoReg
                  => (Regs \ q.d.used) \ taken = {}
  <2>1. CASE i = k + 1
    BY <1>3, <1>4, <2>1
  <2>2. CASE i \in 1 .. k
    <3>1. /\ slots[i].loc # "reg" => p.d.stack[i] = slots[i]
          /\ slots[i].loc = "reg" =>
               p.d.stack[i] = IF p.reuse[slots[i].reg] = NoReg THEN StackSlot
                              ELSE RegSlot(p.reuse[slots[i].reg])
          /\ slots[i].loc = "reg" /\ p.reuse[slots[i].reg] = NoReg
               => (Regs \ p.d.used) \ taken = {}
      BY <2>2 DEF Tracks
    <3>2. (Regs \ p.d.used) \ taken = {} => (Regs \ q.d.used) \ taken = {}  BY <1>2
    <3>3. q.d.stack[i] = p.d.stack[i]  BY <2>2
    <3>4. slots[i].loc = "reg" => q.reuse[slots[i].reg] = p.reuse[slots[i].reg]  BY <1>6, <2>2
    <3> QED  BY <3>1, <3>2, <3>3, <3>4
  <2> QED  BY <1>1, <2>1, <2>2
<1>8. \A z \in Regs : q.reuse[z] # NoReg => z \in q.d.used /\ q.reuse[z] \in q.d.used
  <2> SUFFICES ASSUME NEW z \in Regs, q.reuse[z] # NoReg
               PROVE  z \in q.d.used /\ q.reuse[z] \in q.d.used
    OBVIOUS
  <2>1. CASE z = r
    BY <1>2, <1>4, <2>1
  <2>2. CASE z # r
    <3>1. z \in p.d.used /\ p.reuse[z] \in p.d.used  BY <1>4, <2>2 DEF Tracks
    <3> QED  BY <1>2, <1>4, <2>2, <3>1
  <2> QED  BY <2>1, <2>2
<1>9. \A y, z \in Regs : q.reuse[y] # NoReg /\ q.reuse[y] = q.reuse[z] => y = z
  <2> SUFFICES ASSUME NEW y \in Regs, NEW z \in Regs, q.reuse[y] # NoReg,
                      q.reuse[y] = q.reuse[z], y # z
               PROVE  FALSE
    OBVIOUS
  <2>1. \A x \in Regs : p.reuse[x] # home
    <3>1. \A x \in Regs : p.reuse[x] # NoReg => p.reuse[x] \in p.d.used  BY DEF Tracks
    <3> QED  BY <1>3, <3>1
  <2>2. y # r /\ z # r  BY <1>4, <2>1
  <2>3. p.reuse[y] # NoReg /\ p.reuse[y] = p.reuse[z]  BY <1>4, <2>2
  <2> QED  BY <2>3 DEF Tracks
<1> QED  BY <1>7, <1>8, <1>9 DEF Tracks

\* Where a register has gone is noted once.
Noted(p, r, home) == IF p.reuse[r] = NoReg THEN [p.reuse EXCEPT ![r] = home] ELSE p.reuse

\* A turn with reuse: a slot is kept, or goes to the frame, or to the register
\* that its own register has gone to, or to a new one.
Reusing(p, q, slot, taken, new) ==
  /\ slot.loc # "reg" => new = slot /\ q.reuse = p.reuse
  /\ slot.loc = "reg" =>
       \/ /\ p.reuse[slot.reg] = NoReg /\ (Regs \ p.d.used) \ taken = {}
          /\ new = StackSlot /\ q.reuse = p.reuse
       \/ /\ slot.reg \in p.d.used /\ p.reuse[slot.reg] # NoReg
          /\ new = RegSlot(p.reuse[slot.reg]) /\ q.reuse = p.reuse
       \/ \E home \in Regs \ p.d.used :
            /\ \/ home = slot.reg
               \/ slot.reg \in p.d.used /\ p.reuse[slot.reg] = NoReg /\ home \notin taken
            /\ new = RegSlot(home) /\ q.reuse = Noted(p, slot.reg, home)

\* With reuse, the slots of one register stay in one register.
LEMMA TurnReuses ==
  ASSUME NEW p \in Placement, NEW slot \in Slot, NEW taken, NEW q, NEW new,
         Turn(p, q, slot, TRUE, TRUE, taken, new)
  PROVE  Reusing(p, q, slot, taken, new)
<1> DEFINE h    == Home(p, slot, TRUE, taken)
           free == (Regs \ p.d.used) \ taken
<1>1. h = IF slot.loc = "reg" /\ slot.reg \notin p.d.used THEN slot.reg
          ELSE IF slot.loc = "reg" /\ p.reuse[slot.reg] # NoReg THEN p.reuse[slot.reg]
          ELSE IF free # {} THEN FirstOf(free) ELSE NoReg
  BY DEF Home
<1>2. free # {} => FirstOf(free) \in free  BY RegsAssumption, FirstOfIsLeast
<1>3. slot.loc \in {"stack", "reg", "const"} /\ (slot.loc = "reg" => slot.reg \in Regs)
  BY SlotShape
<1>4. NoReg \notin Regs  BY RegsAssumption DEF NoReg
<1>5. \/ (slot.loc = "stack" \/ slot.loc = "const") /\ new = slot /\ q.reuse = p.reuse
      \/ ~(slot.loc = "stack" \/ slot.loc = "const") /\ h = NoReg
         /\ new = StackSlot /\ q.reuse = p.reuse
      \/ ~(slot.loc = "stack" \/ slot.loc = "const") /\ h \in Regs
         /\ new = RegSlot(h) /\ q.reuse = Noted(p, slot.reg, h)
  BY DEF Turn, Noted
<1>6. p.reuse \in [Regs -> Regs \cup {NoReg}]  BY DEF Placement
<1> HIDE DEF h
<1>7. slot.loc # "reg" => new = slot /\ q.reuse = p.reuse  BY <1>3, <1>5
<1>8. ASSUME slot.loc = "reg"
      PROVE  \/ /\ p.reuse[slot.reg] = NoReg /\ free = {}
                /\ new = StackSlot /\ q.reuse = p.reuse
             \/ /\ slot.reg \in p.d.used /\ p.reuse[slot.reg] # NoReg
                /\ new = RegSlot(p.reuse[slot.reg]) /\ q.reuse = p.reuse
             \/ \E home \in Regs \ p.d.used :
                  /\ \/ home = slot.reg
                     \/ slot.reg \in p.d.used /\ p.reuse[slot.reg] = NoReg /\ home \notin taken
                  /\ new = RegSlot(home) /\ q.reuse = Noted(p, slot.reg, home)
  <2>1. slot.reg \in Regs  BY <1>3, <1>8
  <2>2. CASE h = NoReg
    <3>1. new = StackSlot /\ q.reuse = p.reuse  BY <1>4, <1>5, <1>8, <2>2
    <3>2. p.reuse[slot.reg] = NoReg /\ free = {}
      <4> HIDE DEF free
      <4>1. slot.reg \in p.d.used  BY <1>1, <1>4, <1>8, <2>1, <2>2
      <4>2. p.reuse[slot.reg] = NoReg  BY <1>1, <1>8, <2>2, <4>1
      <4>3. free # {} => h = FirstOf(free)  BY <1>1, <1>8, <4>1, <4>2
      <4>4. free # {} => h \in Regs  BY <1>2, <4>3 DEF free
      <4> QED  BY <1>4, <2>2, <4>2, <4>4
    <3> QED  BY <3>1, <3>2
  <2>3. CASE h # NoReg
    <3>1. h \in Regs /\ new = RegSlot(h) /\ q.reuse = Noted(p, slot.reg, h)
      BY <1>5, <1>8, <2>3
    <3>2. CASE slot.reg \notin p.d.used
      <4>1. h = slot.reg  BY <1>1, <1>8, <3>2
      <4> QED  BY <2>1, <3>1, <3>2, <4>1
    <3>3. CASE slot.reg \in p.d.used /\ p.reuse[slot.reg] # NoReg
      <4>1. h = p.reuse[slot.reg]  BY <1>1, <1>8, <3>3
      <4> QED  BY <3>1, <3>3, <4>1 DEF Noted
    <3>4. CASE slot.reg \in p.d.used /\ p.reuse[slot.reg] = NoReg
      <4> HIDE DEF free
      <4>1. free # {} /\ h = FirstOf(free)  BY <1>1, <1>8, <2>3, <3>4
      <4>2. h \in Regs \ p.d.used /\ h \notin taken  BY <1>2, <4>1 DEF free
      <4> QED  BY <3>1, <3>4, <4>2
    <3> QED  BY <3>2, <3>3, <3>4
  <2> QED  BY <2>2, <2>3
<1> QED  BY <1>7, <1>8 DEF Reusing

LEMMA TracksStep ==
  ASSUME NEW d \in Context, NEW slots, NEW taken, NEW k \in Nat, NEW p, Placed(d, slots, k, p),
         Tracks(slots, taken, k, p), \A i \in 1 .. k : slots[i] \in Slot,
         slots[k + 1] \in Slot, NEW q, NEW new \in Slot,
         Turn(p, q, slots[k + 1], TRUE, TRUE, taken, new)
  PROVE  Tracks(slots, taken, k + 1, q)
<1> DEFINE slot == slots[k + 1]
<1>1. p \in Placement /\ Len(p.d.stack) = k  BY DEF Placed
<1>2. /\ \A i \in 1 .. k : q.d.stack[i] = p.d.stack[i]
      /\ q.d.stack[k + 1] = new
      /\ q.d.used = p.d.used \cup {r \in Regs : new = RegSlot(r)}
  BY <1>1 DEF Turn
<1>3. slot.loc = "reg" => slot.reg \in Regs  BY SlotShape
<1>4. new.loc # "reg" => q.d.used = p.d.used  BY <1>2 DEF RegSlot
<1>5. Reusing(p, q, slot, taken, new)  BY <1>1, TurnReuses
<1>6. CASE slot.loc # "reg"
  <2>1. new = slot /\ q.reuse = p.reuse
    <3> HIDE DEF slot
    <3> QED  BY <1>5, <1>6 DEF Reusing
  <2> QED  BY <1>2, <1>4, <1>6, <2>1, TracksKept
<1>7. CASE slot.loc = "reg"
  <2> DEFINE r == slot.reg
  <2>1. \/ /\ p.reuse[r] = NoReg /\ (Regs \ p.d.used) \ taken = {}
           /\ new = StackSlot /\ q.reuse = p.reuse
        \/ /\ r \in p.d.used /\ p.reuse[r] # NoReg
           /\ new = RegSlot(p.reuse[r]) /\ q.reuse = p.reuse
        \/ \E home \in Regs \ p.d.used :
             /\ \/ home = r
                \/ r \in p.d.used /\ p.reuse[r] = NoReg /\ home \notin taken
             /\ new = RegSlot(home) /\ q.reuse = Noted(p, r, home)
    <3> HIDE DEF slot
    <3> QED  BY <1>5, <1>7 DEF Reusing
  <2>2. CASE /\ p.reuse[r] = NoReg /\ (Regs \ p.d.used) \ taken = {}
             /\ new = StackSlot /\ q.reuse = p.reuse
    <3>1. q.d.used = p.d.used  BY <1>4, <2>2 DEF StackSlot
    <3> QED  BY <1>2, <1>7, <2>2, <3>1, TracksKept
  <2>3. CASE /\ r \in p.d.used /\ p.reuse[r] # NoReg
             /\ new = RegSlot(p.reuse[r]) /\ q.reuse = p.reuse
    BY <1>2, <1>3, <1>7, <2>3, TracksReused
  <2>4. CASE \E home \in Regs \ p.d.used :
               /\ \/ home = r
                  \/ r \in p.d.used /\ p.reuse[r] = NoReg /\ home \notin taken
               /\ new = RegSlot(home) /\ q.reuse = Noted(p, r, home)
    <3>1. PICK home \in Regs \ p.d.used :
            /\ \/ home = r
               \/ r \in p.d.used /\ p.reuse[r] = NoReg /\ home \notin taken
            /\ new = RegSlot(home) /\ q.reuse = Noted(p, r, home)
      BY <2>4
    <3>2. p.reuse[r] = NoReg
      <4>1. r \in Regs  BY <1>3, <1>7
      <4>2. p.reuse[r] # NoReg => r \in p.d.used  BY <4>1 DEF Tracks
      <4> QED  BY <3>1, <4>2
    <3>3. q.reuse = [p.reuse EXCEPT ![r] = home]  BY <3>1, <3>2 DEF Noted
    <3>4. home = r \/ (r \in p.d.used /\ home \notin taken)  BY <3>1
    <3> QED  BY <1>2, <1>3, <1>7, <3>1, <3>2, <3>3, <3>4, TracksNew
  <2> QED  BY <2>1, <2>2, <2>3, <2>4
<1> QED  BY <1>6, <1>7

\* What is known of a region once it is placed on d.
FilledApart(d, slots, e) ==
  \E p : e = p.d /\ Placed(d, slots, Len(slots), p) /\ Apart(Len(slots), p)

\* A region laid out with reuse, whole.
FilledTogether(d, slots, taken, e) ==
  \E p : e = p.d /\ Placed(d, slots, Len(slots), p) /\ Tracks(slots, taken, Len(slots), p)

\* What the two kinds of region come to.
LEMMA RegionApart ==
  ASSUME NEW d \in Context, NEW slots \in Seq(Slot), NEW keeps \in BOOLEAN,
         NEW reuses \in BOOLEAN, ~reuses, NEW taken
  PROVE  FilledApart(d, slots, Region(d, slots, keeps, reuses, taken))
<1> DEFINE m == Len(slots)
<1>1. m \in Nat /\ \A i \in 1 .. m : slots[i] \in Slot  OBVIOUS
<1>2. d.count \in [Regs -> Nat]  BY ContextShape
<1>3. PICK f : /\ Region(d, slots, keeps, reuses, taken) = f[m].d
               /\ Steps(d, slots, keeps, reuses, taken, m, f)
  BY <1>1, RegionTurns
<1> DEFINE P(k) == Placed(d, slots, k, f[k]) /\ Apart(k, f[k])
           S == {k \in Nat : k <= m => P(k)}
<1>4. 0 \in S
  <2>1. Placed(d, slots, 0, f[0])  BY <1>3, PlacedStart DEF Steps
  <2>2. Apart(0, f[0])  BY DEF Apart
  <2>3. P(0)  BY <2>1, <2>2
  <2> HIDE DEF P
  <2> QED  BY <2>3
<1> HIDE DEF m
<1>5. ASSUME NEW k \in Nat, k \in S PROVE k + 1 \in S
  <2> SUFFICES ASSUME k + 1 <= m
               PROVE  Placed(d, slots, k + 1, f[k + 1]) /\ Apart(k + 1, f[k + 1])
    OBVIOUS
  <2>1. k <= m /\ k \in 0 .. m - 1 /\ k + 1 \in 1 .. m  BY <1>1
  <2>2. Placed(d, slots, k, f[k]) /\ Apart(k, f[k])  BY <1>5, <2>1
  <2>3. slots[k + 1] \in Slot  BY <1>1, <2>1
  <2>4. f[k + 1] = Place(f[k], slots[k + 1], keeps, reuses, taken)  BY <1>3, <2>1 DEF Steps
  <2>5. f[k] \in Placement /\ Adds(d, f[k].d)  BY <2>2 DEF Placed
  <2>6. /\ Adds(d, f[k + 1].d)
        /\ \E new \in Slot : Turn(f[k], f[k + 1], slots[k + 1], keeps, reuses, taken, new)
    BY <1>2, <2>3, <2>4, <2>5, PlaceTurns
  <2>7. PICK new \in Slot : Turn(f[k], f[k + 1], slots[k + 1], keeps, reuses, taken, new)
    BY <2>6
  <2>8. Placed(d, slots, k + 1, f[k + 1])  BY <2>2, <2>3, <2>6, <2>7, PlacedStep
  <2>9. Apart(k + 1, f[k + 1])  BY <2>2, <2>3, <2>7, ApartStep
  <2> QED  BY <2>8, <2>9
<1> HIDE DEF S
<1>6. m \in S  BY <1>1, <1>4, <1>5, UpTo
<1>7. Placed(d, slots, m, f[m]) /\ Apart(m, f[m])  BY <1>1, <1>6 DEF S
<1> QED  BY <1>3, <1>7 DEF FilledApart, m

LEMMA RegionTracks ==
  ASSUME NEW d \in Context, NEW slots \in Seq(Slot), NEW taken
  PROVE  FilledTogether(d, slots, taken, Region(d, slots, TRUE, TRUE, taken))
<1> DEFINE m == Len(slots)
<1>1. m \in Nat /\ \A i \in 1 .. m : slots[i] \in Slot  OBVIOUS
<1>2. d.count \in [Regs -> Nat]  BY ContextShape
<1>3. PICK f : /\ Region(d, slots, TRUE, TRUE, taken) = f[m].d
               /\ Steps(d, slots, TRUE, TRUE, taken, m, f)
  BY <1>1, RegionTurns
<1> DEFINE P(k) == Placed(d, slots, k, f[k]) /\ Tracks(slots, taken, k, f[k])
           S == {k \in Nat : k <= m => P(k)}
<1>4. 0 \in S
  <2>1. Placed(d, slots, 0, f[0])  BY <1>3, PlacedStart DEF Steps
  <2>2. \A r \in Regs : f[0].reuse[r] = NoReg  BY <1>3 DEF Steps, Placing
  <2>3. Tracks(slots, taken, 0, f[0])  BY <2>2 DEF Tracks
  <2>4. P(0)  BY <2>1, <2>3
  <2> HIDE DEF P
  <2> QED  BY <2>4
<1> HIDE DEF m
<1>5. ASSUME NEW k \in Nat, k \in S PROVE k + 1 \in S
  <2> SUFFICES ASSUME k + 1 <= m
               PROVE  Placed(d, slots, k + 1, f[k + 1]) /\ Tracks(slots, taken, k + 1, f[k + 1])
    OBVIOUS
  <2>1. k <= m /\ k \in 0 .. m - 1 /\ k + 1 \in 1 .. m  BY <1>1
  <2>2. Placed(d, slots, k, f[k]) /\ Tracks(slots, taken, k, f[k])  BY <1>5, <2>1
  <2>3. slots[k + 1] \in Slot  BY <1>1, <2>1
  <2>4. f[k + 1] = Place(f[k], slots[k + 1], TRUE, TRUE, taken)  BY <1>3, <2>1 DEF Steps
  <2>5. f[k] \in Placement /\ Adds(d, f[k].d)  BY <2>2 DEF Placed
  <2>6. /\ Adds(d, f[k + 1].d)
        /\ \E new \in Slot : Turn(f[k], f[k + 1], slots[k + 1], TRUE, TRUE, taken, new)
    BY <1>2, <2>3, <2>4, <2>5, PlaceTurns
  <2>7. PICK new \in Slot : Turn(f[k], f[k + 1], slots[k + 1], TRUE, TRUE, taken, new)
    BY <2>6
  <2>8. Placed(d, slots, k + 1, f[k + 1])  BY <2>2, <2>3, <2>6, <2>7, PlacedStep
  <2>9. Tracks(slots, taken, k + 1, f[k + 1])
    <3>1. \A i \in 1 .. k : slots[i] \in Slot  BY <1>1, <2>1
    <3> QED  BY <2>2, <2>3, <2>7, <3>1, TracksStep
  <2> QED  BY <2>8, <2>9
<1> HIDE DEF S
<1>6. m \in S  BY <1>1, <1>4, <1>5, UpTo
<1>7. Placed(d, slots, m, f[m]) /\ Tracks(slots, taken, m, f[m])  BY <1>1, <1>6 DEF S
<1> QED  BY <1>3, <1>7 DEF FilledTogether, m

\* Of a region only the shape matters: the registers of its slots are new, and
\* those of the slots it stands for are in use.
Part(d, slots, e) ==
  /\ e \in Context /\ Len(e.stack) = Len(slots) /\ Adds(d, e)
  /\ e.spills = d.spills /\ e.mem = d.mem
  /\ \A i \in 1 .. Len(slots) : /\ e.stack[i].loc = "reg" => e.stack[i].reg \notin d.used
                                /\ slots[i].loc = "reg" => slots[i].reg \in e.used

\* No slot is a constant, and no register has two slots.
Single(e) ==
  \A i \in 1 .. Len(e.stack) : /\ e.stack[i].loc # "const"
                               /\ e.stack[i].loc = "reg" =>
                                    \A j \in 1 .. Len(e.stack) : e.stack[j] = e.stack[i] => j = i

\* Constants and slots in the frame are the same, registers stand for registers.
Together(slots, e) ==
  /\ \A i \in 1 .. Len(slots) : slots[i].loc # "reg" => e.stack[i] = slots[i]
  /\ \A i \in 1 .. Len(slots) : slots[i].loc = "reg" => e.stack[i].loc # "const"
  /\ \A i, j \in 1 .. Len(slots) :
       slots[i].loc = "reg" /\ slots[j].loc = "reg"
         => /\ slots[i] = slots[j] => e.stack[i] = e.stack[j]
            /\ e.stack[i].loc = "reg" /\ e.stack[i] = e.stack[j] => slots[i] = slots[j]

LEMMA FilledApartIsPart ==
  ASSUME NEW d, NEW slots, NEW e, FilledApart(d, slots, e)
  PROVE  Part(d, slots, e) /\ Single(e)
<1>1. PICK p : e = p.d /\ Placed(d, slots, Len(slots), p) /\ Apart(Len(slots), p)
  BY DEF FilledApart
<1>2. p \in Placement /\ Len(e.stack) = Len(slots)  BY <1>1 DEF Placed
<1>3. e \in Context  BY <1>1, <1>2 DEF Placement
<1>4. Part(d, slots, e)  BY <1>1, <1>2, <1>3 DEF Placed, Part
<1>5. Single(e)  BY <1>1, <1>2 DEF Apart, Single
<1> QED  BY <1>4, <1>5

LEMMA FilledTogetherIsPart ==
  ASSUME NEW d, NEW slots \in Seq(Slot), NEW taken, NEW e, FilledTogether(d, slots, taken, e)
  PROVE  Part(d, slots, e) /\ Together(slots, e)
<1>1. PICK p : e = p.d /\ Placed(d, slots, Len(slots), p) /\ Tracks(slots, taken, Len(slots), p)
  BY DEF FilledTogether
<1>2. p \in Placement /\ Len(e.stack) = Len(slots)  BY <1>1 DEF Placed
<1>3. e \in Context  BY <1>1, <1>2 DEF Placement
<1>4. Part(d, slots, e)  BY <1>1, <1>2, <1>3 DEF Placed, Part
<1>5. \A i \in 1 .. Len(slots) : slots[i] \in Slot  OBVIOUS
<1> DEFINE home(i) == p.reuse[slots[i].reg]
<1>6. ASSUME NEW i \in 1 .. Len(slots), slots[i].loc = "reg"
      PROVE  /\ slots[i].reg \in Regs /\ slots[i] = RegSlot(slots[i].reg)
             /\ e.stack[i] = IF home(i) = NoReg THEN StackSlot ELSE RegSlot(home(i))
  <2>1. slots[i] \in Slot  BY <1>5
  <2>2. slots[i].reg \in Regs /\ slots[i] = RegSlot(slots[i].reg)  BY <1>6, <2>1, SlotShape
  <2>3. e.stack[i] = IF home(i) = NoReg THEN StackSlot ELSE RegSlot(home(i))
    BY <1>1, <1>6 DEF Tracks
  <2> QED  BY <2>2, <2>3
<1>7. ASSUME NEW i \in 1 .. Len(slots), slots[i].loc = "reg"
      PROVE  /\ e.stack[i].loc # "const"
             /\ e.stack[i].loc = "reg" => home(i) # NoReg /\ e.stack[i].reg = home(i)
  <2> DEFINE z == home(i)
  <2>1. e.stack[i] = IF z = NoReg THEN StackSlot ELSE RegSlot(z)  BY <1>6, <1>7
  <2> HIDE DEF z
  <2>2. e.stack[i].loc # "const" /\ (e.stack[i].loc = "reg" => z # NoReg /\ e.stack[i].reg = z)
    BY <2>1 DEF StackSlot, RegSlot
  <2> QED  BY <2>2 DEF z
<1>8. ASSUME NEW i \in 1 .. Len(slots), NEW j \in 1 .. Len(slots), slots[i].loc = "reg",
             slots[j].loc = "reg"
      PROVE  /\ slots[i] = slots[j] => e.stack[i] = e.stack[j]
             /\ e.stack[i].loc = "reg" /\ e.stack[i] = e.stack[j] => slots[i] = slots[j]
  <2>1. slots[i] = slots[j] => e.stack[i] = e.stack[j]  BY <1>6, <1>8
  <2>2. ASSUME e.stack[i].loc = "reg", e.stack[i] = e.stack[j] PROVE slots[i] = slots[j]
    <3>1. home(i) # NoReg /\ home(i) = home(j)  BY <1>7, <1>8, <2>2
    <3>2. slots[i].reg = slots[j].reg  BY <1>1, <1>6, <1>8, <3>1 DEF Tracks
    <3> QED  BY <1>6, <1>8, <3>2
  <2> QED  BY <2>1, <2>2
<1>9. \A i \in 1 .. Len(slots) : slots[i].loc # "reg" => e.stack[i] = slots[i]
  BY <1>1 DEF Tracks
<1> HIDE DEF home
<1>10. Together(slots, e)  BY <1>7, <1>8, <1>9 DEF Together
<1> QED  BY <1>4, <1>10

\* The three regions of init_merge: merge, locals, and what is in between.
Pieces(s, base, locals, arity, m, l, b) ==
  /\ Part(FreshState, SubSeq(s.stack, Height(s) - arity + 1, Height(s)), m) /\ Single(m)
  /\ Part(m, SubSeq(s.stack, 1, locals), l) /\ Single(l)
  /\ Part(l, SubSeq(s.stack, locals + 1, base), b)
  /\ Together(SubSeq(s.stack, locals + 1, base), b)

\* The state a merge starts from: locals, what is under the results, the results.
Assembled(s, base, locals, arity, m, l, b) ==
  [b EXCEPT !.stack = l.stack \o b.stack \o m.stack,
            !.ok = Height(s) >= base /\ Reserved \cup Wanted(s, locals, arity) \subseteq l.used]

\* The regions are cut from the stack of the state.
LEMMA SubSeqOfSlots ==
  ASSUME NEW c \in Context, NEW m \in 1 .. Len(c.stack) + 1, NEW n \in 0 .. Len(c.stack), m <= n + 1
  PROVE  /\ SubSeq(c.stack, m, n) \in Seq(Slot) /\ Len(SubSeq(c.stack, m, n)) = n - m + 1
         /\ \A i \in 1 .. n - m + 1 : SubSeq(c.stack, m, n)[i] = c.stack[m + i - 1]
<1>1. DOMAIN c.stack = 1 .. Len(c.stack) /\ Len(c.stack) \in Nat
      /\ \A i \in 1 .. Len(c.stack) : c.stack[i] \in Slot
  BY ContextShape
<1>2. m \in Int /\ n \in Int /\ \A i \in m .. n : i \in 1 .. Len(c.stack)  BY <1>1
<1>3. \A i \in m .. n : c.stack[i] \in Slot  BY <1>1, <1>2
<1>4. IF m <= n THEN TRUE ELSE n - m + 1 = 0  BY <1>2
<1> QED  BY <1>2, <1>3, <1>4, SubSeqProperties

\* InitMerge assembles three regions.
LEMMA InitMergePieces ==
  ASSUME NEW s \in Context, NEW locals \in Nat, NEW base \in Nat, NEW arity \in Nat,
         locals <= base, base + arity <= Len(s.stack)
  PROVE  \E m, l, b : /\ Pieces(s, base, locals, arity, m, l, b)
                      /\ InitMerge(s, base, locals, arity) =
                           Assembled(s, base, locals, arity, m, l, b)
<1> DEFINE h     == Height(s)
           taken == Reserved \cup Wanted(s, locals, arity)
           moves == h # base + arity
           top == SubSeq(s.stack, h - arity + 1, h)
           low == SubSeq(s.stack, 1, locals)
           mid == SubSeq(s.stack, locals + 1, base)
           m == Region(FreshState, top, ~moves, FALSE, taken)
           l == Region(m, low, TRUE, FALSE, taken)
           b == Region(l, mid, TRUE, TRUE, taken)
<1>1. h = Len(s.stack) /\ h \in Nat  BY ContextShape DEF Height
<1>2. top \in Seq(Slot)
  <2>1. h - arity + 1 \in 1 .. Len(s.stack) + 1 /\ h \in 0 .. Len(s.stack) /\ h - arity + 1 <= h + 1
    BY <1>1
  <2> HIDE DEF h
  <2> QED  BY <2>1, SubSeqOfSlots
<1>3. low \in Seq(Slot)
  <2>1. 1 \in 1 .. Len(s.stack) + 1 /\ locals \in 0 .. Len(s.stack) /\ 1 <= locals + 1  BY <1>1
  <2> QED  BY <2>1, SubSeqOfSlots
<1>4. mid \in Seq(Slot)
  <2>1. locals + 1 \in 1 .. Len(s.stack) + 1 /\ base \in 0 .. Len(s.stack) /\ locals + 1 <= base + 1
    BY <1>1
  <2> QED  BY <2>1, SubSeqOfSlots
<1>5. InitMerge(s, base, locals, arity) = Assembled(s, base, locals, arity, m, l, b)
  BY DEF InitMerge, Assembled
<1>6. TRUE \in BOOLEAN /\ FALSE \in BOOLEAN /\ (~moves) \in BOOLEAN  OBVIOUS
<1>7. ~FALSE /\ FreshState \in Context  BY FreshSound
<1>8. ASSUME NEW d \in Context, NEW slots \in Seq(Slot), NEW keeps \in BOOLEAN
      PROVE  LET e == Region(d, slots, keeps, FALSE, taken) IN Part(d, slots, e) /\ Single(e)
  <2> HIDE DEF taken
  <2>1. FilledApart(d, slots, Region(d, slots, keeps, FALSE, taken))  BY <1>6, <1>7, RegionApart
  <2> QED  BY <2>1, FilledApartIsPart
<1> HIDE DEF taken, moves, top, low, mid
<1>9. Part(FreshState, top, m) /\ Single(m)  BY <1>2, <1>6, <1>7, <1>8
<1>10. m \in Context  BY <1>9 DEF Part
<1> HIDE DEF m
<1>11. Part(m, low, l) /\ Single(l)  BY <1>3, <1>6, <1>8, <1>10
<1>12. l \in Context  BY <1>11 DEF Part
<1> HIDE DEF l
<1>13. FilledTogether(l, mid, taken, b)  BY <1>4, <1>12, RegionTracks
<1> HIDE DEF b
<1>14. Part(l, mid, b) /\ Together(mid, b)  BY <1>4, <1>13, FilledTogetherIsPart
<1>15. Pieces(s, base, locals, arity, m, l, b)
  BY <1>9, <1>11, <1>14 DEF Pieces, top, low, mid, h
<1> QED  BY <1>5, <1>15

\* A set of slots keeps its size when it is moved.
LEMMA ShiftedCardinality ==
  ASSUME NEW S \in SUBSET Int, IsFiniteSet(S), NEW n \in Int
  PROVE  Cardinality({i + n : i \in S}) = Cardinality(S)
<1> DEFINE T == {i + n : i \in S}
           f == [i \in S |-> i + n]
<1>1. f \in [S -> T] /\ \A x, y \in S : f[x] = f[y] => x = y  OBVIOUS
<1>2. \A x \in T : \E i \in S : f[i] = x  OBVIOUS
<1>3. f \in Bijection(S, T)
  <2> HIDE DEF f, T
  <2> QED  BY <1>1, <1>2, Fun_IsBij
<1>4. ExistsBijection(S, T)  BY <1>3 DEF ExistsBijection
<1> HIDE DEF T, f
<1>5. Cardinality(T) = Cardinality(S)  BY <1>4, FS_Bijection
<1> QED  BY <1>5 DEF T

\* The three regions one above the other.
Laid(s, base, locals, arity, t, m, l, b) ==
  /\ t \in Context /\ Len(t.stack) = base + arity
  /\ Len(l.stack) = locals /\ Len(b.stack) = base - locals /\ Len(m.stack) = arity
  /\ \A i \in 1 .. locals : t.stack[i] = l.stack[i]
  /\ \A i \in 1 .. base - locals : t.stack[locals + i] = b.stack[i]
  /\ \A i \in 1 .. arity : t.stack[base + i] = m.stack[i]
  /\ t.used = b.used /\ t.count = b.count /\ t.spills = 0 /\ t.mem = NoFrame
  /\ t.ok = (Height(s) >= base /\ Reserved \cup Wanted(s, locals, arity) \subseteq l.used)

\* Every slot of the state comes from one of the three regions.
LEMMA AssembledShape ==
  ASSUME NEW s \in Context, NEW locals \in Nat, NEW base \in Nat, NEW arity \in Nat,
         locals <= base, base + arity <= Len(s.stack), NEW m, NEW l, NEW b,
         Pieces(s, base, locals, arity, m, l, b)
  PROVE  Laid(s, base, locals, arity, Assembled(s, base, locals, arity, m, l, b), m, l, b)
<1> DEFINE h == Height(s)
           k == Height(s) >= base /\ Reserved \cup Wanted(s, locals, arity) \subseteq l.used
           z == l.stack \o b.stack \o m.stack
           t == [b EXCEPT !.stack = z, !.ok = k]
<1>1. h = Len(s.stack) /\ h \in Nat  BY ContextShape DEF Height
<1>2. m \in Context /\ l \in Context /\ b \in Context  BY DEF Pieces, Part
<1>3. m.stack \in Seq(Slot) /\ l.stack \in Seq(Slot) /\ b.stack \in Seq(Slot)
  BY <1>2, ContextShape
<1>4. Len(m.stack) = arity
  <2>1. h - arity + 1 \in 1 .. Len(s.stack) + 1 /\ h \in 0 .. Len(s.stack) /\ h - arity + 1 <= h + 1
    BY <1>1
  <2> HIDE DEF h
  <2>2. Len(SubSeq(s.stack, h - arity + 1, h)) = h - (h - arity + 1) + 1
    BY <2>1, SubSeqOfSlots
  <2>3. Len(m.stack) = Len(SubSeq(s.stack, h - arity + 1, h))  BY DEF Pieces, Part, h
  <2> QED  BY <1>1, <2>2, <2>3
<1>5. Len(l.stack) = locals
  <2>1. 1 \in 1 .. Len(s.stack) + 1 /\ locals \in 0 .. Len(s.stack) /\ 1 <= locals + 1  BY <1>1
  <2>2. Len(SubSeq(s.stack, 1, locals)) = locals - 1 + 1  BY <2>1, SubSeqOfSlots
  <2> QED  BY <2>2 DEF Pieces, Part
<1>6. Len(b.stack) = base - locals
  <2>1. locals + 1 \in 1 .. Len(s.stack) + 1 /\ base \in 0 .. Len(s.stack) /\ locals + 1 <= base + 1
    BY <1>1
  <2>2. Len(SubSeq(s.stack, locals + 1, base)) = base - (locals + 1) + 1  BY <2>1, SubSeqOfSlots
  <2> QED  BY <2>2 DEF Pieces, Part
<1>7. /\ z \in Seq(Slot) /\ Len(z) = base + arity
      /\ \A i \in 1 .. locals : z[i] = l.stack[i]
      /\ \A i \in 1 .. base - locals : z[locals + i] = b.stack[i]
      /\ \A i \in 1 .. arity : z[base + i] = m.stack[i]
  <2> DEFINE y == l.stack \o b.stack
  <2>1. /\ y \in Seq(Slot) /\ Len(y) = base
        /\ \A i \in 1 .. base : y[i] = IF i <= locals THEN l.stack[i] ELSE b.stack[i - locals]
    <3>1. /\ y \in Seq(Slot) /\ Len(y) = Len(l.stack) + Len(b.stack)
          /\ \A i \in 1 .. Len(l.stack) + Len(b.stack) :
               y[i] = IF i <= Len(l.stack) THEN l.stack[i] ELSE b.stack[i - Len(l.stack)]
      BY <1>3, ConcatProperties
    <3>2. locals + (base - locals) = base  OBVIOUS
    <3> QED  BY <1>5, <1>6, <3>1, <3>2
  <2> HIDE DEF y
  <2>2. /\ y \o m.stack \in Seq(Slot) /\ Len(y \o m.stack) = base + arity
        /\ \A i \in 1 .. base + arity :
             (y \o m.stack)[i] = IF i <= base THEN y[i] ELSE m.stack[i - base]
    <3>1. /\ y \o m.stack \in Seq(Slot) /\ Len(y \o m.stack) = Len(y) + Len(m.stack)
          /\ \A i \in 1 .. Len(y) + Len(m.stack) :
               (y \o m.stack)[i] = IF i <= Len(y) THEN y[i] ELSE m.stack[i - Len(y)]
      BY <1>3, <2>1, ConcatProperties
    <3> QED  BY <1>4, <2>1, <3>1
  <2>3. z = y \o m.stack  BY DEF y
  <2> HIDE DEF z
  <2>4. \A i \in 1 .. base + arity : z[i] = IF i <= base THEN y[i] ELSE m.stack[i - base]
    BY <2>2, <2>3
  <2>5. ASSUME NEW i \in 1 .. locals PROVE z[i] = l.stack[i]
    <3>1. i \in 1 .. base /\ i \in 1 .. base + arity /\ i <= locals  OBVIOUS
    <3> QED  BY <2>1, <2>4, <3>1
  <2>6. ASSUME NEW i \in 1 .. base - locals PROVE z[locals + i] = b.stack[i]
    <3>1. /\ locals + i \in 1 .. base /\ locals + i \in 1 .. base + arity
          /\ ~(locals + i <= locals) /\ locals + i - locals = i
      OBVIOUS
    <3> QED  BY <2>1, <2>4, <3>1
  <2>7. ASSUME NEW i \in 1 .. arity PROVE z[base + i] = m.stack[i]
    <3>1. base + i \in 1 .. base + arity /\ ~(base + i <= base) /\ base + i - base = i  OBVIOUS
    <3> QED  BY <2>4, <3>1
  <2> QED  BY <2>2, <2>3, <2>5, <2>6, <2>7
<1>8. Assembled(s, base, locals, arity, m, l, b) = t  BY DEF Assembled
<1>9. k \in BOOLEAN  OBVIOUS
<1>10. b.spills = 0 /\ b.mem = NoFrame
  <2>1. FreshState.spills = 0 /\ FreshState.mem = NoFrame  BY DEF FreshState
  <2> QED  BY <2>1 DEF Pieces, Part
<1> HIDE DEF z, k
<1>11. /\ t \in Context /\ t.stack = z /\ t.used = b.used /\ t.count = b.count /\ t.spills = 0
       /\ t.mem = NoFrame /\ t.ok = k
  BY <1>2, <1>7, <1>9, <1>10 DEF Context
<1> HIDE DEF t
<1>12. Laid(s, base, locals, arity, t, m, l, b)
  BY <1>4, <1>5, <1>6, <1>7, <1>11 DEF Laid, k
<1> QED  BY <1>8, <1>12

\* A region takes registers that were not in use: no register has slots in two.
LEMMA PartHolders ==
  ASSUME NEW d, NEW slots, NEW e, Part(d, slots, e), NEW r \in Regs
  PROVE  /\ r \in e.used <=> r \in d.used \/ Holders(e, r) # {}
         /\ Holders(e, r) # {} => r \notin d.used
         /\ e.count[r] = d.count[r] + Cardinality(Holders(e, r))
         /\ Holders(e, r) \subseteq 1 .. Len(e.stack)
         /\ IsFiniteSet(Holders(e, r)) /\ Cardinality(Holders(e, r)) \in Nat
<1>1. e \in Context /\ Adds(d, e)  BY DEF Part
<1>2. /\ Holders(e, r) \subseteq 1 .. Len(e.stack) /\ IsFiniteSet(Holders(e, r))
      /\ Cardinality(Holders(e, r)) \in Nat
  BY <1>1, HoldersFinite
<1>3. Holders(e, r) # {} => r \notin d.used
  <2>1. ASSUME NEW i \in Holders(e, r) PROVE r \notin d.used
    <3>1. i \in 1 .. Len(slots) /\ e.stack[i].loc = "reg" /\ e.stack[i].reg = r
      BY <1>2, <2>1 DEF Holders, Part
    <3> QED  BY <3>1 DEF Part
  <2> QED  BY <2>1
<1> QED  BY <1>1, <1>2, <1>3 DEF Adds

\* No register is held by two of the regions, and the counts add up.
LEMMA PiecesHolders ==
  ASSUME NEW s, NEW base, NEW locals, NEW arity, NEW m, NEW l, NEW b,
         Pieces(s, base, locals, arity, m, l, b), NEW r \in Regs
  PROVE  /\ r \in l.used <=> r \in Reserved \/ Holders(m, r) # {} \/ Holders(l, r) # {}
         /\ r \in b.used <=> r \in l.used \/ Holders(b, r) # {}
         /\ b.count[r] = Cardinality(Holders(m, r)) + Cardinality(Holders(l, r))
                         + Cardinality(Holders(b, r))
         /\ Holders(m, r) # {} => r \notin Reserved
         /\ Holders(l, r) # {} => r \notin Reserved /\ Holders(m, r) = {}
         /\ Holders(b, r) # {} => r \notin Reserved /\ Holders(m, r) = {} /\ Holders(l, r) = {}
<1> DEFINE hm == Holders(m, r)
           hl == Holders(l, r)
           hb == Holders(b, r)
<1>1. /\ r \in m.used <=> r \in Reserved \/ hm # {}
      /\ hm # {} => r \notin Reserved
      /\ m.count[r] = 0 + Cardinality(hm) /\ Cardinality(hm) \in Nat
  <2>1. FreshState.used = Reserved /\ FreshState.count[r] = 0  BY FreshSound
  <2>2. \E slots : Part(FreshState, slots, m)  BY DEF Pieces
  <2> QED  BY <2>1, <2>2, PartHolders
<1>2. /\ r \in l.used <=> r \in m.used \/ hl # {}
      /\ hl # {} => r \notin m.used
      /\ l.count[r] = m.count[r] + Cardinality(hl) /\ Cardinality(hl) \in Nat
  <2>1. \E slots : Part(m, slots, l)  BY DEF Pieces
  <2> QED  BY <2>1, PartHolders
<1>3. /\ r \in b.used <=> r \in l.used \/ hb # {}
      /\ hb # {} => r \notin l.used
      /\ b.count[r] = l.count[r] + Cardinality(hb) /\ Cardinality(hb) \in Nat
  <2>1. \E slots : Part(l, slots, b)  BY DEF Pieces
  <2> QED  BY <2>1, PartHolders
<1> HIDE DEF hm, hl, hb
<1>4. b.count[r] = Cardinality(hm) + Cardinality(hl) + Cardinality(hb)  BY <1>1, <1>2, <1>3
<1> QED  BY <1>1, <1>2, <1>3, <1>4 DEF hm, hl, hb

\* Where the slots of a register went when the regions were laid one on the other.
HeldAbove(base, locals, t, m, l, b, r) ==
  Holders(t, r) = Holders(l, r) \cup {i + locals : i \in Holders(b, r)}
                                \cup {i + base : i \in Holders(m, r)}

\* The holders of a register in the state, from those in the regions.
LEMMA LaidHolders ==
  ASSUME NEW s, NEW base \in Nat, NEW locals \in Nat, locals <= base, NEW arity \in Nat,
         NEW t, NEW m \in Context, NEW l \in Context, NEW b \in Context,
         Laid(s, base, locals, arity, t, m, l, b), NEW r \in Regs
  PROVE  HeldAbove(base, locals, t, m, l, b, r)
<1>1. /\ DOMAIN t.stack = 1 .. base + arity /\ DOMAIN l.stack = 1 .. locals
      /\ DOMAIN b.stack = 1 .. base - locals /\ DOMAIN m.stack = 1 .. arity
  <2>1. t \in Context  BY DEF Laid
  <2> QED  BY <2>1, ContextShape DEF Laid
<1>2. ASSUME NEW i \in Holders(t, r)
      PROVE  \/ i \in Holders(l, r)
             \/ \E j \in Holders(b, r) : i = j + locals
             \/ \E j \in Holders(m, r) : i = j + base
  <2>1. i \in 1 .. base + arity /\ t.stack[i].loc = "reg" /\ t.stack[i].reg = r
    BY <1>1, <1>2 DEF Holders
  <2>2. CASE i <= locals
    <3>1. i \in 1 .. locals  BY <2>1, <2>2
    <3> QED  BY <1>1, <2>1, <3>1 DEF Holders, Laid
  <2>3. CASE locals < i /\ i <= base
    <3>1. i - locals \in 1 .. base - locals /\ locals + (i - locals) = i
          /\ (i - locals) + locals = i
      BY <2>1, <2>3
    <3>2. t.stack[locals + (i - locals)] = b.stack[i - locals]  BY <3>1 DEF Laid
    <3>3. i - locals \in Holders(b, r)  BY <1>1, <2>1, <3>1, <3>2 DEF Holders
    <3> QED  BY <3>1, <3>3
  <2>4. CASE base < i
    <3>1. i - base \in 1 .. arity /\ base + (i - base) = i /\ (i - base) + base = i
      BY <2>1, <2>4
    <3>2. t.stack[base + (i - base)] = m.stack[i - base]  BY <3>1 DEF Laid
    <3>3. i - base \in Holders(m, r)  BY <1>1, <2>1, <3>1, <3>2 DEF Holders
    <3> QED  BY <3>1, <3>3
  <2> QED  BY <2>1, <2>2, <2>3, <2>4
<1>3. \A i \in Holders(l, r) : i \in Holders(t, r)
  <2> SUFFICES ASSUME NEW i \in Holders(l, r) PROVE i \in Holders(t, r)  OBVIOUS
  <2>1. i \in 1 .. locals /\ i \in 1 .. base + arity  BY <1>1 DEF Holders
  <2> QED  BY <1>1, <2>1 DEF Holders, Laid
<1>4. \A i \in Holders(b, r) : i + locals \in Holders(t, r)
  <2> SUFFICES ASSUME NEW i \in Holders(b, r) PROVE i + locals \in Holders(t, r)  OBVIOUS
  <2>1. i \in 1 .. base - locals  BY <1>1 DEF Holders
  <2>2. locals + i = i + locals /\ i + locals \in 1 .. base + arity  BY <2>1
  <2>3. t.stack[locals + i] = b.stack[i]  BY <2>1 DEF Laid
  <2> QED  BY <1>1, <2>2, <2>3 DEF Holders
<1>5. \A i \in Holders(m, r) : i + base \in Holders(t, r)
  <2> SUFFICES ASSUME NEW i \in Holders(m, r) PROVE i + base \in Holders(t, r)  OBVIOUS
  <2>1. i \in 1 .. arity  BY <1>1 DEF Holders
  <2>2. base + i = i + base /\ i + base \in 1 .. base + arity  BY <2>1
  <2>3. t.stack[base + i] = m.stack[i]  BY <2>1 DEF Laid
  <2> QED  BY <1>1, <2>2, <2>3 DEF Holders
<1> QED  BY <1>2, <1>3, <1>4, <1>5 DEF HeldAbove

\* init_merge makes a well-formed state of the height the label asks for.
LEMMA LaidExact ==
  ASSUME NEW s, NEW base \in Nat, NEW locals \in Nat, locals <= base, NEW arity \in Nat,
         NEW t, NEW m, NEW l, NEW b, Pieces(s, base, locals, arity, m, l, b),
         Laid(s, base, locals, arity, t, m, l, b)
  PROVE  Exact(t) /\ Homes(t)
<1>1. m \in Context /\ l \in Context /\ b \in Context /\ t \in Context
  BY DEF Pieces, Part, Laid
<1>2. ASSUME NEW r \in Regs
      PROVE  /\ t.count[r] = Cardinality(Holders(t, r))
             /\ r \in t.used <=> (r \in Reserved \/ t.count[r] > 0)
             /\ Holders(t, r) # {} => r \notin Reserved
  <2> DEFINE hm == Holders(m, r)
             hl == Holders(l, r)
             hb == Holders(b, r)
             ht == Holders(t, r)
  <2>1. /\ r \in l.used <=> r \in Reserved \/ hm # {} \/ hl # {}
        /\ r \in b.used <=> r \in l.used \/ hb # {}
        /\ b.count[r] = Cardinality(hm) + Cardinality(hl) + Cardinality(hb)
        /\ hm # {} => r \notin Reserved
        /\ hl # {} => r \notin Reserved /\ hm = {}
        /\ hb # {} => r \notin Reserved /\ hm = {} /\ hl = {}
    BY PiecesHolders
  <2>2. ht = hl \cup {i + locals : i \in hb} \cup {i + base : i \in hm}
    <3>1. HeldAbove(base, locals, t, m, l, b, r)  BY <1>1, LaidHolders
    <3> QED  BY <3>1 DEF HeldAbove
  <2>3. /\ IsFiniteSet(hm) /\ Cardinality(hm) \in Nat /\ hm \in SUBSET Int
        /\ IsFiniteSet(hl) /\ Cardinality(hl) \in Nat
        /\ IsFiniteSet(hb) /\ Cardinality(hb) \in Nat /\ hb \in SUBSET Int
    <3>1. /\ hm \subseteq 1 .. Len(m.stack) /\ IsFiniteSet(hm) /\ Cardinality(hm) \in Nat
          /\ IsFiniteSet(hl) /\ Cardinality(hl) \in Nat
          /\ hb \subseteq 1 .. Len(b.stack) /\ IsFiniteSet(hb) /\ Cardinality(hb) \in Nat
      BY <1>1, HoldersFinite
    <3> QED  BY <3>1
  <2>4. t.count[r] = b.count[r] /\ t.used = b.used  BY DEF Laid
  <2> HIDE DEF hm, hl, hb, ht
  <2>5. /\ Cardinality({i + locals : i \in hb}) = Cardinality(hb)
        /\ Cardinality({i + base : i \in hm}) = Cardinality(hm)
    <3>1. locals \in Int /\ base \in Int  OBVIOUS
    <3>2. Cardinality({i + locals : i \in hb}) = Cardinality(hb)
      BY <2>3, <3>1, ShiftedCardinality
    <3>3. Cardinality({i + base : i \in hm}) = Cardinality(hm)
      BY <2>3, <3>1, ShiftedCardinality
    <3> QED  BY <3>2, <3>3
  <2>6. Cardinality({}) = 0 /\ \A S : IsFiniteSet(S) => (Cardinality(S) = 0 <=> S = {})
    BY FS_EmptySet
  <2>7. t.count[r] = Cardinality(ht) /\ (t.count[r] > 0 <=> ht # {})
        /\ (ht # {} => hl # {} \/ hb # {} \/ hm # {})
        /\ (ht = {} => hl = {} /\ hb = {} /\ hm = {})
    <3>1. CASE hb # {}
      <4>1. hm = {} /\ hl = {}  BY <2>1, <3>1
      <4>2. ht = {i + locals : i \in hb} /\ ht # {}  BY <2>2, <3>1, <4>1
      <4>3. Cardinality(ht) = Cardinality(hb) /\ Cardinality(hb) # 0  BY <2>3, <2>5, <2>6, <3>1, <4>2
      <4>4. b.count[r] = Cardinality(hb)  BY <2>1, <2>3, <2>6, <4>1
      <4> QED  BY <2>3, <2>4, <3>1, <4>2, <4>3, <4>4
    <3>2. CASE hb = {} /\ hl # {}
      <4>1. hm = {}  BY <2>1, <3>2
      <4>2. ht = hl /\ ht # {}  BY <2>2, <3>2, <4>1
      <4>3. Cardinality(ht) = Cardinality(hl) /\ Cardinality(hl) # 0  BY <2>3, <2>6, <3>2, <4>2
      <4>4. b.count[r] = Cardinality(hl)  BY <2>1, <2>3, <2>6, <3>2, <4>1
      <4> QED  BY <2>3, <2>4, <3>2, <4>2, <4>3, <4>4
    <3>3. CASE hb = {} /\ hl = {} /\ hm # {}
      <4>2. ht = {i + base : i \in hm} /\ ht # {}  BY <2>2, <3>3
      <4>3. Cardinality(ht) = Cardinality(hm) /\ Cardinality(hm) # 0  BY <2>3, <2>5, <2>6, <3>3, <4>2
      <4>4. b.count[r] = Cardinality(hm)  BY <2>1, <2>3, <2>6, <3>3
      <4> QED  BY <2>3, <2>4, <3>3, <4>2, <4>3, <4>4
    <3>4. CASE hb = {} /\ hl = {} /\ hm = {}
      <4>2. ht = {}  BY <2>2, <3>4
      <4>3. Cardinality(ht) = 0  BY <2>6, <4>2
      <4>4. b.count[r] = 0  BY <2>1, <2>6, <3>4
      <4> QED  BY <2>4, <3>4, <4>2, <4>3, <4>4
    <3> QED  BY <3>1, <3>2, <3>3, <3>4
  <2>8. r \in t.used <=> (r \in Reserved \/ t.count[r] > 0)  BY <2>1, <2>4, <2>7
  <2>9. ht # {} => r \notin Reserved  BY <2>1, <2>7
  <2> QED  BY <2>7, <2>8, <2>9 DEF ht
<1>3. Exact(t)  BY <1>2 DEF Exact
<1>4. Homes(t)
  <2> SUFFICES ASSUME NEW i \in DOMAIN t.stack PROVE t.stack[i].reg \notin Reserved
    BY DEF Homes
  <2>1. t.stack[i] \in Slot  BY <1>1, ContextShape
  <2>2. CASE t.stack[i].loc = "reg"
    <3>1. t.stack[i].reg \in Regs  BY <2>1, <2>2, SlotShape
    <3>2. i \in Holders(t, t.stack[i].reg)  BY <2>2 DEF Holders
    <3> QED  BY <1>2, <3>1, <3>2
  <2>3. CASE t.stack[i].loc # "reg"
    <3>1. t.stack[i].reg = NoReg  BY <2>1, <2>3, SlotShape
    <3> QED  BY <3>1, RegsAssumption DEF NoReg
  <2> QED  BY <2>2, <2>3
<1> QED  BY <1>3, <1>4

\* Every slot is one of a region.
InRegion(base, locals, arity, t, m, l, b, d) ==
  \/ d \in 1 .. locals /\ t.stack[d] = l.stack[d]
  \/ d \in locals + 1 .. base /\ d - locals \in 1 .. base - locals
     /\ t.stack[d] = b.stack[d - locals]
  \/ d \in base + 1 .. base + arity /\ d - base \in 1 .. arity
     /\ t.stack[d] = m.stack[d - base]

LEMMA LaidAt ==
  ASSUME NEW s, NEW base \in Nat, NEW locals \in Nat, locals <= base, NEW arity \in Nat,
         NEW t, NEW m, NEW l, NEW b, Laid(s, base, locals, arity, t, m, l, b),
         NEW d \in 1 .. base + arity
  PROVE  InRegion(base, locals, arity, t, m, l, b, d)
<1>1. CASE d <= locals
  <2>1. d \in 1 .. locals  BY <1>1
  <2> QED  BY <2>1 DEF Laid, InRegion
<1>2. CASE locals < d /\ d <= base
  <2>1. d \in locals + 1 .. base /\ d - locals \in 1 .. base - locals /\ locals + (d - locals) = d
    BY <1>2
  <2>2. t.stack[locals + (d - locals)] = b.stack[d - locals]  BY <2>1 DEF Laid
  <2> QED  BY <2>1, <2>2 DEF InRegion
<1>3. CASE base < d
  <2>1. d \in base + 1 .. base + arity /\ d - base \in 1 .. arity /\ base + (d - base) = d
    BY <1>3
  <2>2. t.stack[base + (d - base)] = m.stack[d - base]  BY <2>1 DEF Laid
  <2> QED  BY <2>1, <2>2 DEF InRegion
<1> QED  BY <1>1, <1>2, <1>3

\* Above base and below low, no slot is a constant and none shares its register.
Sole(c, low, base) ==
  \A d \in DOMAIN c.stack :
    d <= low \/ d > base => /\ c.stack[d].loc # "const"
                            /\ c.stack[d].loc = "reg" =>
                                 \A e \in DOMAIN c.stack : c.stack[e] = c.stack[d] => e = d

\* A register holds one slot, locals aside.
LEMMA LaidSole ==
  ASSUME NEW s, NEW base \in Nat, NEW locals \in Nat, locals <= base, NEW arity \in Nat,
         NEW t, NEW m, NEW l, NEW b, Pieces(s, base, locals, arity, m, l, b),
         Laid(s, base, locals, arity, t, m, l, b)
  PROVE  Sole(t, locals, base)
<1>1. /\ m \in Context /\ l \in Context /\ b \in Context /\ t \in Context
      /\ Single(m) /\ Single(l)
  BY DEF Pieces, Part, Laid
<1>2. /\ DOMAIN t.stack = 1 .. base + arity /\ DOMAIN l.stack = 1 .. locals
      /\ DOMAIN b.stack = 1 .. base - locals /\ DOMAIN m.stack = 1 .. arity
      /\ Len(l.stack) = locals /\ Len(m.stack) = arity
  BY <1>1, ContextShape DEF Laid
<1> SUFFICES ASSUME NEW d \in 1 .. base + arity, d <= locals \/ d > base
             PROVE  /\ t.stack[d].loc # "const"
                    /\ t.stack[d].loc = "reg" =>
                         \A e \in 1 .. base + arity : t.stack[e] = t.stack[d] => e = d
  BY <1>2 DEF Sole
<1>3. ASSUME NEW e \in 1 .. base + arity, t.stack[e].loc = "reg"
      PROVE  LET r == t.stack[e].reg
             IN  /\ r \in Regs
                 /\ \/ e \in 1 .. locals /\ Holders(l, r) # {} /\ t.stack[e] = l.stack[e]
                    \/ e \in locals + 1 .. base /\ Holders(b, r) # {}
                    \/ /\ e \in base + 1 .. base + arity /\ Holders(m, r) # {}
                       /\ e - base \in 1 .. arity /\ t.stack[e] = m.stack[e - base]
  <2> DEFINE r == t.stack[e].reg
  <2>1. t.stack[e] \in Slot  BY <1>1, <1>2, ContextShape
  <2>2. r \in Regs  BY <1>3, <2>1, SlotShape
  <2>3. CASE e \in 1 .. locals /\ t.stack[e] = l.stack[e]
    <3>1. e \in Holders(l, r)  BY <1>2, <1>3, <2>3 DEF Holders
    <3> QED  BY <2>2, <2>3, <3>1
  <2>4. CASE e \in locals + 1 .. base /\ e - locals \in 1 .. base - locals
             /\ t.stack[e] = b.stack[e - locals]
    <3>1. e - locals \in Holders(b, r)  BY <1>2, <1>3, <2>4 DEF Holders
    <3> QED  BY <2>2, <2>4, <3>1
  <2>5. CASE e \in base + 1 .. base + arity /\ e - base \in 1 .. arity
             /\ t.stack[e] = m.stack[e - base]
    <3>1. e - base \in Holders(m, r)  BY <1>2, <1>3, <2>5 DEF Holders
    <3> QED  BY <2>2, <2>5, <3>1
  <2>6. InRegion(base, locals, arity, t, m, l, b, e)  BY LaidAt
  <2> QED  BY <2>3, <2>4, <2>5, <2>6 DEF InRegion
<1>4. ASSUME NEW r \in Regs
      PROVE  /\ Holders(l, r) # {} => Holders(m, r) = {}
             /\ Holders(b, r) # {} => Holders(m, r) = {} /\ Holders(l, r) = {}
  BY PiecesHolders
<1>5. CASE d \in 1 .. locals /\ t.stack[d] = l.stack[d]
  <2>1. t.stack[d].loc # "const"  BY <1>1, <1>2, <1>5 DEF Single
  <2>2. ASSUME t.stack[d].loc = "reg", NEW e \in 1 .. base + arity, t.stack[e] = t.stack[d]
        PROVE  e = d
    <3>1. t.stack[d].reg \in Regs /\ Holders(l, t.stack[d].reg) # {}
      <4>1. d \in Holders(l, t.stack[d].reg)  BY <1>2, <1>5, <2>2 DEF Holders
      <4> QED  BY <1>3, <2>2, <4>1
    <3>2. e \in 1 .. locals /\ t.stack[e] = l.stack[e]  BY <1>3, <1>4, <2>2, <3>1
    <3> QED  BY <1>1, <1>2, <1>5, <2>2, <3>2 DEF Single
  <2> QED  BY <2>1, <2>2
<1>6. CASE d \in base + 1 .. base + arity /\ d - base \in 1 .. arity
           /\ t.stack[d] = m.stack[d - base]
  <2>1. t.stack[d].loc # "const"  BY <1>1, <1>2, <1>6 DEF Single
  <2>2. ASSUME t.stack[d].loc = "reg", NEW e \in 1 .. base + arity, t.stack[e] = t.stack[d]
        PROVE  e = d
    <3>1. t.stack[d].reg \in Regs /\ Holders(m, t.stack[d].reg) # {}
      <4>1. d - base \in Holders(m, t.stack[d].reg)  BY <1>2, <1>6, <2>2 DEF Holders
      <4> QED  BY <1>3, <2>2, <4>1
    <3>2. e - base \in 1 .. arity /\ t.stack[e] = m.stack[e - base]  BY <1>3, <1>4, <2>2, <3>1
    <3>3. e - base = d - base  BY <1>1, <1>2, <1>6, <2>2, <3>2 DEF Single
    <3> QED  BY <3>3
  <2> QED  BY <2>1, <2>2
<1>7. ~(d \in locals + 1 .. base)  OBVIOUS
<1>8. InRegion(base, locals, arity, t, m, l, b, d)  BY LaidAt
<1> QED  BY <1>5, <1>6, <1>7, <1>8 DEF InRegion

\* What lies in between agrees with the source.
LEMMA LaidFollows ==
  ASSUME NEW s \in Context, NEW base \in Nat, NEW locals \in Nat, locals <= base, NEW arity \in Nat,
         base + arity <= Len(s.stack), Len(s.stack) <= MaxHeight,
         NEW t, NEW m, NEW l, NEW b, Pieces(s, base, locals, arity, m, l, b),
         Laid(s, base, locals, arity, t, m, l, b)
  PROVE  Follows(s, t, locals + 1 .. base)
<1> DEFINE mid == SubSeq(s.stack, locals + 1, base)
<1>1. Together(mid, b)  BY DEF Pieces
<1>2. Len(mid) = base - locals /\ \A i \in 1 .. base - locals : mid[i] = s.stack[locals + i]
  <2>1. locals + 1 \in 1 .. Len(s.stack) + 1 /\ base \in 0 .. Len(s.stack) /\ locals + 1 <= base + 1
    BY ContextShape
  <2>2. /\ Len(mid) = base - (locals + 1) + 1
        /\ \A i \in 1 .. base - (locals + 1) + 1 : mid[i] = s.stack[locals + 1 + i - 1]
    BY <2>1, SubSeqOfSlots
  <2> HIDE DEF mid
  <2>3. base - (locals + 1) + 1 = base - locals
        /\ \A i \in 1 .. base - locals : locals + 1 + i - 1 = locals + i
    OBVIOUS
  <2> QED  BY <2>2, <2>3
<1> HIDE DEF mid
<1>3. ASSUME NEW i \in locals + 1 .. base
      PROVE  /\ \E k \in 1 .. Len(mid) : mid[k] = s.stack[i] /\ t.stack[i] = b.stack[k]
             /\ i \in Frame
  <2>1. i - locals \in 1 .. base - locals /\ locals + (i - locals) = i  OBVIOUS
  <2>2. t.stack[locals + (i - locals)] = b.stack[i - locals]  BY <2>1 DEF Laid
  <2>3. i \in 1 .. Len(s.stack) /\ i \in Frame  BY ContextShape, RegsAssumption DEF Frame
  <2>4. i - locals \in 1 .. Len(mid) /\ mid[i - locals] = s.stack[i]  BY <1>2, <2>1
  <2> QED  BY <2>1, <2>2, <2>3, <2>4
<1>4. ASSUME NEW i \in locals + 1 .. base
      PROVE  /\ s.stack[i].loc # "reg" => t.stack[i] = s.stack[i]
             /\ s.stack[i].loc = "reg" => t.stack[i].loc # "const"
  <2>1. PICK k \in 1 .. Len(mid) : mid[k] = s.stack[i] /\ t.stack[i] = b.stack[k]
    BY <1>3
  <2> QED  BY <1>1, <2>1 DEF Together
<1>5. ASSUME NEW i \in locals + 1 .. base, NEW j \in locals + 1 .. base, s.stack[i].loc = "reg",
             s.stack[j].loc = "reg"
      PROVE  /\ s.stack[i] = s.stack[j] => t.stack[i] = t.stack[j]
             /\ t.stack[i].loc = "reg" /\ t.stack[i] = t.stack[j] => s.stack[i] = s.stack[j]
  <2>1. PICK k \in 1 .. Len(mid) : mid[k] = s.stack[i] /\ t.stack[i] = b.stack[k]
    BY <1>3
  <2>2. PICK n \in 1 .. Len(mid) : mid[n] = s.stack[j] /\ t.stack[j] = b.stack[n]
    BY <1>3
  <2> QED  BY <1>1, <1>5, <2>1, <2>2 DEF Together
<1>6. ASSUME NEW i \in locals + 1 .. base, s.stack[i].loc = "const" \/ t.stack[i].loc = "const"
      PROVE  t.stack[i] = s.stack[i]
  BY <1>4, <1>6
<1>7. ASSUME NEW i \in locals + 1 .. base, NEW j \in locals + 1 .. base, t.stack[i].loc = "reg",
             t.stack[i] = t.stack[j]
      PROVE  s.stack[i].loc = "reg" /\ s.stack[i] = s.stack[j]
  <2>1. s.stack[i].loc = "reg" /\ s.stack[j].loc = "reg"  BY <1>4, <1>7
  <2> QED  BY <1>5, <1>7, <2>1
<1>8. ASSUME NEW i \in locals + 1 .. base, NEW j \in locals + 1 .. base, SameSource(s, i, j)
      PROVE  SameSource(t, i, j)
  <2>1. CASE s.stack[i].loc = "stack"
    <3>1. s.stack[j].loc = "stack"  BY <1>8, <2>1 DEF SameSource
    <3>2. t.stack[i].loc = "stack" /\ t.stack[j].loc = "stack"  BY <1>4, <2>1, <3>1
    <3>3. t.mem[i] = t.mem[j]
      <4>1. i \in Frame /\ j \in Frame  BY <1>3
      <4> QED  BY <4>1 DEF Laid, NoFrame
    <3> QED  BY <3>2, <3>3 DEF SameSource
  <2>2. CASE s.stack[i].loc # "stack"
    <3>1. s.stack[i].loc = "reg" /\ s.stack[j].loc = "reg" /\ s.stack[i] = s.stack[j]
      BY <1>8, <2>2 DEF SameSource
    <3>2. t.stack[i] = t.stack[j] /\ t.stack[i].loc # "const"  BY <1>4, <1>5, <3>1
    <3>3. t.stack[i] \in Slot
      <4>1. t \in Context /\ i \in 1 .. Len(t.stack)  BY DEF Laid
      <4> QED  BY <4>1, ContextShape
    <3>4. t.stack[i].loc = "stack" \/ t.stack[i].loc = "reg"  BY <3>2, <3>3, SlotShape
    <3>5. t.mem[i] = t.mem[j]
      <4>1. i \in Frame /\ j \in Frame  BY <1>3
      <4> QED  BY <4>1 DEF Laid, NoFrame
    <3> QED  BY <3>2, <3>4, <3>5 DEF SameSource
  <2> QED  BY <2>1, <2>2
<1> QED  BY <1>6, <1>7, <1>8 DEF Follows

\* The asserts of init_merge hold: every register to be kept has been taken.
LEMMA LaidOk ==
  ASSUME NEW s \in Context, NEW base \in Nat, NEW locals \in Nat, locals <= base, NEW arity \in Nat,
         base + arity <= Len(s.stack), NEW t, NEW m, NEW l, NEW b,
         Pieces(s, base, locals, arity, m, l, b), Laid(s, base, locals, arity, t, m, l, b)
  PROVE  t.ok
<1>1. Height(s) = Len(s.stack) /\ Len(s.stack) \in Nat /\ DOMAIN s.stack = 1 .. Len(s.stack)
  BY ContextShape DEF Height
<1>2. Height(s) >= base  BY <1>1
<1>3. \A r \in Reserved : r \in l.used  BY PiecesHolders, RegsAssumption
<1>4. ASSUME NEW r \in Wanted(s, locals, arity) PROVE r \in l.used
  <2>1. r \in Regs  BY DEF Wanted
  <2>2. PICK i \in Holders(s, r) : i <= locals \/ i > Height(s) - arity  BY DEF Wanted
  <2>3. i \in 1 .. Len(s.stack) /\ s.stack[i].loc = "reg" /\ s.stack[i].reg = r
    BY <1>1 DEF Holders
  <2>4. CASE i <= locals
    <3> DEFINE low == SubSeq(s.stack, 1, locals)
    <3>1. 1 \in 1 .. Len(s.stack) + 1 /\ locals \in 0 .. Len(s.stack) /\ 1 <= locals + 1
      BY <1>1
    <3>2. Len(low) = locals - 1 + 1 /\ \A j \in 1 .. locals - 1 + 1 : low[j] = s.stack[1 + j - 1]
      BY <3>1, SubSeqOfSlots
    <3>3. Part(m, low, l)  BY DEF Pieces
    <3> HIDE DEF low
    <3>4. i \in 1 .. Len(low) /\ low[i] = s.stack[i]
      <4>1. locals - 1 + 1 = locals /\ i \in 1 .. locals /\ 1 + i - 1 = i  BY <2>3, <2>4
      <4> QED  BY <3>2, <4>1
    <3> QED  BY <2>3, <3>3, <3>4 DEF Part
  <2>5. CASE i > Height(s) - arity
    <3> DEFINE h == Len(s.stack)
               top == SubSeq(s.stack, h - arity + 1, h)
    <3>0. h \in Nat /\ arity <= h  BY <1>1
    <3>1. h - arity + 1 \in 1 .. h + 1 /\ h \in 0 .. h /\ h - arity + 1 <= h + 1  BY <3>0
    <3>2. Len(top) = h - (h - arity + 1) + 1
          /\ \A j \in 1 .. h - (h - arity + 1) + 1 : top[j] = s.stack[h - arity + 1 + j - 1]
      BY <3>1, SubSeqOfSlots
    <3>3. Part(FreshState, top, m)  BY <1>1 DEF Pieces
    <3> HIDE DEF top
    <3>4. i - (h - arity) \in 1 .. Len(top) /\ top[i - (h - arity)] = s.stack[i]
      <4>1. i \in 1 .. h /\ i > h - arity  BY <1>1, <2>3, <2>5
      <4> HIDE DEF h
      <4>2. /\ h - (h - arity + 1) + 1 = arity /\ i - (h - arity) \in 1 .. arity
            /\ h - arity + 1 + (i - (h - arity)) - 1 = i
        BY <3>0, <4>1
      <4> QED  BY <3>2, <4>2 DEF h
    <3>5. r \in m.used  BY <2>3, <3>3, <3>4 DEF Part
    <3> QED  BY <2>1, <3>5, PartHolders DEF Pieces
  <2> QED  BY <2>2, <2>4, <2>5
<1> QED  BY <1>2, <1>3, <1>4 DEF Laid

\* A state for a label that code in state s reaches first.
Merges(s, base, locals, arity, t) ==
  /\ t \in Context /\ Exact(t) /\ Homes(t) /\ Len(t.stack) = base + arity
  /\ t.ok /\ t.spills = 0 /\ t.mem = NoFrame
  /\ Sole(t, locals, base) /\ Follows(s, t, locals + 1 .. base)

\* A new label state is one that any path with enough on its stack can be merged into.
LEMMA InitMergeMerges ==
  ASSUME NEW s \in Context, NEW base \in Nat, NEW locals \in Nat, locals <= base, NEW arity \in Nat,
         base + arity <= Len(s.stack), Len(s.stack) <= MaxHeight
  PROVE  Merges(s, base, locals, arity, InitMerge(s, base, locals, arity))
<1>1. PICK m, l, b : /\ Pieces(s, base, locals, arity, m, l, b)
                     /\ InitMerge(s, base, locals, arity) =
                          Assembled(s, base, locals, arity, m, l, b)
  BY InitMergePieces
<1> DEFINE t == InitMerge(s, base, locals, arity)
<1>2. Laid(s, base, locals, arity, t, m, l, b)  BY <1>1, AssembledShape
<1> HIDE DEF t
<1>3. Exact(t) /\ Homes(t)  BY <1>1, <1>2, LaidExact
<1>4. Sole(t, locals, base)  BY <1>1, <1>2, LaidSole
<1>5. Follows(s, t, locals + 1 .. base)  BY <1>1, <1>2, LaidFollows
<1>6. t.ok  BY <1>1, <1>2, LaidOk
<1> QED  BY <1>2, <1>3, <1>4, <1>5, <1>6 DEF Merges, Laid, t

-----------------------------------------------------------------------------
(* The invariant. *)

\* An entry of the control stack.
ControlBlock ==
  [type : {"block", "loop", "if", "else"}, arity : {0, 1},
   base : NumLocals .. MaxHeight, valid : NumLocals .. MaxHeight,
   reach : {"Reachable", "Unreachable", "SpecOnlyReachable"}, reached : BOOLEAN,
   label : Context, else : Context]

\* What a jump to the block leaves on top of its base.
Results(b) == IF b.type = "loop" THEN 0 ELSE b.arity

\* A label is either fresh or has the height that its block asks for.
BlockSound(b, n) ==
  /\ b.valid = b.base /\ Sound(b.label, n) /\ b.label.ok /\ Sound(b.else, n)
  /\ b.type = "loop" => b.reached
  /\ b.type = "if" => Len(b.else.stack) = b.base
  /\ b.reached => Len(b.label.stack) = b.base + Results(b) /\ Sole(b.label, NumLocals, b.base)
  /\ ~b.reached => b.label.stack = <<>>

\* Blocks are nested, the body of the function is the outermost of them.
Blocks(k, n) ==
  /\ k \in Seq(ControlBlock)
  /\ \A i \in 1 .. Len(k) : BlockSound(k[i], n)
  /\ \A i \in 1 .. Len(k) : i < Len(k) => Reachable(k[i])
  /\ \A i, j \in 1 .. Len(k) : i <= j => k[i].base <= k[j].base
  /\ k # <<>> => k[1].type = "block" /\ k[1].arity = Arity

\* The states some path arrives with, at a label or at an else arm, and up to
\* which height these paths have a common past.
Point(s, top) == [s |-> s, top |-> top]

\* The states that the compiler may come back to: the label states some path has
\* reached, and the state at the start of an else arm not yet compiled.
Arrivals(k) ==
  {Point(k[i].label, k[i].base) : i \in {j \in 1 .. Len(k) : k[j].reached}} \cup
  {Point(k[i].else, k[i].base) : i \in {j \in 1 .. Len(k) : k[j].type = "if"}}

\* The operands of the common past in which no two paths may differ: where one
\* state has a constant the other has it too, and where one shares a register
\* the slots of the other have one source.
Admits(s, t, I) ==
  /\ \A d \in I : t.stack[d].loc = "const" => s.stack[d] = t.stack[d]
  /\ \A d, e \in I : t.stack[d].loc = "reg" /\ t.stack[d] = t.stack[e] => SameSource(s, d, e)

\* Two states are to agree on the slots under both their blocks, locals aside.
Common(p, q) == {d \in NumLocals + 1 .. MaxHeight : d <= p.top /\ d <= q.top}

\* Any two of a set of points agree.
Agreeing(P) == \A p, q \in P : Admits(p.s, q.s, Common(p, q))

\* The paths that may still go on, the one being compiled among them.
LiveStack(k) == k # <<>> /\ Reachable(k[Len(k)])

\* Those, and the state the compiler is in where code runs.
Points(c, k) == Arrivals(k) \cup (IF LiveStack(k) THEN {Point(c, k[Len(k)].base)} ELSE {})

\* The compiler and the validator agree on the height wherever code runs.
Level(c, k, h) ==
  /\ h \in {AnyHeight} \cup NumLocals .. MaxHeight + 1
  /\ LiveStack(k) => Len(c.stack) = h /\ h >= k[Len(k)].base
  /\ CodeAfterDeadBlock \/ Len(c.stack) >= NumLocals

\* The inductive invariant: the compiler's own state is good, every kept state is good
\* and as high as its block asks for, the validator's height is the right one, and all
\* states that can meet at a label have their slots in places that a merge can reconcile.
IInv ==
  /\ Fits(Ctx) /\ Blocks(control, spills) /\ Level(Ctx, control, height)
  /\ Agreeing(Points(Ctx, control))

-----------------------------------------------------------------------------
(* Agreement. *)

\* States that follow agreeing ones agree.
LEMMA AgreeingFollows ==
  ASSUME NEW P, Agreeing(P), NEW Q,
         \A q \in Q : q.top \in Nat,
         \A q \in Q : \E p \in P : /\ p.top \in Nat /\ q.top <= p.top
                                   /\ Follows(p.s, q.s, NumLocals + 1 .. q.top)
  PROVE  Agreeing(Q)
<1> SUFFICES ASSUME NEW x \in Q, NEW y \in Q
             PROVE  Admits(x.s, y.s, Common(x, y))
  BY DEF Agreeing
<1>1. PICK p \in P : /\ p.top \in Nat /\ x.top <= p.top
                     /\ Follows(p.s, x.s, NumLocals + 1 .. x.top)
  OBVIOUS
<1>2. PICK q \in P : /\ q.top \in Nat /\ y.top <= q.top
                     /\ Follows(q.s, y.s, NumLocals + 1 .. y.top)
  OBVIOUS
<1>3. Admits(p.s, q.s, Common(p, q))  BY DEF Agreeing
<1>4. ASSUME NEW d \in Common(x, y)
      PROVE  d \in Common(p, q) /\ d \in NumLocals + 1 .. x.top /\ d \in NumLocals + 1 .. y.top
  BY <1>1, <1>2, ControlFlowAssumption, RegsAssumption DEF Common
<1>5. ASSUME NEW d \in Common(x, y), y.s.stack[d].loc = "const"
      PROVE  x.s.stack[d] = y.s.stack[d]
  <2>1. q.s.stack[d] = y.s.stack[d]  BY <1>2, <1>4, <1>5 DEF Follows
  <2>2. p.s.stack[d] = q.s.stack[d]  BY <1>3, <1>4, <1>5, <2>1 DEF Admits
  <2>3. x.s.stack[d] = p.s.stack[d]  BY <1>1, <1>4, <1>5, <2>1, <2>2 DEF Follows
  <2> QED  BY <2>1, <2>2, <2>3
<1>6. ASSUME NEW d \in Common(x, y), NEW e \in Common(x, y), y.s.stack[d].loc = "reg",
             y.s.stack[d] = y.s.stack[e]
      PROVE  SameSource(x.s, d, e)
  <2>1. q.s.stack[d].loc = "reg" /\ q.s.stack[d] = q.s.stack[e]
    BY <1>2, <1>4, <1>6 DEF Follows
  <2>2. SameSource(p.s, d, e)  BY <1>3, <1>4, <2>1 DEF Admits
  <2> QED  BY <1>1, <1>4, <2>2 DEF Follows
<1> QED  BY <1>5, <1>6 DEF Admits

\* Fewer points agree as well.
LEMMA FewerAgree ==
  ASSUME NEW P, Agreeing(P), NEW Q \in SUBSET P
  PROVE  Agreeing(Q)
BY DEF Agreeing

\* The common past of a path and the others is theirs: it may grow alone.
LEMMA PastGrows ==
  ASSUME NEW P, NEW s, NEW a \in Nat, NEW b \in Nat, a <= b, Agreeing(P \cup {Point(s, a)}),
         \A p \in P : p.top \in Nat /\ p.top <= a
  PROVE  Agreeing(P \cup {Point(s, b)})
<1> DEFINE x == Point(s, a)
           y == Point(s, b)
<1>1. x.s = s /\ x.top = a /\ y.s = s /\ y.top = b  BY DEF Point
<1> HIDE DEF x, y
<1>2. \A p, q \in P \cup {x} : Admits(p.s, q.s, Common(p, q))  BY DEF Agreeing, x
<1>3. \A p \in P : Common(p, x) = Common(p, y) /\ Common(x, p) = Common(y, p)
  <2> SUFFICES ASSUME NEW p \in P, NEW d \in NumLocals + 1 .. MaxHeight
               PROVE  d <= p.top /\ d <= a <=> d <= p.top /\ d <= b
    BY <1>1 DEF Common
  <2>1. d \in Int /\ p.top \in Nat /\ p.top <= a
    BY ControlFlowAssumption, RegsAssumption
  <2> QED  BY <2>1
<1>4. Admits(y.s, y.s, Common(y, y))  BY DEF Admits, SameSource
<1> SUFFICES ASSUME NEW p \in P \cup {y}, NEW q \in P \cup {y}
             PROVE  Admits(p.s, q.s, Common(p, q))
  BY DEF Agreeing, y
<1>5. CASE p \in P /\ q \in P  BY <1>2, <1>5
<1>6. CASE p \in P /\ q = y  BY <1>1, <1>2, <1>3, <1>6
<1>7. CASE p = y /\ q \in P  BY <1>1, <1>2, <1>3, <1>7
<1>8. CASE p = y /\ q = y  BY <1>4, <1>8
<1> QED  BY <1>5, <1>6, <1>7, <1>8

-----------------------------------------------------------------------------
(* Merging into a label. *)

\* The state of the label after a merge: the slots are the target's, and those in
\* the frame hold what the source had.
Arrived(s, t, base, l) ==
  /\ l \in Context /\ l.ok /\ l.stack = t.stack /\ l.used = t.used /\ l.count = t.count
  /\ \A d \in 1 .. base : t.stack[d].loc = "stack" => l.mem[d] = ValueAt(s, d)

\* A merge moves each slot from a place of its own.
LEMMA SourceShape ==
  ASSUME NEW s \in Context, NEW t \in Context, NEW base \in Nat, NEW arity \in Nat,
         Len(t.stack) = base + arity, Len(t.stack) <= Len(s.stack), NEW d \in 1 .. Len(t.stack)
  PROVE  /\ SourceOf(s, Height(t), arity, d) \in 1 .. Len(s.stack)
         /\ d <= base => SourceOf(s, Height(t), arity, d) = d
         /\ d > base => SourceOf(s, Height(t), arity, d) > base
         /\ \A e \in 1 .. Len(t.stack) :
              SourceOf(s, Height(t), arity, d) = SourceOf(s, Height(t), arity, e) => d = e
<1>1. Height(s) = Len(s.stack) /\ Height(t) = Len(t.stack) /\ Len(s.stack) \in Nat
      /\ Len(t.stack) \in Nat
  BY ContextShape DEF Height
<1>2. Len(t.stack) - arity = base  BY <1>1
<1>3. \A e \in 1 .. Len(t.stack) :
        SourceOf(s, Height(t), arity, e) = IF e <= base THEN e ELSE Len(s.stack) - Len(t.stack) + e
  BY <1>1, <1>2 DEF SourceOf
<1> QED  BY <1>1, <1>3

\* A path that is merged into a label arrives there.
LEMMA MergeArrives ==
  ASSUME NEW s \in Context, NEW t \in Context, NEW base \in Nat, NEW arity \in Nat,
         Len(t.stack) = base + arity, Len(t.stack) <= Len(s.stack), Len(s.stack) <= MaxHeight
  PROVE  Arrived(s, t, base, Kept(Merge(s, t, arity)))
<1> DEFINE from(d) == ValueAt(s, SourceOf(s, Height(t), arity, d))
           into(r) == {d \in DOMAIN t.stack : t.stack[d] = RegSlot(r)}
           g == [r \in Regs |-> IF into(r) = {} THEN Junk ELSE from(CHOOSE d \in into(r) : TRUE)]
           w == [i \in Frame |-> IF i \in DOMAIN t.stack /\ t.stack[i] = StackSlot
                                 THEN from(i) ELSE Junk]
           m == [t EXCEPT !.regs = g, !.mem = w]
<1>1. Merge(s, t, arity) = m  BY DEF Merge
<1>2. DOMAIN t.stack = 1 .. Len(t.stack) /\ DOMAIN s.stack = 1 .. Len(s.stack)
      /\ Len(s.stack) \in Nat /\ \A d \in 1 .. Len(t.stack) : t.stack[d] \in Slot
  BY ContextShape
<1>3. \A d \in DOMAIN t.stack : from(d) \in Values \cup {Junk}
  BY <1>2, SourceShape, ValueAtTyped
<1>4. \A d \in 1 .. base : d \in DOMAIN t.stack /\ d \in Frame /\ from(d) = ValueAt(s, d)
  <2> SUFFICES ASSUME NEW d \in 1 .. base
               PROVE  d \in DOMAIN t.stack /\ d \in Frame /\ from(d) = ValueAt(s, d)
    OBVIOUS
  <2>1. d \in 1 .. Len(t.stack) /\ d \in Frame  BY <1>2, RegsAssumption DEF Frame
  <2>2. SourceOf(s, Height(t), arity, d) = d
    <3>1. d <= Height(t) - arity  BY DEF Height
    <3> QED  BY <3>1 DEF SourceOf
  <2> QED  BY <1>2, <2>1, <2>2
<1> HIDE DEF from
<1>5. \A r \in Regs : into(r) # {} => (CHOOSE d \in into(r) : TRUE) \in DOMAIN t.stack
  OBVIOUS
<1> HIDE DEF into
<1>6. g \in [Regs -> Values \cup {Junk}]  BY <1>3, <1>5
<1>7. w \in [Frame -> Values \cup {Junk}]  BY <1>3
<1>8. \A d \in 1 .. base : t.stack[d].loc = "stack" => w[d] = ValueAt(s, d)
  <2> SUFFICES ASSUME NEW d \in 1 .. base, t.stack[d].loc = "stack" PROVE w[d] = ValueAt(s, d)
    OBVIOUS
  <2>1. t.stack[d] = StackSlot  BY <1>2, <1>4, InFrameIsStackSlot
  <2> QED  BY <1>4, <2>1
<1> HIDE DEF g, w
<1>9. m \in Context /\ m.stack = t.stack /\ m.used = t.used /\ m.count = t.count /\ m.mem = w
  BY <1>6, <1>7 DEF Context
<1> HIDE DEF m
<1>10. /\ Kept(m) \in Context /\ Kept(m).ok /\ Kept(m).stack = t.stack
       /\ Kept(m).used = t.used /\ Kept(m).count = t.count /\ Kept(m).mem = LiveMem(m)
  BY <1>9, KeptSound
<1>11. ASSUME NEW d \in 1 .. base, t.stack[d].loc = "stack"
       PROVE  Kept(m).mem[d] = ValueAt(s, d)
  <2>1. LiveMem(m)[d] = m.mem[d]  BY <1>4, <1>9, <1>11 DEF LiveMem
  <2> QED  BY <1>8, <1>9, <1>10, <1>11, <2>1
<1> QED  BY <1>1, <1>10, <1>11 DEF Arrived

\* Slots of one source hold one value.
LEMMA OneSourceOneValue ==
  ASSUME NEW s, NEW d, NEW e, SameSource(s, d, e)
  PROVE  ValueAt(s, d) = ValueAt(s, e)
BY DEF SameSource, ValueAt

\* A merge chosen from the source follows it.
LEMMA ArrivedFollows ==
  ASSUME NEW s \in Context, NEW t \in Context, NEW base \in Nat,
         base <= Len(s.stack), base <= Len(t.stack),
         NEW l, Arrived(s, t, base, l), Follows(s, t, NumLocals + 1 .. base)
  PROVE  Follows(s, l, NumLocals + 1 .. base)
<1>1. \A d \in NumLocals + 1 .. base : d \in 1 .. base  BY ControlFlowAssumption
<1>2. l.stack = t.stack  BY DEF Arrived
<1>3. ASSUME NEW d \in NumLocals + 1 .. base, NEW e \in NumLocals + 1 .. base, SameSource(s, d, e)
      PROVE  SameSource(l, d, e)
  <2>1. SameSource(t, d, e)  BY <1>3 DEF Follows
  <2>2. ValueAt(s, d) = ValueAt(s, e)  BY <1>3, OneSourceOneValue
  <2> QED  BY <1>1, <1>2, <2>1, <2>2 DEF SameSource, Arrived
<1> QED  BY <1>2, <1>3 DEF Follows

\* The state it arrives in agrees with what the path agreed with.
LEMMA ArrivalAgrees ==
  ASSUME NEW P, Agreeing(P), \A p \in P : p.top \in Nat,
         NEW s \in Context, NEW t \in Context, NEW base \in Nat, NEW top \in Nat, base <= top,
         Point(s, top) \in P, base <= Len(s.stack), base <= Len(t.stack),
         NEW l, Arrived(s, t, base, l),
         Point(t, base) \in P \/ Follows(s, t, NumLocals + 1 .. base)
  PROVE  Agreeing(P \cup {Point(l, base)})
<1> DEFINE x == Point(s, top)
           y == Point(l, base)
           z == Point(t, base)
<1>1. x.s = s /\ x.top = top /\ y.s = l /\ y.top = base /\ z.s = t /\ z.top = base  BY DEF Point
<1> HIDE DEF x, y, z
<1>2. CASE Follows(s, t, NumLocals + 1 .. base)
  <2>1. Follows(s, l, NumLocals + 1 .. base)  BY <1>2, ArrivedFollows
  <2>2. \A p \in P : Follows(p.s, p.s, NumLocals + 1 .. p.top)  BY UntouchedFollows
  <2>3. \A q \in P \cup {y} : \E p \in P : /\ p.top \in Nat /\ q.top <= p.top
                                           /\ Follows(p.s, q.s, NumLocals + 1 .. q.top)
    <3> SUFFICES ASSUME NEW q \in P \cup {y}
                 PROVE  \E p \in P : /\ p.top \in Nat /\ q.top <= p.top
                                     /\ Follows(p.s, q.s, NumLocals + 1 .. q.top)
      OBVIOUS
    <3>1. CASE q \in P  BY <2>2, <3>1
    <3>2. CASE q = y  BY <1>1, <2>1, <3>2 DEF x
    <3> QED  BY <3>1, <3>2
  <2>4. \A q \in P \cup {y} : q.top \in Nat  BY <1>1
  <2> QED  BY <2>3, <2>4, AgreeingFollows DEF y
<1>3. CASE z \in P
  <2>1. \A p, q \in P : Admits(p.s, q.s, Common(p, q))  BY DEF Agreeing
  <2>2. l.stack = t.stack  BY DEF Arrived
  <2>3. \A p \in P : Common(p, y) = Common(p, z) /\ Common(y, p) = Common(z, p)
    BY <1>1 DEF Common
  <2>4. ASSUME NEW p \in P PROVE Admits(p.s, l, Common(p, y))
    <3>1. Admits(p.s, t, Common(p, y))  BY <1>1, <1>3, <2>1, <2>3
    <3> QED  BY <2>2, <3>1 DEF Admits
  <2>5. ASSUME NEW p \in P PROVE Admits(l, p.s, Common(y, p))
    <3>1. Admits(t, p.s, Common(y, p))  BY <1>1, <1>3, <2>1, <2>3
    <3>2. Admits(s, p.s, Common(x, p))  BY <1>1, <2>1 DEF x
    <3>3. ASSUME NEW d \in Common(y, p)
          PROVE  d \in 1 .. base /\ d \in Common(x, p)
      BY <1>1, ControlFlowAssumption, RegsAssumption DEF Common
    <3>4. ASSUME NEW d \in Common(y, p), NEW e \in Common(y, p), p.s.stack[d].loc = "reg",
                 p.s.stack[d] = p.s.stack[e]
          PROVE  SameSource(l, d, e)
      <4>1. SameSource(t, d, e)  BY <3>1, <3>4 DEF Admits
      <4>2. SameSource(s, d, e)  BY <3>2, <3>3, <3>4 DEF Admits
      <4>3. ValueAt(s, d) = ValueAt(s, e)  BY <4>2, OneSourceOneValue
      <4>4. d \in 1 .. base /\ e \in 1 .. base  BY <3>3, <3>4
      <4> QED  BY <2>2, <4>1, <4>3, <4>4 DEF SameSource, Arrived
    <3>5. ASSUME NEW d \in Common(y, p), p.s.stack[d].loc = "const"
          PROVE  l.stack[d] = p.s.stack[d]
      BY <2>2, <3>1, <3>5 DEF Admits
    <3> QED  BY <3>4, <3>5 DEF Admits
  <2>6. Admits(l, l, Common(y, y))  BY DEF Admits, SameSource
  <2> SUFFICES ASSUME NEW p \in P \cup {y}, NEW q \in P \cup {y}
               PROVE  Admits(p.s, q.s, Common(p, q))
    BY DEF Agreeing, y
  <2>7. CASE p \in P /\ q \in P  BY <2>1, <2>7
  <2>8. CASE p \in P /\ q = y  BY <1>1, <2>4, <2>8
  <2>9. CASE p = y /\ q \in P  BY <1>1, <2>5, <2>9
  <2>10. CASE p = y /\ q = y  BY <1>1, <2>6, <2>10
  <2> QED  BY <2>7, <2>8, <2>9, <2>10
<1> QED  BY <1>2, <1>3 DEF z

\* The target of a merge is a label that paths have reached, or is chosen from
\* the source.
Aims(P, s, t, base) == Point(t, base) \in P \/ Follows(s, t, NumLocals + 1 .. base)

\* A path can be merged into a state that it aims at.
LEMMA AimAdmits ==
  ASSUME NEW P, Agreeing(P), NEW s, NEW t, NEW base \in 0 .. MaxHeight, NEW top \in Nat,
         base <= top, Point(s, top) \in P, Aims(P, s, t, base)
  PROVE  Admits(s, t, NumLocals + 1 .. base)
<1>1. CASE Point(t, base) \in P
  <2> DEFINE x == Point(s, top)
             z == Point(t, base)
  <2>1. x.s = s /\ x.top = top /\ z.s = t /\ z.top = base  BY DEF Point
  <2>2. Admits(x.s, z.s, Common(x, z))  BY <1>1 DEF Agreeing
  <2> HIDE DEF x, z
  <2>3. \A d \in NumLocals + 1 .. base : d \in Common(x, z)
    BY <2>1, ControlFlowAssumption, RegsAssumption DEF Common
  <2> QED  BY <2>1, <2>2, <2>3 DEF Admits
<1>2. CASE Follows(s, t, NumLocals + 1 .. base)
  BY <1>2 DEF Follows, Admits, SameSource
<1> QED  BY <1>1, <1>2 DEF Aims

\* The asserts of the merge functions, and what the transfer of the slots needs.
LEMMA MergeAssertsHold ==
  ASSUME NEW s \in Context, NEW t \in Context, NEW base \in Nat, NEW arity \in Nat,
         NumLocals <= base, Len(t.stack) = base + arity, Len(t.stack) <= Len(s.stack),
         NEW full \in BOOLEAN, full => Len(t.stack) = Len(s.stack), t.ok,
         Sole(t, NumLocals, base), Admits(s, t, NumLocals + 1 .. base)
  PROVE  MergeAsserts(s, t, arity, full)
<1> DEFINE src(d) == SourceOf(s, Height(t), arity, d)
<1>1. /\ DOMAIN t.stack = 1 .. base + arity /\ Height(t) = base + arity
      /\ Height(s) = Len(s.stack) /\ Len(s.stack) \in Nat
  BY ContextShape DEF Height
<1>2. \A d \in NumLocals + 1 .. base : src(d) = d  BY <1>1, ControlFlowAssumption DEF SourceOf
<1>3. \A d \in 1 .. base + arity : d \in NumLocals + 1 .. base \/ d <= NumLocals \/ d > base
  BY ControlFlowAssumption
<1> HIDE DEF src
<1>4. ASSUME NEW d \in DOMAIN t.stack, t.stack[d].loc = "const"
      PROVE  s.stack[src(d)] = t.stack[d]
  <2>1. d \in NumLocals + 1 .. base  BY <1>1, <1>3, <1>4 DEF Sole
  <2> QED  BY <1>2, <1>4, <2>1 DEF Admits
<1>5. ASSUME NEW d \in DOMAIN t.stack, NEW e \in DOMAIN t.stack, d # e, t.stack[d].loc = "reg",
             t.stack[d] = t.stack[e]
      PROVE  SameSource(s, src(d), src(e))
  <2>1. d \in NumLocals + 1 .. base /\ e \in NumLocals + 1 .. base
    BY <1>1, <1>3, <1>5 DEF Sole
  <2> QED  BY <1>2, <1>5, <2>1 DEF Admits
<1>6. Mergeable(s, t, arity)  BY <1>4, <1>5 DEF Mergeable, src
<1>7. CASE full
  <2>1. Height(t) = Height(s)  BY <1>1, <1>7
  <2> QED  BY <1>6, <1>7, <2>1 DEF MergeAsserts
<1>8. CASE ~full
  <2>1. Height(t) <= Height(s) /\ arity <= Height(t)  BY <1>1
  <2> QED  BY <1>6, <1>8, <2>1 DEF MergeAsserts
<1> QED  BY <1>7, <1>8

\* The frame after a merge reaches every slot that the merge stores.
LEMMA FrameReaches ==
  ASSUME NEW n \in Nat, NEW S, NEW h \in Nat, S \subseteq 1 .. h
  PROVE  LET x == CHOOSE x \in {n} \cup S : \A y \in {n} \cup S : y <= x
         IN  x \in Nat /\ n <= x /\ \A y \in S : y <= x
<1> DEFINE F == {n} \cup S
<1>1. \E x \in F : \A y \in F : y <= x
  <2>1. CASE S = {}
    BY <2>1
  <2>2. CASE S # {}
    <3>1. PICK z \in S : \A y \in S : y <= z  BY <2>2, TopmostExists
    <3>2. z \in Nat /\ \A y \in S : y \in Nat  BY <3>1
    <3>3. CASE z <= n
      <4>1. \A y \in F : y <= n  BY <3>1, <3>2, <3>3
      <4> QED  BY <4>1
    <3>4. CASE n < z
      <4>1. \A y \in F : y <= z  BY <3>1, <3>2, <3>4
      <4> QED  BY <3>1, <4>1
    <3> QED  BY <3>2, <3>3, <3>4
  <2> QED  BY <2>1, <2>2
<1> DEFINE x == CHOOSE x \in F : \A y \in F : y <= x
<1>2. x \in F /\ \A y \in F : y <= x  BY <1>1
<1> HIDE DEF x
<1>3. x \in Nat /\ n <= x /\ \A y \in S : y <= x  BY <1>2
<1> QED  BY <1>3 DEF x

\* What a merge leaves behind: a larger frame and the label in its new state.
Joined(m, i, s, t, m2) ==
  \E x \in Nat, l \in Context :
    /\ m.c.spills <= x /\ Arrived(s, t, m.k[i].base, l)
    /\ \A d \in 1 .. Len(t.stack) : t.stack[d].loc = "stack" => d <= x
    /\ m2 = At([m.c EXCEPT !.spills = x],
               [m.k EXCEPT ![i] = [m.k[i] EXCEPT !.label = l, !.reached = TRUE]])

\* Join merges the path and keeps the state at the label.
LEMMA JoinJoins ==
  ASSUME NEW m, m.c \in Context, NEW i, NEW s, Sound(s, m.c.spills), NEW t \in Context,
         Len(s.stack) <= MaxHeight, NEW base \in Nat, m.k[i].base = base,
         Results(m.k[i]) \in Nat, Len(t.stack) = base + Results(m.k[i]),
         Len(t.stack) <= Len(s.stack), NEW full,
         MergeAsserts(s, t, Results(m.k[i]), full)
  PROVE  Joined(m, i, s, t, Join(m, i, s, t, full))
<1> DEFINE arity == Results(m.k[i])
           stored == Stored(s, t, arity)
           frame == {m.c.spills} \cup stored
           l == Kept(Merge(s, t, arity))
           x == CHOOSE x \in frame : \A y \in frame : y <= x
<1>1. Join(m, i, s, t, full) =
        At([m.c EXCEPT !.spills = x],
           [m.k EXCEPT ![i] = [m.k[i] EXCEPT !.label = l, !.reached = TRUE]])
  BY DEF Join, Results
<1>2. s \in Context  BY DEF Sound
<1>3. Arrived(s, t, base, l)  BY <1>2, MergeArrives
<1>4. /\ DOMAIN t.stack = 1 .. Len(t.stack) /\ Len(t.stack) \in Nat /\ m.c.spills \in Nat
      /\ \A d \in 1 .. Len(t.stack) : t.stack[d] \in Slot
  BY ContextShape
<1>5. x \in Nat /\ m.c.spills <= x /\ \A d \in stored : d <= x
  <2>1. stored \subseteq 1 .. Len(t.stack)  BY <1>4 DEF Stored
  <2> HIDE DEF stored
  <2> QED  BY <1>4, <2>1, FrameReaches
<1> HIDE DEF x, l
<1>6. ASSUME NEW d \in 1 .. Len(t.stack), t.stack[d].loc = "stack" PROVE d <= x
  <2>1. t.stack[d] = StackSlot  BY <1>4, <1>6, InFrameIsStackSlot
  <2>2. CASE d \in stored  BY <1>5, <2>2
  <2>3. CASE d \notin stored
    <3>1. s.stack[SourceOf(s, Height(t), arity, d)] = StackSlot /\ SourceOf(s, Height(t), arity, d) = d
      BY <1>4, <2>1, <2>3 DEF Stored
    <3>2. d \in DOMAIN s.stack  BY <1>2, <1>4, ContextShape
    <3>3. s.stack[d].loc = "stack"  BY <3>1 DEF StackSlot
    <3>4. d <= m.c.spills  BY <3>2, <3>3 DEF Sound
    <3> QED  BY <1>4, <1>5, <3>4
  <2> QED  BY <2>2, <2>3
<1>7. l \in Context  BY <1>3 DEF Arrived
<1> QED  BY <1>1, <1>3, <1>5, <1>6, <1>7 DEF Joined

\* The same blocks, of which more may have been reached; a label that was
\* reached before has its slots where they were.
SameBlocks(k, k2) ==
  /\ Len(k2) = Len(k)
  /\ \A i \in 1 .. Len(k) :
       /\ k2[i].type = k[i].type /\ k2[i].arity = k[i].arity /\ k2[i].base = k[i].base
       /\ k2[i].valid = k[i].valid /\ k2[i].reach = k[i].reach /\ k2[i].else = k[i].else
       /\ k[i].reached => k2[i].reached /\ k2[i].label.stack = k[i].label.stack

\* Blocks that differ in their label states alone.
LEMMA SameBlocksTransitive ==
  ASSUME NEW a, NEW b, NEW c, SameBlocks(a, b), SameBlocks(b, c)
  PROVE  SameBlocks(a, c)
BY DEF SameBlocks

\* What the invariant says of one block.
LEMMA BlockShape ==
  ASSUME NEW k, NEW n, Blocks(k, n), NEW i \in 1 .. Len(k)
  PROVE  /\ k[i] \in ControlBlock /\ BlockSound(k[i], n)
         /\ k[i].base \in NumLocals .. MaxHeight /\ k[i].base \in 0 .. MaxHeight /\ k[i].base \in Nat
         /\ NumLocals <= k[i].base /\ k[i].base <= MaxHeight
         /\ k[i].arity \in {0, 1} /\ Results(k[i]) \in {0, 1} /\ Results(k[i]) \in Nat
         /\ k[i].label \in Context /\ k[i].else \in Context
<1>1. k[i] \in ControlBlock /\ BlockSound(k[i], n)  BY DEF Blocks
<1>2. k[i].base \in NumLocals .. MaxHeight /\ k[i].arity \in {0, 1} /\ k[i].label \in Context
      /\ k[i].else \in Context
  BY <1>1 DEF ControlBlock
<1>3. NumLocals \in Nat /\ MaxHeight \in Nat  BY ControlFlowAssumption, RegsAssumption
<1>4. k[i].base \in Nat /\ NumLocals <= k[i].base /\ k[i].base <= MaxHeight  BY <1>2, <1>3
<1>5. Results(k[i]) \in {0, 1}  BY <1>2 DEF Results
<1> QED  BY <1>1, <1>2, <1>3, <1>4, <1>5

\* A frame that grows does no harm.
LEMMA BlockSoundLater ==
  ASSUME NEW b, NEW n \in Nat, NEW x \in Nat, n <= x, BlockSound(b, n)
  PROVE  BlockSound(b, x)
<1>1. Sound(b.label, x) /\ Sound(b.else, x)  BY SoundLater DEF BlockSound
<1> QED  BY <1>1 DEF BlockSound

\* The tops of the points are heights.
LEMMA ArrivalTops ==
  ASSUME NEW k, NEW n, Blocks(k, n)
  PROVE  \A p \in Arrivals(k) : p.top \in Nat
<1> SUFFICES ASSUME NEW p \in Arrivals(k) PROVE p.top \in Nat  OBVIOUS
<1>1. PICK i \in 1 .. Len(k) : p.top = k[i].base  BY DEF Arrivals, Point
<1> QED  BY <1>1, BlockShape

\* After a join the blocks are sound, and the label has the places of the target.
LEMMA JoinedBlocks ==
  ASSUME NEW m, Good(m.c), Blocks(m.k, m.c.spills), NEW i \in 1 .. Len(m.k), NEW s,
         NEW t \in Context, Exact(t), Homes(t),
         Len(t.stack) = m.k[i].base + Results(m.k[i]), Sole(t, NumLocals, m.k[i].base),
         m.k[i].reached => t.stack = m.k[i].label.stack, NEW m2, Joined(m, i, s, t, m2)
  PROVE  /\ Good(m2.c) /\ m2.c.stack = m.c.stack /\ m2.c.mem = m.c.mem /\ m2.c.ok = m.c.ok
         /\ m.c.spills <= m2.c.spills
         /\ Blocks(m2.k, m2.c.spills) /\ SameBlocks(m.k, m2.k)
         /\ m2.k[i].reached /\ m2.k[i].label.stack = t.stack
<1> DEFINE k == m.k
           n == m.c.spills
<1>1. PICK x \in Nat, l \in Context :
        /\ n <= x /\ Arrived(s, t, k[i].base, l)
        /\ \A d \in 1 .. Len(t.stack) : t.stack[d].loc = "stack" => d <= x
        /\ m2 = At([m.c EXCEPT !.spills = x],
                   [k EXCEPT ![i] = [k[i] EXCEPT !.label = l, !.reached = TRUE]])
  BY DEF Joined
<1> DEFINE c2 == [m.c EXCEPT !.spills = x]
           b2 == [k[i] EXCEPT !.label = l, !.reached = TRUE]
           k2 == [k EXCEPT ![i] = b2]
<1>2. m2.c = c2 /\ m2.k = k2  BY <1>1 DEF At
<1>3. m.c \in Context /\ n \in Nat  BY ContextShape DEF Good
<1>4. /\ c2 \in Context /\ c2.stack = m.c.stack /\ c2.mem = m.c.mem /\ c2.ok = m.c.ok
      /\ c2.spills = x /\ c2.used = m.c.used /\ c2.count = m.c.count
  BY <1>3 DEF Context
<1>5. Good(c2)
  <2>1. Sound(m.c, x)  BY <1>1, <1>3, SoundIsGood, SoundLater
  <2>2. Sound(c2, x)  BY <1>4, <2>1, SoundSame
  <2> QED  BY <1>4, <2>2, SoundIsGood
<1> HIDE DEF c2
<1>6. k \in Seq(ControlBlock) /\ k[i] \in ControlBlock /\ BlockSound(k[i], n)
  BY BlockShape DEF Blocks
<1>7. /\ b2 \in ControlBlock /\ b2.type = k[i].type /\ b2.arity = k[i].arity
      /\ b2.base = k[i].base /\ b2.valid = k[i].valid /\ b2.reach = k[i].reach
      /\ b2.else = k[i].else /\ b2.label = l /\ b2.reached
  BY <1>6 DEF ControlBlock
<1> HIDE DEF b2
<1>8. /\ k2 \in Seq(ControlBlock) /\ Len(k2) = Len(k) /\ k2[i] = b2
      /\ \A j \in 1 .. Len(k) : j # i => k2[j] = k[j]
  BY <1>6, <1>7, ExceptSeq
<1> HIDE DEF k2
<1>9. l.stack = t.stack /\ l.ok /\ l.used = t.used /\ l.count = t.count  BY <1>1 DEF Arrived
<1>10. BlockSound(b2, x)
  <2>1. Sound(t, x)
    <3>1. DOMAIN t.stack = 1 .. Len(t.stack)  BY ContextShape
    <3> QED  BY <1>1, <3>1 DEF Sound
  <2>2. Sound(l, x)  BY <1>9, <2>1, SoundSame
  <2>3. Sound(k[i].else, x)  BY <1>1, <1>3, <1>6, SoundLater DEF BlockSound
  <2>4. Results(b2) = Results(k[i])  BY <1>7 DEF Results
  <2>5. Sole(l, NumLocals, b2.base)  BY <1>7, <1>9 DEF Sole
  <2>6. Len(l.stack) = b2.base + Results(b2)  BY <1>7, <1>9, <2>4
  <2>7. /\ b2.valid = b2.base /\ (b2.type = "if" => Len(b2.else.stack) = b2.base)
    BY <1>6, <1>7 DEF BlockSound
  <2> QED  BY <1>7, <1>9, <2>2, <2>3, <2>5, <2>6, <2>7 DEF BlockSound
<1>11. \A j \in 1 .. Len(k2) : BlockSound(k2[j], x)
  <2>1. \A j \in 1 .. Len(k) : BlockSound(k[j], x)
    <3>1. \A j \in 1 .. Len(k) : BlockSound(k[j], n)  BY DEF Blocks
    <3> QED  BY <1>1, <1>3, <3>1, BlockSoundLater
  <2> QED  BY <1>8, <1>10, <2>1
<1>12. \A j \in 1 .. Len(k) : /\ k2[j].type = k[j].type /\ k2[j].arity = k[j].arity
                              /\ k2[j].base = k[j].base /\ k2[j].valid = k[j].valid
                              /\ k2[j].reach = k[j].reach /\ k2[j].else = k[j].else
  BY <1>7, <1>8
<1>13. \A j \in 1 .. Len(k) : k[j].reached => k2[j].reached /\ k2[j].label.stack = k[j].label.stack
  BY <1>7, <1>8, <1>9
<1>14. SameBlocks(k, k2)  BY <1>8, <1>12, <1>13 DEF SameBlocks
<1>15. Blocks(k2, x)
  <2>1. \A j \in 1 .. Len(k2) : j < Len(k2) => Reachable(k2[j])
    BY <1>8, <1>12 DEF Blocks, Reachable
  <2>2. \A a, b \in 1 .. Len(k2) : a <= b => k2[a].base <= k2[b].base
    BY <1>8, <1>12 DEF Blocks
  <2>3. k2 # <<>> => k2[1].type = "block" /\ k2[1].arity = Arity
    <3>1. k # <<>> /\ 1 \in 1 .. Len(k)  BY <1>6
    <3> QED  BY <1>12, <3>1 DEF Blocks
  <2> QED  BY <1>8, <1>11, <2>1, <2>2, <2>3 DEF Blocks
<1> QED  BY <1>1, <1>2, <1>4, <1>5, <1>7, <1>8, <1>9, <1>14, <1>15

\* After a join the points still agree.
LEMMA JoinedAgrees ==
  ASSUME NEW m, Blocks(m.k, m.c.spills), NEW i \in 1 .. Len(m.k),
         NEW X, \A p \in X : p.top \in Nat, Agreeing(Arrivals(m.k) \cup X),
         NEW s \in Context, NEW t \in Context, NEW top \in Nat,
         m.k[i].base <= top, Point(s, top) \in Arrivals(m.k) \cup X,
         m.k[i].base <= Len(s.stack), m.k[i].base <= Len(t.stack),
         Aims(Arrivals(m.k) \cup X, s, t, m.k[i].base), NEW m2, Joined(m, i, s, t, m2)
  PROVE  Agreeing(Arrivals(m2.k) \cup X)
<1> DEFINE k == m.k
           P == Arrivals(k) \cup X
<1>0. PICK x \in Nat, l \in Context :
        /\ Arrived(s, t, k[i].base, l)
        /\ m2 = At([m.c EXCEPT !.spills = x],
                   [k EXCEPT ![i] = [k[i] EXCEPT !.label = l, !.reached = TRUE]])
  BY DEF Joined
<1> DEFINE b2 == [k[i] EXCEPT !.label = l, !.reached = TRUE]
<1>1. Arrived(s, t, k[i].base, l) /\ m2.k = [k EXCEPT ![i] = b2]  BY <1>0 DEF At
<1>2. k \in Seq(ControlBlock) /\ k[i] \in ControlBlock /\ k[i].base \in Nat
  BY BlockShape DEF Blocks
<1>3. /\ b2 \in ControlBlock /\ b2.type = k[i].type /\ b2.base = k[i].base
      /\ b2.else = k[i].else /\ b2.label = l
  BY <1>2 DEF ControlBlock
<1> HIDE DEF b2
<1>4. /\ Len(m2.k) = Len(k) /\ m2.k[i] = b2 /\ \A j \in 1 .. Len(k) : j # i => m2.k[j] = k[j]
  BY <1>1, <1>2, <1>3, ExceptSeq
<1>5. \A p \in P : p.top \in Nat  BY ArrivalTops
<1> HIDE DEF P
<1>6. Agreeing(P \cup {Point(l, k[i].base)})  BY <1>1, <1>2, <1>5, ArrivalAgrees DEF Aims, P
<1>7. Arrivals(m2.k) \subseteq Arrivals(k) \cup {Point(l, k[i].base)}
  <2>1. ASSUME NEW j \in 1 .. Len(m2.k), m2.k[j].reached
        PROVE  Point(m2.k[j].label, m2.k[j].base) \in Arrivals(k) \cup {Point(l, k[i].base)}
    <3>1. CASE j = i  BY <1>3, <1>4, <3>1
    <3>2. CASE j # i
      <4>1. m2.k[j] = k[j] /\ j \in {a \in 1 .. Len(k) : k[a].reached}  BY <1>4, <2>1, <3>2
      <4> QED  BY <4>1 DEF Arrivals
    <3> QED  BY <3>1, <3>2
  <2>2. ASSUME NEW j \in 1 .. Len(m2.k), m2.k[j].type = "if"
        PROVE  Point(m2.k[j].else, m2.k[j].base) \in Arrivals(k) \cup {Point(l, k[i].base)}
    <3>1. /\ j \in {a \in 1 .. Len(k) : k[a].type = "if"}
          /\ m2.k[j].else = k[j].else /\ m2.k[j].base = k[j].base
      BY <1>3, <1>4, <2>2
    <3> QED  BY <3>1 DEF Arrivals
  <2> QED  BY <2>1, <2>2 DEF Arrivals
<1>8. Arrivals(m2.k) \cup X \in SUBSET (P \cup {Point(l, k[i].base)})  BY <1>7 DEF P
<1> QED  BY <1>6, <1>8, FewerAgree

\* A state that source s may be merged into at the label of block b.
Suits(b, P, s, t) ==
  /\ t \in Context /\ Exact(t) /\ Homes(t) /\ t.ok
  /\ Len(t.stack) = b.base + Results(b) /\ Sole(t, NumLocals, b.base)
  /\ b.reached => t.stack = b.label.stack
  /\ Aims(P, s, t, b.base)

\* The state LabelState gives, old or new, suits the path.
LEMMA LabelStateSuits ==
  ASSUME NEW m, NEW n, Blocks(m.k, n), NEW i \in 1 .. Len(m.k), NEW P,
         Arrivals(m.k) \subseteq P, NEW s \in Context, Len(s.stack) <= MaxHeight,
         m.k[i].base + Results(m.k[i]) <= Len(s.stack)
  PROVE  Suits(m.k[i], P, s, LabelState(m, i, s))
<1> DEFINE b == m.k[i]
<1>1. /\ b \in ControlBlock /\ BlockSound(b, n) /\ b.base \in Nat /\ NumLocals <= b.base
      /\ b.arity \in Nat /\ b.label \in Context
  BY BlockShape
<1>2. CASE b.reached
  <2>1. LabelState(m, i, s) = b.label  BY <1>2 DEF LabelState
  <2>2. Point(b.label, b.base) \in P  BY <1>2 DEF Arrivals
  <2> QED  BY <1>1, <1>2, <2>1, <2>2 DEF Suits, BlockSound, Sound, Aims
<1>3. CASE ~b.reached
  <2> DEFINE t == InitMerge(s, b.base, NumLocals, b.arity)
  <2>1. b.label.stack = <<>> /\ b.type # "loop"  BY <1>1, <1>3 DEF BlockSound
  <2>2. LabelState(m, i, s) = Assert(t, b.label.stack = <<>>)  BY <1>3 DEF LabelState
  <2>3. Results(b) = b.arity  BY <2>1 DEF Results
  <2>4. Merges(s, b.base, NumLocals, b.arity, t)
    BY <1>1, <2>3, ControlFlowAssumption, InitMergeMerges
  <2> HIDE DEF t
  <2>5. t \in Context /\ t.ok  BY <2>4 DEF Merges
  <2>6. Same(t, Assert(t, TRUE)) /\ Assert(t, TRUE).ok = t.ok /\ Assert(t, TRUE).mem = t.mem
    BY <2>5, AssertSame, AssertOk, AssertMem
  <2>7. LabelState(m, i, s) = Assert(t, TRUE)  BY <2>1, <2>2
  <2> DEFINE u == Assert(t, TRUE)
  <2>8. u \in Context /\ u.stack = t.stack /\ u.used = t.used /\ u.count = t.count /\ u.ok
        /\ u.mem = t.mem
    BY <2>5, <2>6 DEF Same
  <2> HIDE DEF u
  <2>9. Exact(u) /\ Homes(u)
    <3>1. \A r \in Regs : Holders(u, r) = Holders(t, r)  BY <2>8 DEF Holders
    <3> QED  BY <2>4, <2>8, <3>1 DEF Merges, Exact, Homes
  <2>10. Sole(u, NumLocals, b.base)  BY <2>4, <2>8 DEF Merges, Sole
  <2>11. Follows(s, u, NumLocals + 1 .. b.base)
    BY <2>4, <2>8 DEF Merges, Follows, SameSource
  <2>12. Len(u.stack) = b.base + Results(b)  BY <2>3, <2>4, <2>8 DEF Merges
  <2> QED  BY <1>3, <2>7, <2>8, <2>9, <2>10, <2>11, <2>12 DEF Suits, Aims, u
<1> QED  BY <1>2, <1>3

\* A step from one context and control stack to the next on which the compiler's
\* own slots stay where they are.
Onward(m, m2, X) ==
  /\ Good(m2.c) /\ m2.c.stack = m.c.stack /\ m2.c.mem = m.c.mem /\ m2.c.ok = m.c.ok
  /\ m.c.spills <= m2.c.spills
  /\ Blocks(m2.k, m2.c.spills) /\ SameBlocks(m.k, m2.k) /\ Agreeing(Arrivals(m2.k) \cup X)

\* Label i is where state t is.
Landed(m, i, t) == m.k[i].reached /\ m.k[i].label.stack = t.stack

\* No assert of a merge fails where the states agree.
LEMMA JoinAsserts ==
  ASSUME NEW b, b.base \in 0 .. MaxHeight, NumLocals <= b.base, Results(b) \in Nat,
         NEW P, Agreeing(P), NEW s \in Context, NEW top \in Nat, b.base <= top,
         Point(s, top) \in P, b.base + Results(b) <= Len(s.stack), NEW full \in BOOLEAN,
         full => Len(s.stack) = b.base + Results(b), NEW t, Suits(b, P, s, t)
  PROVE  MergeAsserts(s, t, Results(b), full)
<1>1. b.base \in Nat /\ Len(s.stack) \in Nat  BY ContextShape, RegsAssumption
<1>2. /\ t \in Context /\ t.ok /\ Len(t.stack) = b.base + Results(b)
      /\ Sole(t, NumLocals, b.base) /\ Aims(P, s, t, b.base)
  BY DEF Suits
<1>3. Admits(s, t, NumLocals + 1 .. b.base)  BY <1>2, AimAdmits
<1>4. Len(t.stack) <= Len(s.stack) /\ (full => Len(t.stack) = Len(s.stack))
  BY <1>1, <1>2
<1> QED  BY <1>1, <1>2, <1>3, <1>4, MergeAssertsHold

\* A join goes on with the invariant.
LEMMA JoinOnward ==
  ASSUME NEW m, Good(m.c), Blocks(m.k, m.c.spills), NEW i \in 1 .. Len(m.k),
         NEW X, \A p \in X : p.top \in Nat, Agreeing(Arrivals(m.k) \cup X),
         NEW s, Sound(s, m.c.spills), Len(s.stack) <= MaxHeight, NEW top \in Nat,
         m.k[i].base <= top, Point(s, top) \in Arrivals(m.k) \cup X,
         m.k[i].base + Results(m.k[i]) <= Len(s.stack), NEW full \in BOOLEAN,
         full => Len(s.stack) = m.k[i].base + Results(m.k[i]),
         NEW t, Suits(m.k[i], Arrivals(m.k) \cup X, s, t)
  PROVE  Onward(m, Join(m, i, s, t, full), X) /\ Landed(Join(m, i, s, t, full), i, t)
<1> DEFINE b == m.k[i]
           P == Arrivals(m.k) \cup X
           m2 == Join(m, i, s, t, full)
<1>1. /\ b.base \in Nat /\ b.base \in 0 .. MaxHeight /\ NumLocals <= b.base
      /\ Results(b) \in Nat
  BY BlockShape
<1>2. s \in Context /\ m.c \in Context /\ Len(s.stack) \in Nat  BY ContextShape DEF Sound, Good
<1>3. /\ t \in Context /\ Exact(t) /\ Homes(t) /\ t.ok /\ Len(t.stack) = b.base + Results(b)
      /\ Sole(t, NumLocals, b.base) /\ (b.reached => t.stack = b.label.stack)
      /\ Aims(P, s, t, b.base)
  BY DEF Suits
<1> HIDE DEF P, m2
<1>4. MergeAsserts(s, t, Results(b), full)
  <2>1. Agreeing(P) /\ Point(s, top) \in P /\ Suits(b, P, s, t)  BY DEF P
  <2>2. b.base <= top /\ b.base + Results(b) <= Len(s.stack)
        /\ (full => Len(s.stack) = b.base + Results(b))
    OBVIOUS
  <2> HIDE DEF b
  <2> QED  BY <1>1, <1>2, <2>1, <2>2, JoinAsserts
<1>5. b.base <= Len(s.stack) /\ b.base <= Len(t.stack) /\ Len(t.stack) <= Len(s.stack)
  BY <1>1, <1>2, <1>3
<1>6. Joined(m, i, s, t, m2)  BY <1>1, <1>2, <1>3, <1>4, <1>5, JoinJoins DEF m2
<1>7. /\ Good(m2.c) /\ m2.c.stack = m.c.stack /\ m2.c.mem = m.c.mem /\ m2.c.ok = m.c.ok
      /\ m.c.spills <= m2.c.spills
      /\ Blocks(m2.k, m2.c.spills) /\ SameBlocks(m.k, m2.k)
      /\ m2.k[i].reached /\ m2.k[i].label.stack = t.stack
  BY <1>3, <1>6, JoinedBlocks
<1>8. Agreeing(Arrivals(m2.k) \cup X)  BY <1>2, <1>3, <1>5, <1>6, JoinedAgrees DEF P
<1>9. Onward(m, m2, X) /\ Landed(m2, i, t)  BY <1>7, <1>8 DEF Onward, Landed
<1> QED  BY <1>9 DEF m2

-----------------------------------------------------------------------------
(* Jumps. *)

\* A context and a control stack that may be jumped from; the common past of the
\* path being compiled reaches up to top.
Running(m, top) ==
  /\ Fits(m.c) /\ Blocks(m.k, m.c.spills) /\ Agreeing(Arrivals(m.k) \cup {Point(m.c, top)})

\* A jump leaves the compiler's own slots alone.
Jumped(m, m2, top) ==
  /\ Running(m2, top) /\ SameBlocks(m.k, m2.k)
  /\ m2.c.stack = m.c.stack /\ m2.c.ok = m.c.ok /\ m2.c.mem = m.c.mem

\* Jumps compose.
LEMMA JumpedTransitive ==
  ASSUME NEW a, NEW b, NEW c, NEW top, Jumped(a, b, top), Jumped(b, c, top)
  PROVE  Jumped(a, c, top)
BY SameBlocksTransitive DEF Jumped

LEMMA SameBlocksReflexive ==
  ASSUME NEW k
  PROVE  SameBlocks(k, k)
BY DEF SameBlocks

\* A join is a jump.
LEMMA OnwardJumped ==
  ASSUME NEW m, NEW top \in Nat, Running(m, top), NEW m2, Onward(m, m2, {Point(m.c, top)})
  PROVE  Jumped(m, m2, top)
<1> DEFINE P == Arrivals(m2.k) \cup {Point(m.c, top)}
           Q == Arrivals(m2.k) \cup {Point(m2.c, top)}
           I == NumLocals + 1 .. top
<1>1. /\ Good(m2.c) /\ m2.c.stack = m.c.stack /\ m2.c.mem = m.c.mem /\ m2.c.ok = m.c.ok
      /\ Blocks(m2.k, m2.c.spills) /\ SameBlocks(m.k, m2.k) /\ Agreeing(P)
  BY DEF Onward
<1>2. Follows(m.c, m2.c, I)  BY <1>1, UntouchedFollows
<1>3. \A p \in Arrivals(m2.k) : p.top \in Nat  BY <1>1, ArrivalTops
<1>4. /\ Point(m.c, top).s = m.c /\ Point(m.c, top).top = top
      /\ Point(m2.c, top).s = m2.c /\ Point(m2.c, top).top = top
  BY DEF Point
<1>5. ASSUME NEW q \in Q
      PROVE  /\ q.top \in Nat
             /\ \E p \in P : p.top \in Nat /\ q.top <= p.top
                             /\ Follows(p.s, q.s, NumLocals + 1 .. q.top)
  <2>1. CASE q \in Arrivals(m2.k)
    <3>1. q \in P /\ q.top \in Nat /\ q.top <= q.top  BY <1>3, <2>1
    <3>2. Follows(q.s, q.s, NumLocals + 1 .. q.top)  BY UntouchedFollows
    <3> QED  BY <3>1, <3>2
  <2>2. CASE q = Point(m2.c, top)
    <3> DEFINE p == Point(m.c, top)
    <3>1. p \in P /\ p.top = top /\ q.top = top /\ p.s = m.c /\ q.s = m2.c /\ top <= top
      BY <1>4, <2>2
    <3> HIDE DEF p
    <3> QED  BY <1>2, <3>1
  <2> QED  BY <2>1, <2>2
<1> HIDE DEF P, Q
<1>6. Agreeing(Q)  BY <1>1, <1>5, AgreeingFollows
<1>7. Fits(m2.c)  BY <1>1 DEF Running, Fits
<1> QED  BY <1>1, <1>6, <1>7 DEF Jumped, Running, Q

\* There is enough on the stack for label i.
Reaches(m, i, top) ==
  /\ i \in 1 .. Len(m.k) /\ m.k[i].base <= top
  /\ m.k[i].base + Results(m.k[i]) <= Len(m.c.stack)

\* A jump leaves the other labels in reach.
LEMMA ReachesStill ==
  ASSUME NEW m, NEW m2, NEW top, Jumped(m, m2, top), NEW i, Reaches(m, i, top)
  PROVE  Reaches(m2, i, top)
BY DEF Jumped, SameBlocks, Reaches, Results

\* A jump to a block.
LEMMA BrImplJumps ==
  ASSUME NEW m, NEW top \in Nat, Running(m, top), NEW i, Reaches(m, i, top)
  PROVE  Jumped(m, BrImpl(m, i), top)
<1> DEFINE X == {Point(m.c, top)}
           P == Arrivals(m.k) \cup X
           t == LabelState(m, i, m.c)
<1>1. /\ Good(m.c) /\ m.c \in Context /\ Len(m.c.stack) <= MaxHeight
      /\ Blocks(m.k, m.c.spills) /\ Agreeing(P)
  BY FitsShape DEF Running
<1>2. i \in 1 .. Len(m.k) /\ m.k[i].base <= top
      /\ m.k[i].base + Results(m.k[i]) <= Len(m.c.stack)
  BY DEF Reaches
<1>3. \A p \in X : p.top \in Nat  BY DEF Point
<1>4. Sound(m.c, m.c.spills)  BY <1>1, SoundIsGood
<1>5. Point(m.c, top) \in P /\ Point(m.c, top) \in Arrivals(m.k) \cup X  OBVIOUS
<1>6. BrImpl(m, i) = Join(m, i, m.c, t, FALSE)  BY DEF BrImpl
<1> HIDE DEF X
<1>7. Suits(m.k[i], P, m.c, t)
  <2>1. Arrivals(m.k) \subseteq P  OBVIOUS
  <2> HIDE DEF P
  <2> QED  BY <1>1, <1>2, <2>1, LabelStateSuits
<1> HIDE DEF t
<1>8. Onward(m, Join(m, i, m.c, t, FALSE), X)
  BY <1>1, <1>2, <1>3, <1>4, <1>5, <1>7, JoinOnward
<1> QED  BY <1>6, <1>8, OnwardJumped DEF X

\* An assert that holds leaves the context alone.
LEMMA AssertTrue ==
  ASSUME NEW c \in Context, NEW P \in BOOLEAN, P
  PROVE  Assert(c, P) = c
<1>1. P = TRUE /\ c.ok \in BOOLEAN  BY ContextShape
<1>2. (c.ok /\ TRUE) = c.ok  BY <1>1
<1>3. Assert(c, P) = [c EXCEPT !.ok = c.ok]  BY <1>1, <1>2 DEF Assert
<1> QED  BY <1>3 DEF Context

\* The results of the function are there for a return.
LEMMA ReturnImplStays ==
  ASSUME NEW m, NEW top \in Nat, Running(m, top), Reaches(m, 1, top)
  PROVE  ReturnImpl(m).c = m.c /\ ReturnImpl(m).k = m.k
<1>1. m.c \in Context /\ Blocks(m.k, m.c.spills)  BY FitsShape DEF Running
<1>2. 1 \in 1 .. Len(m.k) /\ m.k[1].base + Results(m.k[1]) <= Len(m.c.stack)  BY DEF Reaches
<1>3. m.k[1].type = "block" /\ m.k[1].arity = Arity /\ m.k[1].base \in Nat
  <2>1. m.k # <<>>  BY <1>1, <1>2 DEF Blocks
  <2> QED  BY <1>1, <1>2, <2>1, BlockShape DEF Blocks
<1>4. Height(m.c) >= Arity
  <2>1. Results(m.k[1]) = Arity  BY <1>3 DEF Results
  <2> QED  BY <1>1, <1>2, <1>3, <2>1, ContextShape, ControlFlowAssumption DEF Height
<1>5. Assert(m.c, Height(m.c) >= Arity) = m.c  BY <1>1, <1>4, AssertTrue
<1> QED  BY <1>5 DEF ReturnImpl, At

LEMMA ReturnImplJumps ==
  ASSUME NEW m, NEW top \in Nat, Running(m, top), Reaches(m, 1, top)
  PROVE  Jumped(m, ReturnImpl(m), top)
BY ReturnImplStays, SameBlocksReflexive DEF Jumped, Running

\* A jump to a block or out of the function.
LEMMA BrOrRetJumps ==
  ASSUME NEW m, NEW top \in Nat, Running(m, top), NEW d \in Nat, Reaches(m, Len(m.k) - d, top)
  PROVE  Jumped(m, BrOrRet(m, d), top)
<1>1. CASE d = Len(m.k) - 1
  <2>1. Len(m.k) \in Nat  BY DEF Running, Blocks
  <2>2. Len(m.k) - d = 1  BY <1>1, <2>1
  <2> QED  BY <1>1, <2>2, ReturnImplJumps DEF BrOrRet
<1>2. CASE d # Len(m.k) - 1  BY <1>2, BrImplJumps DEF BrOrRet
<1> QED  BY <1>1, <1>2

\* The cases of a table, one after the other.
Case(D, n, x) == IF n - 1 \in D THEN BrOrRet(x, n - 1) ELSE x

\* The compiler after each case of a br_table.
Cases(m, D, n, f) == f = [d \in 0 .. n |-> IF d = 0 THEN m ELSE Case(D, d, f[d - 1])]

\* There is such a sequence.
LEMMA CasesExist ==
  ASSUME NEW m, NEW D, NEW n \in Nat
  PROVE  \E f : Cases(m, D, n, f)
<1> DEFINE S == {x \in Nat : \E f : Cases(m, D, x, f)}
<1>1. 0 \in S
  <2> DEFINE f == [d \in 0 .. 0 |-> m]
  <2>1. \A d \in 0 .. 0 : d = 0  OBVIOUS
  <2>2. Cases(m, D, 0, f)  BY <2>1 DEF Cases
  <2> QED  BY <2>2
<1>2. ASSUME NEW x \in Nat, x \in S PROVE x + 1 \in S
  <2>1. PICK f : Cases(m, D, x, f)  BY <1>2
  <2> DEFINE e == Case(D, x + 1, f[x])
             g == [d \in 0 .. x + 1 |-> IF d = x + 1 THEN e ELSE f[d]]
             h == [d \in 0 .. x + 1 |-> IF d = 0 THEN m ELSE Case(D, d, g[d - 1])]
  <2> HIDE DEF e
  <2>2. ASSUME NEW d \in 0 .. x + 1 PROVE g[d] = h[d]
    <3>1. CASE d = x + 1
      <4>1. d # 0 /\ d - 1 = x /\ x \in 0 .. x + 1 /\ x # x + 1  BY <3>1
      <4>2. g[d - 1] = f[x]  BY <4>1
      <4>3. h[d] = Case(D, x + 1, f[x])  BY <3>1, <4>1, <4>2
      <4> QED  BY <3>1, <4>3 DEF e
    <3>2. CASE d # x + 1
      <4>1. d \in 0 .. x /\ (d # 0 => d - 1 \in 0 .. x /\ d - 1 \in 0 .. x + 1 /\ d - 1 # x + 1)
        BY <3>2
      <4>2. f[d] = IF d = 0 THEN m ELSE Case(D, d, f[d - 1])  BY <2>1, <4>1 DEF Cases
      <4>3. d # 0 => g[d - 1] = f[d - 1]  BY <4>1
      <4>4. g[d] = f[d]  BY <3>2
      <4>5. h[d] = IF d = 0 THEN m ELSE Case(D, d, g[d - 1])  OBVIOUS
      <4> HIDE DEF g, h
      <4> QED  BY <4>2, <4>3, <4>4, <4>5
    <3> QED  BY <3>1, <3>2
  <2>3. g = h
    <3>1. \A f1, f2 : f1 = [d \in 0 .. x + 1 |-> f1[d]] /\ f2 = [d \in 0 .. x + 1 |-> f2[d]]
                      /\ (\A d \in 0 .. x + 1 : f1[d] = f2[d]) => f1 = f2
      OBVIOUS
    <3>2. g = [d \in 0 .. x + 1 |-> g[d]] /\ h = [d \in 0 .. x + 1 |-> h[d]]  OBVIOUS
    <3> HIDE DEF g, h
    <3> QED  BY <2>2, <3>1, <3>2
  <2>4. Cases(m, D, x + 1, g)
    <3> HIDE DEF g
    <3> QED  BY <2>3 DEF Cases
  <2> QED  BY <2>4
<1> HIDE DEF S
<1>3. n \in S  BY <1>1, <1>2, UpTo
<1> QED  BY <1>3 DEF S

\* BrAll is its last element.
AllCases(m, D, f) ==
  /\ BrAll(m, D) = f[Len(m.k)] /\ f[0] = m
  /\ \A d \in 0 .. Len(m.k) - 1 : f[d + 1] = IF d \in D THEN BrOrRet(f[d], d) ELSE f[d]

LEMMA BrAllCases ==
  ASSUME NEW m, NEW D, Len(m.k) \in Nat
  PROVE  \E f : AllCases(m, D, f)
<1> DEFINE n == Len(m.k)
<1> SUFFICES \E f : /\ BrAll(m, D) = f[n] /\ f[0] = m
                    /\ \A d \in 0 .. n - 1 :
                         f[d + 1] = IF d \in D THEN BrOrRet(f[d], d) ELSE f[d]
  BY DEF AllCases
<1>0. n \in Nat /\ Len(m.k) = n  OBVIOUS
<1> HIDE DEF n
<1> USE <1>0
<1> DEFINE f == CHOOSE f : Cases(m, D, n, f)
<1>1. Cases(m, D, n, f)  BY CasesExist
<1>2. BrAll(m, D) = f[n]  BY DEF BrAll, Cases, Case
<1> HIDE DEF f
<1>3. f[0] = m  BY <1>1 DEF Cases
<1>4. \A j \in 0 .. n : f[j] = IF j = 0 THEN m ELSE Case(D, j, f[j - 1])
  <2> DEFINE b(g, j) == IF j = 0 THEN m ELSE Case(D, j, g[j - 1])
  <2>1. f = [j \in 0 .. n |-> b(f, j)]  BY <1>1 DEF Cases
  <2> HIDE DEF b
  <2>2. \A j \in 0 .. n : f[j] = b(f, j)  BY <2>1
  <2> QED  BY <2>2 DEF b
<1>5. ASSUME NEW d \in 0 .. n - 1
      PROVE  f[d + 1] = IF d \in D THEN BrOrRet(f[d], d) ELSE f[d]
  <2>1. d + 1 \in 0 .. n /\ d + 1 # 0 /\ d + 1 - 1 = d  OBVIOUS
  <2> DEFINE j == d + 1
  <2>2. j \in 0 .. n /\ j # 0 /\ j - 1 = d  BY <2>1
  <2> HIDE DEF j
  <2>3. f[j] = Case(D, j, f[j - 1])  BY <1>4, <2>2
  <2>4. f[j] = IF d \in D THEN BrOrRet(f[d], d) ELSE f[d]  BY <2>2, <2>3 DEF Case
  <2> QED  BY <2>4 DEF j
<1> QED  BY <1>2, <1>3, <1>5

\* All the cases of a br_table, one after another.
LEMMA BrAllJumps ==
  ASSUME NEW m, NEW top \in Nat, Running(m, top), NEW D,
         \A d \in D : d \in Nat /\ Reaches(m, Len(m.k) - d, top)
  PROVE  Jumped(m, BrAll(m, D), top)
<1> DEFINE n == Len(m.k)
<1>1. n \in Nat  BY DEF Running, Blocks
<1>2. PICK f : /\ BrAll(m, D) = f[n] /\ f[0] = m
               /\ \A d \in 0 .. n - 1 : f[d + 1] = IF d \in D THEN BrOrRet(f[d], d) ELSE f[d]
  <2>1. PICK f : AllCases(m, D, f)  BY <1>1, BrAllCases
  <2> QED  BY <2>1 DEF AllCases
<1> DEFINE S == {d \in Nat : d <= n => Jumped(m, f[d], top)}
<1>3. 0 \in S
  <2>1. Jumped(m, m, top)  BY SameBlocksReflexive DEF Jumped
  <2> QED  BY <1>2, <2>1
<1>4. ASSUME NEW d \in Nat, d \in S PROVE d + 1 \in S
  <2> SUFFICES ASSUME d + 1 <= n PROVE Jumped(m, f[d + 1], top)
    BY <1>4
  <2>1. d \in 0 .. n - 1 /\ d <= n  BY <1>1
  <2>2. Jumped(m, f[d], top)  BY <1>4, <2>1
  <2>3. f[d + 1] = IF d \in D THEN BrOrRet(f[d], d) ELSE f[d]  BY <1>2, <2>1
  <2>4. CASE d \in D
    <3>1. Running(f[d], top) /\ Len(f[d].k) = n  BY <2>2 DEF Jumped, SameBlocks
    <3>2. Reaches(f[d], n - d, top)  BY <2>2, <2>4, ReachesStill
    <3>3. Jumped(f[d], BrOrRet(f[d], d), top)  BY <3>1, <3>2, BrOrRetJumps
    <3> QED  BY <2>2, <2>3, <2>4, <3>3, JumpedTransitive
  <2>5. CASE d \notin D  BY <2>2, <2>3, <2>5
  <2> QED  BY <2>4, <2>5
<1> HIDE DEF S
<1>5. n \in S  BY <1>1, <1>3, <1>4, UpTo
<1> QED  BY <1>1, <1>2, <1>5 DEF S

-----------------------------------------------------------------------------
(* Going on. *)

\* What a handler has to establish of the context and the control stack that it
\* hands on, with the validator's height.
Concludes(c, k, h) ==
  /\ Good(c) /\ Blocks(k, c.spills) /\ Level(c, k, h) /\ Agreeing(Points(c, k))

\* What a step leaves is the invariant and the asserts.
LEMMA Conclude ==
  ASSUME NEW c, NEW k, Concludes(c, k, height'), Proceed(c, k)
  PROVE  IInv' /\ ok' = c.ok /\ control' = k
<1> DEFINE c2 == IF LiveStack(k) THEN c ELSE [c EXCEPT !.regs = NoRegs, !.mem = NoFrame]
           e == Settled(c2)
<1>1. Good(c) /\ Blocks(k, c.spills) /\ Level(c, k, height') /\ Agreeing(Points(c, k))
  BY DEF Concludes
<1>2. c \in Context  BY <1>1 DEF Good
<1>3. control' = k /\ Code!Become(c2)  BY DEF Proceed, LiveStack
<1>4. c2 \in Context /\ Same(c, c2) /\ c2.ok = c.ok /\ (LiveStack(k) => c2 = c)
  BY <1>2, ForgottenSound DEF Same
<1> HIDE DEF c2
<1>5. Ctx' = e /\ Len(c2.stack) <= MaxHeight  BY <1>3, <1>4, Becomes
<1>6. Same(c2, e) /\ e.ok = c2.ok /\ e.mem = LiveMem(c2)  BY <1>4, SettledSame
<1> HIDE DEF e
<1>7. Same(c, e) /\ e.ok = c.ok  BY <1>4, <1>6, SameTransitive
<1>8. e \in Context /\ e.stack = c.stack /\ e.spills = c.spills /\ Len(e.stack) <= MaxHeight
      /\ e.used = c.used /\ e.count = c.count
  BY <1>4, <1>5, <1>7 DEF Same
<1>9. Fits(e)  BY <1>1, <1>8, SameCache DEF Fits
<1>10. Level(e, k, height')  BY <1>1, <1>8 DEF Level
<1>11. Agreeing(Points(e, k))
  <2>1. CASE LiveStack(k)
    <3> DEFINE b == k[Len(k)].base
               P == Points(c, k)
               Q == Points(e, k)
               I == NumLocals + 1 .. b
    <3>1. Len(k) \in 1 .. Len(k)
      <4>1. k \in Seq(ControlBlock) /\ k # <<>>  BY <1>1, <2>1 DEF Blocks, LiveStack
      <4> QED  BY <4>1
    <3>2. b \in Nat /\ b <= MaxHeight  BY <1>1, <3>1, BlockShape
    <3>3. b <= Len(c.stack)
      <4>1. Len(c.stack) = height' /\ height' >= b  BY <1>1, <2>1 DEF Level
      <4> QED  BY <1>2, <3>2, <4>1, ContextShape
    <3>4. P = Arrivals(k) \cup {Point(c, b)} /\ Q = Arrivals(k) \cup {Point(e, b)}
      BY <2>1 DEF Points
    <3>5. /\ Point(c, b).s = c /\ Point(c, b).top = b
          /\ Point(e, b).s = e /\ Point(e, b).top = b
      BY DEF Point
    <3>6. Follows(c, e, I)
      <4>1. c2 = c  BY <1>4, <2>1
      <4>2. I \in SUBSET Frame /\ I \subseteq DOMAIN c.stack
        BY <1>2, <3>2, <3>3, ContextShape, ControlFlowAssumption, RegsAssumption DEF Frame
      <4> HIDE DEF I
      <4> QED  BY <1>2, <1>6, <1>8, <4>1, <4>2, SettledFollows
    <3>7. \A p \in Arrivals(k) : p.top \in Nat  BY <1>1, ArrivalTops
    <3> HIDE DEF b
    <3>8. ASSUME NEW q \in Q
          PROVE  /\ q.top \in Nat
                 /\ \E p \in P : p.top \in Nat /\ q.top <= p.top
                                 /\ Follows(p.s, q.s, NumLocals + 1 .. q.top)
      <4>1. CASE q \in Arrivals(k)
        <5>1. q \in P /\ q.top \in Nat /\ q.top <= q.top  BY <3>4, <3>7, <4>1
        <5>2. Follows(q.s, q.s, NumLocals + 1 .. q.top)  BY UntouchedFollows
        <5> QED  BY <5>1, <5>2
      <4>2. CASE q = Point(e, b)
        <5> DEFINE p == Point(c, b)
        <5>1. p \in P /\ p.top = b /\ q.top = b /\ p.s = c /\ q.s = e /\ b <= b
          BY <3>2, <3>4, <3>5, <4>2
        <5> HIDE DEF p, P
        <5> QED  BY <3>2, <3>6, <5>1
      <4> QED  BY <3>4, <4>1, <4>2
    <3>9. Agreeing(P)  BY <1>1
    <3> HIDE DEF P, Q
    <3>10. Agreeing(Q)  BY <3>8, <3>9, AgreeingFollows
    <3> QED  BY <3>10 DEF Q
  <2>2. CASE ~LiveStack(k)  BY <1>1, <2>2 DEF Points
  <2> QED  BY <2>1, <2>2
<1>12. Blocks(k, e.spills)  BY <1>1, <1>8
<1>13. spills' = e.spills /\ ok' = e.ok  BY <1>5, CtxFieldsNext
<1> QED  BY <1>3, <1>5, <1>7, <1>9, <1>10, <1>11, <1>12, <1>13 DEF IInv

\* What every step keeps: the invariant; labels that were reached stay where they
\* are; no assert fails, unless code is compiled after a block that never ends, or
\* a body that never ends has too few locals for its results.
Keeps(k, k2) ==
  \A i \in DOMAIN k \cap DOMAIN k2 : k[i].reached => k2[i].label.stack = k[i].label.stack

\* What is shown of every step: the invariant, the labels that stay, and the asserts.
StepSound ==
  /\ IInv' /\ Keeps(control, control')
  /\ ok' = ok \/ (~Live /\ (CodeAfterDeadBlock \/ Arity > NumLocals))

\* A step that ends in a sound pair of context and control stack is sound.
LEMMA StepConcludes ==
  ASSUME NEW c, NEW k, Concludes(c, k, height'), Proceed(c, k), Keeps(control, k),
         c.ok = ok \/ (~Live /\ (CodeAfterDeadBlock \/ Arity > NumLocals))
  PROVE  StepSound
BY Conclude DEF StepSound

-----------------------------------------------------------------------------
(* The entry of a function that is not the first one compiled. *)

\* A state agrees with itself.
LEMMA AgreesWithItself ==
  ASSUME NEW s, NEW I
  PROVE  Admits(s, s, I)
BY DEF Admits, SameSource

\* The function's entry.
LEMMA InitInvariant ==
  ASSUME Init, ~FirstFunction
  PROVE  IInv
<1>0. /\ NumLocals \in Nat /\ NumParams \in 0 .. NumLocals /\ NumLocals <= MaxHeight
      /\ NumParams <= Len(ParamRegs) /\ ParamRegs \in Seq(Regs \ Reserved) /\ MaxHeight \in Nat
      /\ Arity \in {0, 1}
  BY ControlFlowAssumption, RegsAssumption DEF Init, Code!Init
<1>1. PICK v \in [1 .. NumParams -> Values] :
        regs = [r \in Regs |-> IF \E i \in 1 .. NumParams : ParamRegs[i] = r
                               THEN v[CHOOSE i \in 1 .. NumParams : ParamRegs[i] = r] ELSE Junk]
  BY DEF Init, Code!Init, Code!Junk, Junk
<1>2. stack = EntryStack(NumLocals, NumParams, ParamRegs)
  BY DEF Init, Code!Init, Code!EntrySlot, Code!RegSlot, Code!ConstSlot, Code!NoReg,
         RegSlot, ConstSlot, NoReg, EntryStack
<1>3. Ctx = EntryCache(NumLocals, NumParams, ParamRegs, v)
  BY <1>1, <1>2, CodeCtx, CodeCardinality
     DEF Init, Code!Init, Code!Frame, Code!Junk, Frame, Junk, EntryCache
<1>4. Good(Ctx) /\ Len(Ctx.stack) = NumLocals
  BY <1>0, <1>3, EntryGood
<1>5. spills = 0 /\ height = NumLocals  BY DEF Init, Code!Init
<1> DEFINE b == [type |-> "block", arity |-> Arity, base |-> NumLocals, valid |-> NumLocals,
                 reach |-> "Reachable", reached |-> FALSE,
                 label |-> FreshState, else |-> FreshState]
<1>6. control = <<b>>  BY DEF Init
<1>7. b \in ControlBlock  BY <1>0, FreshSound DEF ControlBlock
<1>8. BlockSound(b, 0)  BY FreshSound DEF BlockSound
<1>9. /\ b.type = "block" /\ b.arity = Arity /\ b.base = NumLocals /\ Reachable(b) /\ ~b.reached
  BY DEF Reachable
<1> HIDE DEF b
<1>10. control \in Seq(ControlBlock) /\ Len(control) = 1 /\ control[1] = b /\ control # <<>>
  BY <1>6, <1>7
<1>11. \A i \in 1 .. Len(control) : i = 1  BY <1>10
<1>12. Blocks(control, 0)
  <2>1. \A i \in 1 .. Len(control) : BlockSound(control[i], 0)  BY <1>8, <1>10, <1>11
  <2>2. \A i \in 1 .. Len(control) : i < Len(control) => Reachable(control[i])
    BY <1>10, <1>11
  <2>3. \A i, j \in 1 .. Len(control) : i <= j => control[i].base <= control[j].base
    BY <1>0, <1>9, <1>10, <1>11
  <2> QED  BY <1>9, <1>10, <2>1, <2>2, <2>3 DEF Blocks
<1>13. Level(Ctx, control, height)
  BY <1>0, <1>4, <1>5, <1>9, <1>10 DEF Level, LiveStack
<1>14. Agreeing(Points(Ctx, control))
  <2>1. Arrivals(control) = {}  BY <1>9, <1>10, <1>11 DEF Arrivals
  <2>2. Points(Ctx, control) \subseteq {Point(Ctx, NumLocals)}
    BY <1>9, <1>10, <2>1 DEF Points
  <2>3. Agreeing({Point(Ctx, NumLocals)})  BY AgreesWithItself DEF Agreeing
  <2> QED  BY <2>2, <2>3, FewerAgree
<1> QED  BY <1>0, <1>4, <1>5, <1>12, <1>13, <1>14 DEF IInv, Fits

-----------------------------------------------------------------------------
(* Straight-line handlers. *)

\* What holds where an instruction with n operands is compiled.
LEMMA Compiled ==
  ASSUME IInv, NEW n \in Nat, Compiles(n)
  PROVE  /\ Fits(Ctx) /\ Ctx \in Context /\ ok /\ Ctx.ok = ok /\ Ctx.spills = spills
         /\ Ctx.stack = stack /\ Len(stack) \in Nat /\ Len(stack) <= MaxHeight
         /\ control \in Seq(ControlBlock) /\ Len(control) \in 1 .. Len(control)
         /\ Len(control) \in Nat /\ Len(control) > 0
         /\ Current \in ControlBlock /\ Current = control[Len(control)]
         /\ LiveStack(control) /\ Live
         /\ height = Len(stack) /\ Current.valid = Current.base
         /\ Current.base \in Nat /\ NumLocals <= Current.base /\ Current.base <= MaxHeight
         /\ Current.base + n <= Len(stack)
<1>1. Fits(Ctx) /\ Blocks(control, spills) /\ Level(Ctx, control, height)  BY DEF IInv
<1>2. ok /\ control # <<>> /\ Reachable(Current) /\ height - Current.valid >= n
  BY DEF Compiles
<1>3. control \in Seq(ControlBlock) /\ Len(control) \in 1 .. Len(control)
      /\ Len(control) \in Nat /\ Len(control) > 0
  BY <1>1, <1>2 DEF Blocks
<1>4. LiveStack(control) /\ Live  BY <1>2 DEF LiveStack, Live, Current
<1>5. Ctx.stack = stack /\ Ctx.ok = ok /\ Ctx.spills = spills  BY CtxFields
<1>6. Ctx \in Context /\ Len(stack) \in Nat /\ Len(stack) <= MaxHeight  BY <1>1, <1>5, FitsShape
<1>7. Current \in ControlBlock /\ BlockSound(Current, spills) /\ Current.base \in Nat
      /\ NumLocals <= Current.base /\ Current.base <= MaxHeight
  BY <1>1, <1>3, BlockShape DEF Current
<1>8. Current.valid = Current.base  BY <1>7 DEF BlockSound
<1>9. height = Len(stack)  BY <1>1, <1>4, <1>5 DEF Level
<1>10. Current.base + n <= Len(stack)  BY <1>2, <1>6, <1>7, <1>8, <1>9
<1> QED  BY <1>1, <1>2, <1>3, <1>4, <1>5, <1>6, <1>7, <1>8, <1>9, <1>10 DEF Current

\* What a handler finds where code runs.
LEMMA CompiledAbove ==
  ASSUME IInv, NEW n \in Nat, Compiles(n)
  PROVE  /\ Fits(Ctx) /\ Good(Ctx) /\ Ctx \in Context /\ Ctx.ok = ok /\ Ctx.stack = stack
         /\ Len(stack) \in Nat /\ Len(stack) <= MaxHeight /\ height = Len(stack)
         /\ NumLocals + n <= Len(stack) /\ Reachable(Current) /\ NumLocals \in Nat
<1>1. /\ Fits(Ctx) /\ Ctx \in Context /\ Ctx.ok = ok /\ Ctx.stack = stack
      /\ Len(stack) \in Nat /\ Len(stack) <= MaxHeight /\ height = Len(stack)
      /\ Current.base \in Nat /\ NumLocals <= Current.base /\ Current.base + n <= Len(stack)
  BY Compiled
<1>2. NumLocals \in Nat  BY ControlFlowAssumption
<1>3. NumLocals + n <= Len(stack)  BY <1>1, <1>2
<1>4. Reachable(Current)  BY DEF Compiles
<1> QED  BY <1>1, <1>2, <1>3, <1>4, FitsShape

\* The point of the path being compiled, moved on by a handler.
LEMMA PointMoves ==
  ASSUME NEW A, \A p \in A : p.top \in Nat, NEW c, NEW d, NEW a \in Nat, NEW b \in Nat, b <= a,
         Agreeing(A \cup {Point(c, a)}), Follows(c, d, NumLocals + 1 .. b)
  PROVE  Agreeing(A \cup {Point(d, b)})
<1> DEFINE P == A \cup {Point(c, a)}
           Q == A \cup {Point(d, b)}
<1>1. ASSUME NEW q \in Q
      PROVE  /\ q.top \in Nat
             /\ \E p \in P : p.top \in Nat /\ q.top <= p.top
                             /\ Follows(p.s, q.s, NumLocals + 1 .. q.top)
  <2>1. CASE q \in A
    <3>1. q \in P /\ q.top \in Nat /\ q.top <= q.top  BY <2>1
    <3>2. Follows(q.s, q.s, NumLocals + 1 .. q.top)  BY UntouchedFollows
    <3> QED  BY <3>1, <3>2
  <2>2. CASE q = Point(d, b)
    <3> DEFINE p == Point(c, a)
    <3>1. p \in P /\ p.top = a /\ q.top = b /\ p.s = c /\ q.s = d  BY <2>2 DEF Point
    <3> HIDE DEF p, P
    <3> QED  BY <3>1
  <2> QED  BY <2>1, <2>2
<1> HIDE DEF P, Q
<1>2. Agreeing(P)  BY DEF P
<1>3. Agreeing(Q)  BY <1>1, <1>2, AgreeingFollows
<1> QED  BY <1>3 DEF Q

\* A frame that grows does no harm to any block.
LEMMA BlocksLater ==
  ASSUME NEW k, NEW n \in Nat, NEW x \in Nat, n <= x, Blocks(k, n)
  PROVE  Blocks(k, x)
<1>1. \A i \in 1 .. Len(k) : BlockSound(k[i], x)  BY BlockSoundLater DEF Blocks
<1> QED  BY <1>1 DEF Blocks

\* Nothing is lost when nothing changes.
LEMMA KeepsItself ==
  ASSUME NEW k
  PROVE  Keeps(k, k)
BY DEF Keeps

\* The path being compiled is one of the points.
LEMMA LivePoints ==
  ASSUME IInv, LiveStack(control)
  PROVE  /\ Agreeing(Arrivals(control) \cup {Point(Ctx, Current.base)})
         /\ Points(Ctx, control) = Arrivals(control) \cup {Point(Ctx, Current.base)}
         /\ \A p \in Arrivals(control) : p.top \in Nat
<1>1. Points(Ctx, control) = Arrivals(control) \cup {Point(Ctx, Current.base)}
  BY DEF Points, Current
<1>2. Agreeing(Points(Ctx, control)) /\ Blocks(control, spills)  BY DEF IInv
<1> QED  BY <1>1, <1>2, ArrivalTops

\* A handler that works on the operands of the block keeps the invariant.
LEMMA StraightSound ==
  ASSUME IInv, NEW n \in {0, 1}, NEW p \in {0, 1}, NEW c, Straight(n, p, c), Good(c),
         c.ok = ok, Len(c.stack) = Len(stack) - n + p,
         Later(Ctx, c, NumLocals + 1 .. Current.base)
  PROVE  StepSound
<1>1. Compiles(n) /\ Code!Become(c) /\ height' = height - n + p /\ control' = control
  BY DEF Straight
<1>2. /\ Ctx \in Context /\ Ctx.spills = spills /\ Len(stack) \in Nat
      /\ LiveStack(control) /\ height = Len(stack)
      /\ Current.base \in Nat /\ NumLocals <= Current.base /\ Current.base + n <= Len(stack)
  BY <1>1, Compiled
<1>3. c \in Context /\ Len(c.stack) <= MaxHeight /\ c.spills \in Nat /\ spills \in Nat
  BY <1>1, <1>2, Becomes, ContextShape DEF Good
<1>4. spills <= c.spills /\ Follows(Ctx, c, NumLocals + 1 .. Current.base)
  BY <1>2 DEF Later
<1>5. Blocks(control, c.spills)  BY <1>3, <1>4, BlocksLater DEF IInv
<1>6. Level(c, control, height')
  <2>1. height' = Len(c.stack) /\ height' >= Current.base  BY <1>1, <1>2
  <2> DEFINE l == Len(c.stack)
  <2>2. l \in Nat /\ NumLocals \in Nat /\ MaxHeight \in Nat
    BY <1>3, ContextShape, ControlFlowAssumption, RegsAssumption
  <2>3. l >= NumLocals /\ l <= MaxHeight  BY <1>2, <1>3, <2>1, <2>2
  <2> HIDE DEF l
  <2>4. l \in NumLocals .. MaxHeight + 1  BY <2>2, <2>3
  <2> QED  BY <2>1, <2>3, <2>4 DEF Level, Current, l
<1>7. Agreeing(Points(c, control))
  <2>1. Points(c, control) = Arrivals(control) \cup {Point(c, Current.base)}
    BY <1>2 DEF Points, Current
  <2>2. /\ Agreeing(Arrivals(control) \cup {Point(Ctx, Current.base)})
        /\ \A q \in Arrivals(control) : q.top \in Nat
    BY <1>2, LivePoints
  <2> DEFINE A == Arrivals(control)
             a == Current.base
  <2>3. a \in Nat /\ a <= a /\ Follows(Ctx, c, NumLocals + 1 .. a)  BY <1>2, <1>4
  <2> HIDE DEF A, a
  <2>4. Agreeing(A \cup {Point(c, a)})  BY <2>2, <2>3, PointMoves DEF A, a
  <2> QED  BY <2>1, <2>4 DEF A, a
<1>8. Proceed(c, control)
  <2> DEFINE e == IF control # <<>> /\ Reachable(control[Len(control)]) THEN c
                  ELSE [c EXCEPT !.regs = NoRegs, !.mem = NoFrame]
  <2>1. e = c  BY <1>2 DEF LiveStack
  <2> HIDE DEF e
  <2>2. Code!Become(e)  BY <1>1, <2>1
  <2> QED  BY <1>1, <2>2 DEF Proceed, e
<1>9. Concludes(c, control, height')  BY <1>5, <1>6, <1>7 DEF Concludes
<1> QED  BY <1>8, <1>9, StepConcludes, KeepsItself

\* Constants, globals, locals, drop.
LEMMA StraightStep ==
  ASSUME IInv,
         \/ \E v \in Immediates : I32Const(v)
         \/ \E v \in Values : LoadValue(v)
         \/ \E x \in 1 .. NumLocals : GetLocal(x) \/ SetLocal(x)
         \/ Drop
  PROVE  StepSound
<1> DEFINE I == NumLocals + 1 .. Current.base
<1>0. Choice({})  BY OneMoreRegister
<1>1. ASSUME NEW n \in {0, 1}, Compiles(n)
      PROVE  /\ Fits(Ctx) /\ Good(Ctx) /\ Ctx \in Context /\ Ctx.ok = ok /\ Ctx.stack = stack
             /\ Len(stack) \in Nat /\ DOMAIN stack = 1 .. Len(stack) /\ Current.base \in Nat
             /\ NumLocals \in Nat /\ NumLocals <= Current.base /\ Current.base + n <= Len(stack)
  BY <1>1, Compiled, FitsShape, ControlFlowAssumption
<1>2. ASSUME NEW n \in {0, 1}, Compiles(n)
      PROVE  I \in SUBSET (1 .. Len(stack) - n)
  BY <1>1, <1>2
<1> HIDE DEF I
<1>3. ASSUME NEW v \in Immediates, I32Const(v) PROVE StepSound
  <2> DEFINE c == PushConst(Ctx, v)
  <2>1. Straight(0, 1, c) /\ Compiles(0)  BY <1>3 DEF I32Const, Straight
  <2>2. v \in Values  BY ControlFlowAssumption
  <2>3. Good(c) /\ Len(c.stack) = Len(stack) - 0 + 1  BY <1>1, <2>1, <2>2, PushConstGood
  <2>4. c = Push(Ctx, ConstSlot(v)) /\ ConstSlot(v) \in Slot
    BY <2>2, SlotsAreSlots DEF PushConst
  <2>5. c.ok = ok  BY <1>1, <2>1, <2>4, PushOk
  <2>6. Later(Ctx, c, I)
    <3>1. I \in SUBSET (DOMAIN Ctx.stack)  BY <1>1, <1>2, <2>1
    <3> QED  BY <1>1, <2>1, <2>4, <3>1, PushLater
  <2> HIDE DEF c
  <2> QED  BY <2>1, <2>3, <2>5, <2>6, StraightSound DEF I
<1>4. ASSUME NEW v \in Values, LoadValue(v) PROVE StepSound
  <2> DEFINE c == LoadedValue(Ctx, v)
  <2>1. Straight(0, 1, c) /\ Compiles(0)  BY <1>4 DEF LoadValue, Straight
  <2>2. Good(c) /\ Len(c.stack) = Len(stack) - 0 + 1 /\ c.ok = ok
    BY <1>0, <1>1, <2>1, LoadedValueGood
  <2>3. Later(Ctx, c, I)
    <3>1. I \in SUBSET (DOMAIN Ctx.stack)  BY <1>1, <1>2, <2>1
    <3> QED  BY <1>0, <1>1, <2>1, <3>1, LoadedValueLater
  <2> HIDE DEF c
  <2> QED  BY <2>1, <2>2, <2>3, StraightSound DEF I
<1>5. ASSUME NEW x \in 1 .. NumLocals, GetLocal(x) PROVE StepSound
  <2> DEFINE c == CopyLocal(Ctx, x)
  <2>1. Straight(0, 1, c) /\ Compiles(0)  BY <1>5 DEF GetLocal, Straight
  <2>2. x \in DOMAIN Ctx.stack  BY <1>1, <2>1
  <2>3. Good(c) /\ Len(c.stack) = Len(stack) - 0 + 1 /\ c.ok = ok
    BY <1>0, <1>1, <2>1, <2>2, CopyLocalGood
  <2>4. Later(Ctx, c, I)
    <3>1. I \in SUBSET (DOMAIN Ctx.stack)  BY <1>1, <1>2, <2>1
    <3> QED  BY <1>0, <1>1, <2>1, <2>2, <3>1, CopyLocalLater
  <2> HIDE DEF c
  <2> QED  BY <2>1, <2>3, <2>4, StraightSound DEF I
<1>6. ASSUME NEW x \in 1 .. NumLocals, SetLocal(x) PROVE StepSound
  <2> DEFINE c == SetLocalImpl(Ctx, x, FALSE)
  <2>1. Straight(1, 0, c) /\ Compiles(1)  BY <1>6 DEF SetLocal, Straight
  <2>2. x \in 1 .. Len(Ctx.stack) - 1  BY <1>1, <2>1
  <2>3. Good(c) /\ Len(c.stack) = Len(Ctx.stack) - 1 /\ c.ok = ok
    <3>1. FALSE \in BOOLEAN /\ ~FALSE  OBVIOUS
    <3>2. Fits(Ctx) /\ Ctx.ok = ok  BY <1>1, <2>1
    <3> QED  BY <1>0, <2>2, <3>1, <3>2, SetLocalGood, SetLocalOk
  <2>5. Len(c.stack) = Len(stack) - 1 + 0
    <3>1. Ctx.stack = stack /\ Len(stack) \in Nat  BY <1>1, <2>1
    <3> HIDE DEF c
    <3> QED  BY <2>3, <3>1
  <2>4. Later(Ctx, c, I)
    <3>1. I \in SUBSET (1 .. Len(Ctx.stack) - 1)  BY <1>1, <1>2, <2>1
    <3>2. x \notin I  BY ControlFlowAssumption DEF I
    <3> QED  BY <1>0, <1>1, <2>1, <2>2, <3>1, <3>2, SetLocalLater
  <2> HIDE DEF c
  <2> QED  BY <2>1, <2>3, <2>4, <2>5, StraightSound DEF I
<1>7. ASSUME Drop PROVE StepSound
  <2> DEFINE c == DropTop(Ctx)
  <2>1. Straight(1, 0, c) /\ Compiles(1)  BY <1>7 DEF Drop, Straight
  <2>2. Len(Ctx.stack) > 0  BY <1>1, <2>1
  <2>3. Good(c) /\ Len(c.stack) = Len(Ctx.stack) - 1 /\ c.ok = ok
    BY <1>1, <2>1, <2>2, DropTopGood
  <2>5. Len(c.stack) = Len(stack) - 1 + 0  BY <1>1, <2>1, <2>3
  <2>4. Later(Ctx, c, I)
    <3>1. I \in SUBSET (1 .. Len(Ctx.stack) - 1)  BY <1>1, <1>2, <2>1
    <3> QED  BY <1>1, <2>1, <2>2, <3>1, DropTopLater
  <2> HIDE DEF c
  <2> QED  BY <2>1, <2>3, <2>4, <2>5, StraightSound DEF I
<1> QED  BY <1>3, <1>4, <1>5, <1>6, <1>7

-----------------------------------------------------------------------------
(* BLOCK, LOOP, IF *)

\* A block on top of the others.
LEMMA Appended ==
  ASSUME NEW S, NEW k \in Seq(S), NEW b \in S
  PROVE  /\ Append(k, b) \in Seq(S) /\ Len(Append(k, b)) = Len(k) + 1 /\ Len(k) \in Nat
         /\ Append(k, b)[Len(k) + 1] = b /\ Append(k, b) # <<>>
         /\ \A i \in 1 .. Len(k) : Append(k, b)[i] = k[i]
         /\ \A i \in 1 .. Len(Append(k, b)) : i \in 1 .. Len(k) \/ i = Len(k) + 1
<1>1. /\ Append(k, b) \in Seq(S) /\ Len(Append(k, b)) = Len(k) + 1 /\ Len(k) \in Nat
      /\ Append(k, b)[Len(k) + 1] = b
      /\ \A i \in 1 .. Len(k) : Append(k, b)[i] = k[i]
  OBVIOUS
<1>2. Append(k, b) # <<>>  BY <1>1
<1> QED  BY <1>1, <1>2

\* Its base is above the others.
LEMMA AppendedBlocks ==
  ASSUME NEW k, NEW n \in Nat, Blocks(k, n), LiveStack(k), NEW b \in ControlBlock,
         BlockSound(b, n), k[Len(k)].base <= b.base
  PROVE  Blocks(Append(k, b), n) /\ Keeps(k, Append(k, b))
<1> DEFINE k2 == Append(k, b)
           l == Len(k)
<1>1. k \in Seq(ControlBlock) /\ k # <<>>  BY DEF Blocks, LiveStack
<1>2. /\ k2 \in Seq(ControlBlock) /\ Len(k2) = l + 1 /\ l \in Nat /\ k2[l + 1] = b
      /\ \A i \in 1 .. l : k2[i] = k[i]
      /\ \A i \in 1 .. Len(k2) : i \in 1 .. l \/ i = l + 1
  BY <1>1, Appended
<1>3. l \in 1 .. l /\ 1 \in 1 .. l  BY <1>1
<1>4. DOMAIN k = 1 .. l  BY <1>1
<1> HIDE DEF k2, l
<1>5. \A i \in 1 .. Len(k2) : BlockSound(k2[i], n)  BY <1>2 DEF Blocks, l
<1>6. \A i \in 1 .. Len(k2) : i < Len(k2) => Reachable(k2[i])
  <2> SUFFICES ASSUME NEW i \in 1 .. Len(k2), i < Len(k2) PROVE Reachable(k2[i])
    OBVIOUS
  <2>1. i \in 1 .. l /\ k2[i] = k[i]  BY <1>2
  <2>2. CASE i < l  BY <2>1, <2>2 DEF Blocks, l
  <2>3. CASE i = l  BY <2>1, <2>3 DEF LiveStack, l
  <2> QED  BY <1>2, <2>1, <2>2, <2>3
<1>7. ASSUME NEW i \in 1 .. Len(k2), NEW j \in 1 .. Len(k2), i <= j
      PROVE  k2[i].base <= k2[j].base
  <2>1. CASE j \in 1 .. l
    <3>1. i \in 1 .. l  BY <1>2, <1>7, <2>1
    <3> QED  BY <1>2, <1>7, <2>1, <3>1 DEF Blocks, l
  <2>2. CASE j = l + 1 /\ i \in 1 .. l
    <3>1. k[i].base <= k[l].base  BY <1>3, <2>2 DEF Blocks, l
    <3>2. k[i].base \in Nat /\ k[l].base \in Nat  BY <1>3, <2>2, BlockShape DEF l
    <3>3. b.base \in Nat  BY ControlFlowAssumption DEF ControlBlock
    <3>4. k[i].base <= b.base  BY <3>1, <3>2, <3>3 DEF l
    <3> QED  BY <1>2, <2>2, <3>4
  <2>3. CASE j = l + 1 /\ i = l + 1
    <3>1. b.base \in Nat  BY ControlFlowAssumption DEF ControlBlock
    <3>2. b.base <= b.base  BY <3>1
    <3> QED  BY <1>2, <2>3, <3>2
  <2> QED  BY <1>2, <2>1, <2>2, <2>3
<1>8. k2[1].type = "block" /\ k2[1].arity = Arity
  BY <1>1, <1>2, <1>3 DEF Blocks
<1>9. Blocks(k2, n)  BY <1>2, <1>5, <1>6, <1>7, <1>8 DEF Blocks
<1>10. Keeps(k, k2)  BY <1>2, <1>4 DEF Keeps
<1> QED  BY <1>9, <1>10 DEF k2

\* It adds no point but its own.
LEMMA AppendedArrivals ==
  ASSUME NEW k \in Seq(ControlBlock), NEW b \in ControlBlock, NEW p \in Arrivals(Append(k, b))
  PROVE  \/ p \in Arrivals(k)
         \/ b.reached /\ p = Point(b.label, b.base)
         \/ b.type = "if" /\ p = Point(b.else, b.base)
<1> DEFINE k2 == Append(k, b)
           l == Len(k)
<1>1. /\ k2[l + 1] = b /\ \A i \in 1 .. l : k2[i] = k[i]
      /\ \A i \in 1 .. Len(k2) : i \in 1 .. l \/ i = l + 1
  BY Appended
<1> HIDE DEF k2
<1>2. ASSUME NEW i \in 1 .. Len(k2), k2[i].reached, p = Point(k2[i].label, k2[i].base)
      PROVE  p \in Arrivals(k) \/ (b.reached /\ p = Point(b.label, b.base))
  <2>1. CASE i = l + 1  BY <1>1, <1>2, <2>1
  <2>2. CASE i \in 1 .. l
    <3>1. k2[i] = k[i] /\ i \in {j \in 1 .. l : k[j].reached}  BY <1>1, <1>2, <2>2
    <3> QED  BY <1>2, <3>1 DEF Arrivals
  <2> QED  BY <1>1, <2>1, <2>2
<1>3. ASSUME NEW i \in 1 .. Len(k2), k2[i].type = "if", p = Point(k2[i].else, k2[i].base)
      PROVE  p \in Arrivals(k) \/ (b.type = "if" /\ p = Point(b.else, b.base))
  <2>1. CASE i = l + 1  BY <1>1, <1>3, <2>1
  <2>2. CASE i \in 1 .. l
    <3>1. k2[i] = k[i] /\ i \in {j \in 1 .. l : k[j].type = "if"}  BY <1>1, <1>3, <2>2
    <3> QED  BY <1>3, <3>1 DEF Arrivals
  <2> QED  BY <1>1, <2>1, <2>2
<1>4. p \in Arrivals(k2)  BY DEF k2
<1> QED  BY <1>2, <1>3, <1>4 DEF Arrivals

\* The tops of the points do not exceed the base of the innermost block.
LEMMA ArrivalsBelow ==
  ASSUME NEW k, NEW n, Blocks(k, n), k # <<>>
  PROVE  \A p \in Arrivals(k) : p.top \in Nat /\ p.top <= k[Len(k)].base
<1> SUFFICES ASSUME NEW p \in Arrivals(k)
             PROVE  p.top \in Nat /\ p.top <= k[Len(k)].base
  OBVIOUS
<1>1. PICK i \in 1 .. Len(k) : p.top = k[i].base  BY DEF Arrivals, Point
<1>2. Len(k) \in 1 .. Len(k) /\ i <= Len(k)  BY <1>1 DEF Blocks
<1> QED  BY <1>1, <1>2, BlockShape DEF Blocks

\* A block is opened in context c, which becomes the state of an arm if it has two
\* and of the label if it is a loop.
LEMMA OpenSound ==
  ASSUME IInv, NEW n \in {0, 1}, Compiles(n), NEW c, Good(c), c.ok = ok,
         Len(c.stack) = Len(stack) - n, Later(Ctx, c, NumLocals + 1 .. Len(c.stack)),
         height' = height - n, NEW b \in ControlBlock, Reachable(b), b.base = Len(c.stack),
         BlockSound(b, c.spills),
         b.reached => Follows(c, b.label, NumLocals + 1 .. Len(c.stack)),
         b.type = "if" => Follows(c, b.else, NumLocals + 1 .. Len(c.stack)),
         Proceed(c, Append(control, b))
  PROVE  StepSound
<1> DEFINE k2 == Append(control, b)
           h == Len(c.stack)
           a == Current.base
           A == Arrivals(control)
<1>1. /\ Ctx \in Context /\ Ctx.spills = spills /\ Len(stack) \in Nat /\ Len(stack) <= MaxHeight
      /\ LiveStack(control) /\ height = Len(stack) /\ control \in Seq(ControlBlock)
      /\ Len(control) \in Nat
      /\ a \in Nat /\ NumLocals <= a /\ a + n <= Len(stack) /\ a = control[Len(control)].base
  BY Compiled
<1>2. c \in Context /\ h \in Nat /\ c.spills \in Nat /\ spills \in Nat
      /\ NumLocals \in Nat /\ MaxHeight \in Nat
  BY <1>1, ContextShape, ControlFlowAssumption, RegsAssumption DEF Good
<1>3. spills <= c.spills /\ Follows(Ctx, c, NumLocals + 1 .. h)  BY <1>1 DEF Later
<1>4. a <= h /\ h <= MaxHeight /\ height' = h
  <2> HIDE DEF a, h
  <2>1. h = Len(stack) - n /\ height' = Len(stack) - n  BY <1>1 DEF h
  <2>2. a + n <= Len(stack) /\ Len(stack) <= MaxHeight /\ Len(stack) \in Nat /\ a \in Nat
    BY <1>1
  <2> QED  BY <1>2, <2>1, <2>2
<1>5. Blocks(control, c.spills)  BY <1>2, <1>3, BlocksLater DEF IInv
<1>6. Blocks(k2, c.spills) /\ Keeps(control, k2)
  BY <1>1, <1>2, <1>4, <1>5, AppendedBlocks
<1>7. /\ k2 # <<>> /\ Len(k2) = Len(control) + 1 /\ k2[Len(control) + 1] = b
  BY <1>1, Appended
<1>8. LiveStack(k2) /\ k2[Len(k2)] = b  BY <1>7 DEF LiveStack
<1> HIDE DEF k2
<1>9. Level(c, k2, height')
  <2> HIDE DEF h
  <2>1. height' \in NumLocals .. MaxHeight + 1 /\ h >= NumLocals /\ h >= h
    BY <1>1, <1>2, <1>4
  <2> QED  BY <1>4, <1>8, <2>1 DEF Level, h
<1>10. Agreeing(Points(c, k2))
  <2>1. Agreeing(A \cup {Point(Ctx, a)}) /\ \A p \in A : p.top \in Nat /\ p.top <= a
    <3>1. \A p \in Arrivals(control) : p.top \in Nat /\ p.top <= control[Len(control)].base
      BY <1>1, <1>5, ArrivalsBelow DEF LiveStack
    <3> QED  BY <1>1, <3>1, LivePoints
  <2> HIDE DEF A, a
  <2>2. Agreeing(A \cup {Point(Ctx, h)})  BY <1>1, <1>2, <1>4, <2>1, PastGrows
  <2> DEFINE P == A \cup {Point(Ctx, h)}
             Q == Points(c, k2)
  <2>3. ASSUME NEW q \in Q
        PROVE  \/ q \in A
               \/ q.top = h /\ Follows(Ctx, q.s, NumLocals + 1 .. h)
    <3>1. q \in Arrivals(k2) \/ q = Point(c, b.base)  BY <1>8 DEF Points
    <3>2. CASE q \in Arrivals(k2)
      <4>1. \/ q \in A
            \/ b.reached /\ q = Point(b.label, b.base)
            \/ b.type = "if" /\ q = Point(b.else, b.base)
        BY <1>1, <3>2, AppendedArrivals DEF k2, A
      <4>2. ASSUME b.reached, q = Point(b.label, b.base)
            PROVE  q.top = h /\ Follows(Ctx, q.s, NumLocals + 1 .. h)
        <5>1. q.top = h /\ q.s = b.label  BY <4>2 DEF Point
        <5>2. Follows(c, b.label, NumLocals + 1 .. h)  BY <4>2
        <5> QED  BY <1>3, <5>1, <5>2, FollowsTransitive
      <4>3. ASSUME b.type = "if", q = Point(b.else, b.base)
            PROVE  q.top = h /\ Follows(Ctx, q.s, NumLocals + 1 .. h)
        <5>1. q.top = h /\ q.s = b.else  BY <4>3 DEF Point
        <5>2. Follows(c, b.else, NumLocals + 1 .. h)  BY <4>3
        <5> QED  BY <1>3, <5>1, <5>2, FollowsTransitive
      <4> QED  BY <4>1, <4>2, <4>3
    <3>3. CASE q = Point(c, b.base)  BY <1>3, <3>3 DEF Point
    <3> QED  BY <3>1, <3>2, <3>3
  <2> HIDE DEF h, Q
  <2>4. ASSUME NEW q \in Q
        PROVE  /\ q.top \in Nat
               /\ \E p \in P : p.top \in Nat /\ q.top <= p.top
                               /\ Follows(p.s, q.s, NumLocals + 1 .. q.top)
    <3>1. CASE q \in A
      <4>1. q \in P /\ q.top \in Nat /\ q.top <= q.top  BY <2>1, <3>1
      <4>2. Follows(q.s, q.s, NumLocals + 1 .. q.top)  BY UntouchedFollows
      <4> QED  BY <4>1, <4>2
    <3>2. CASE q.top = h /\ Follows(Ctx, q.s, NumLocals + 1 .. h)
      <4> DEFINE p == Point(Ctx, h)
      <4>1. p \in P /\ p.top = h /\ p.s = Ctx /\ h <= h  BY <1>2 DEF Point
      <4> HIDE DEF p, P
      <4> QED  BY <1>2, <3>2, <4>1
    <3> QED  BY <2>3, <3>1, <3>2
  <2> HIDE DEF P
  <2>5. Agreeing(P)  BY <2>2 DEF P
  <2>6. Agreeing(Q)  BY <2>4, <2>5, AgreeingFollows
  <2> QED  BY <2>6 DEF Q
<1>11. Concludes(c, k2, height')  BY <1>6, <1>9, <1>10 DEF Concludes
<1> QED  BY <1>6, <1>11, StepConcludes DEF k2

\* A block as push_control creates it.
LEMMA NewBlock ==
  ASSUME NEW type \in {"block", "loop", "if"}, NEW arity \in {0, 1}, NEW c \in Context,
         NEW h, Height(c) \in NumLocals .. MaxHeight, h = Height(c), Reachable(Current)
  PROVE  LET b == Block(type, arity, c, h)
         IN  /\ b \in ControlBlock /\ b.type = type /\ b.arity = arity /\ Reachable(b)
             /\ b.base = Len(c.stack) /\ b.valid = b.base /\ (b.reached <=> type = "loop")
             /\ b.label = FreshState /\ b.else = FreshState
<1>1. Inner(Current) = "Reachable"  BY DEF Inner
<1>2. FreshState \in Context  BY FreshSound
<1> QED  BY <1>1, <1>2 DEF Block, ControlBlock, Reachable, Height

\* block and loop.
LEMMA OpenBlockStep ==
  ASSUME IInv, NEW arity \in {0, 1}, OpenBlock(arity)
  PROVE  StepSound
<1> DEFINE b == Block("block", arity, Ctx, height)
<1>1. /\ Compiles(0) /\ height' = height - 0 /\ Proceed(Ctx, Append(control, b))
  BY DEF OpenBlock, Opens
<1>2. /\ Fits(Ctx) /\ Good(Ctx) /\ Ctx \in Context /\ Ctx.ok = ok /\ Ctx.stack = stack
      /\ Len(stack) \in Nat /\ Len(stack) <= MaxHeight /\ height = Len(stack)
      /\ NumLocals + 0 <= Len(stack) /\ Reachable(Current) /\ NumLocals \in Nat
  BY <1>1, CompiledAbove
<1>3. Height(Ctx) = height /\ Height(Ctx) \in NumLocals .. MaxHeight
  BY <1>2, ControlFlowAssumption, RegsAssumption DEF Height
<1>4. /\ b \in ControlBlock /\ b.type = "block" /\ Reachable(b)
      /\ b.base = Len(Ctx.stack) /\ b.valid = b.base /\ ~b.reached
      /\ b.label = FreshState /\ b.else = FreshState
  BY <1>2, <1>3, NewBlock
<1> HIDE DEF b
<1>5. BlockSound(b, Ctx.spills)  BY <1>4, FreshSound DEF BlockSound
<1>6. Later(Ctx, Ctx, NumLocals + 1 .. Len(Ctx.stack))  BY <1>2, SameFollows
<1>7. Len(Ctx.stack) = Len(stack) - 0  BY <1>2
<1> QED  BY <1>1, <1>2, <1>4, <1>5, <1>6, <1>7, OpenSound

\* if, which keeps its state for the else arm as well.
LEMMA OpenIfStep ==
  ASSUME IInv, NEW arity \in {0, 1}, OpenIf(arity)
  PROVE  StepSound
<1> DEFINE c == PopToRegister(Ctx, {}).c
           b0 == Block("if", arity, c, height - 1)
           b == [b0 EXCEPT !.else = Kept(c)]
<1>1. /\ Compiles(1) /\ height' = height - 1 /\ Proceed(c, Append(control, b))
  BY DEF OpenIf, Opens
<1>2. /\ Fits(Ctx) /\ Good(Ctx) /\ Ctx \in Context /\ Ctx.ok = ok /\ Ctx.stack = stack
      /\ Len(stack) \in Nat /\ Len(stack) <= MaxHeight /\ height = Len(stack)
      /\ NumLocals + 1 <= Len(stack) /\ Reachable(Current) /\ NumLocals \in Nat
  BY <1>1, CompiledAbove
<1>3. Choice({})  BY OneMoreRegister
<1>4. Good(c) /\ Len(c.stack) = Len(stack) - 1 /\ c.ok = ok
  BY <1>2, <1>3, PopToRegisterGood, PopToRegisterOk
<1>5. Later(Ctx, c, NumLocals + 1 .. Len(c.stack))
  <2> DEFINE I == NumLocals + 1 .. Len(c.stack)
  <2>1. I \in SUBSET (1 .. Len(Ctx.stack) - 1)
    <3> HIDE DEF c
    <3> QED  BY <1>2, <1>4
  <2> HIDE DEF I
  <2>2. Later(Ctx, c, I)
    <3>1. Len(Ctx.stack) > 0  BY <1>2
    <3> QED  BY <1>2, <1>3, <2>1, <3>1, PopToRegisterLater
  <2> QED  BY <2>2 DEF I
<1> HIDE DEF c
<1>6. c \in Context  BY <1>4 DEF Good
<1>7. Height(c) = height - 1 /\ Height(c) \in NumLocals .. MaxHeight
  BY <1>2, <1>4, RegsAssumption DEF Height
<1>8. /\ b0 \in ControlBlock /\ b0.type = "if" /\ Reachable(b0)
      /\ b0.base = Len(c.stack) /\ b0.valid = b0.base /\ ~b0.reached
      /\ b0.label = FreshState
  BY <1>2, <1>6, <1>7, NewBlock
<1> HIDE DEF b0
<1>9. /\ Kept(c) \in Context /\ Kept(c).stack = c.stack /\ Kept(c).mem = LiveMem(c)
      /\ Sound(Kept(c), c.spills)
  BY <1>4, <1>6, KeptSound, SoundIsGood
<1>10. /\ b \in ControlBlock /\ b.type = "if" /\ Reachable(b)
       /\ b.base = Len(c.stack) /\ b.valid = b.base /\ ~b.reached
       /\ b.label = FreshState /\ b.else = Kept(c)
  BY <1>8, <1>9 DEF ControlBlock, Reachable
<1> HIDE DEF b
<1>11. BlockSound(b, c.spills)  BY <1>9, <1>10, FreshSound DEF BlockSound
<1>12. Follows(c, b.else, NumLocals + 1 .. Len(c.stack))
  <2> DEFINE I == NumLocals + 1 .. Len(c.stack)
  <2>1. I \in SUBSET Frame /\ I \subseteq DOMAIN c.stack
    BY <1>2, <1>4, <1>6, ContextShape, RegsAssumption DEF Frame
  <2> HIDE DEF I
  <2>2. Follows(c, b.else, I)  BY <1>6, <1>9, <1>10, <2>1, SettledFollows
  <2> QED  BY <2>2 DEF I
<1> QED  BY <1>1, <1>2, <1>4, <1>5, <1>10, <1>11, <1>12, OpenSound

\* The frame holds every local when a loop is entered.
LEMMA OpenLoopStep ==
  ASSUME IInv, NEW arity \in {0, 1}, OpenLoop(arity)
  PROVE  StepSound
<1> DEFINE c == SpillLocals(Ctx, NumLocals)
           l == [Kept(c) EXCEPT !.regs = NoRegs, !.mem = NoFrame]
           b0 == Block("loop", arity, c, height)
           b == [b0 EXCEPT !.label = l]
<1>1. /\ Compiles(0) /\ height' = height - 0 /\ Proceed(c, Append(control, b))
  BY DEF OpenLoop, Opens
<1>2. /\ Fits(Ctx) /\ Good(Ctx) /\ Ctx \in Context /\ Ctx.ok = ok /\ Ctx.stack = stack
      /\ Len(stack) \in Nat /\ Len(stack) <= MaxHeight /\ height = Len(stack)
      /\ NumLocals + 0 <= Len(stack) /\ Reachable(Current) /\ NumLocals \in Nat
  BY <1>1, CompiledAbove
<1>3. NumLocals \in 0 .. Len(Ctx.stack)  BY <1>2
<1>4. Good(c) /\ Len(c.stack) = Len(stack) - 0 /\ c.ok = ok
  <2>1. Good(c) /\ Len(c.stack) = Len(Ctx.stack) /\ c.ok = Ctx.ok
    BY <1>2, <1>3, SpillLocalsGood, SpillLocalsOk
  <2> HIDE DEF c
  <2> QED  BY <1>2, <2>1
<1>5. Later(Ctx, c, NumLocals + 1 .. Len(c.stack))
  <2> DEFINE I == NumLocals + 1 .. Len(c.stack)
  <2>1. I \in SUBSET (NumLocals + 1 .. Len(Ctx.stack))
    <3> HIDE DEF c
    <3> QED  BY <1>2, <1>4
  <2> HIDE DEF I
  <2>2. Later(Ctx, c, I)  BY <1>2, <1>3, <2>1, SpillLocalsLater
  <2> QED  BY <2>2 DEF I
<1>6. \A i \in DOMAIN Ctx.stack :
        c.stack[i] = IF i <= NumLocals THEN StackSlot ELSE Ctx.stack[i]
  BY <1>2, <1>3, SpillLocalsShape
<1> HIDE DEF c
<1>7. c \in Context  BY <1>4 DEF Good
<1>8. Height(c) = height /\ Height(c) \in NumLocals .. MaxHeight
  BY <1>2, <1>4, RegsAssumption DEF Height
<1>9. /\ b0 \in ControlBlock /\ b0.type = "loop" /\ Reachable(b0)
      /\ b0.base = Len(c.stack) /\ b0.valid = b0.base /\ b0.reached
      /\ b0.else = FreshState
  BY <1>2, <1>7, <1>8, NewBlock
<1> HIDE DEF b0
<1>10. l \in Context /\ l.stack = c.stack /\ l.mem = NoFrame /\ l.ok /\ Sound(l, c.spills)
  <2>1. Kept(c) \in Context /\ Kept(c).stack = c.stack /\ Sound(Kept(c), c.spills) /\ Kept(c).ok
    BY <1>4, <1>7, KeptSound, SoundIsGood
  <2>2. l \in Context /\ Same(Kept(c), l) /\ l.mem = NoFrame /\ l.ok = Kept(c).ok
    BY <2>1, ForgottenSound
  <2> HIDE DEF l
  <2> QED  BY <2>1, <2>2, SoundSame DEF Same
<1> HIDE DEF l
<1>11. /\ b \in ControlBlock /\ b.type = "loop" /\ Reachable(b)
       /\ b.base = Len(c.stack) /\ b.valid = b.base /\ b.reached
       /\ b.label = l /\ b.else = FreshState
  BY <1>9, <1>10 DEF ControlBlock, Reachable
<1> HIDE DEF b
<1>12. BlockSound(b, c.spills)
  <2>1. Sole(l, NumLocals, Len(c.stack))
    <3> SUFFICES ASSUME NEW d \in DOMAIN l.stack, d <= NumLocals \/ d > Len(c.stack)
                 PROVE  l.stack[d].loc = "stack"
      BY DEF Sole
    <3>1. d \in 1 .. Len(c.stack) /\ d \in DOMAIN Ctx.stack
      BY <1>2, <1>4, <1>7, <1>10, ContextShape
    <3>2. l.stack[d] = StackSlot  BY <1>6, <1>10, <3>1
    <3> QED  BY <3>2 DEF StackSlot
  <2>2. Results(b) = 0  BY <1>11 DEF Results
  <2>3. Len(l.stack) = b.base + Results(b)
    <3>1. b.base = Len(l.stack) /\ Len(l.stack) \in Nat  BY <1>10, <1>11, ContextShape
    <3> QED  BY <2>2, <3>1
  <2> QED  BY <1>10, <1>11, <2>1, <2>3, FreshSound DEF BlockSound
<1>13. Follows(c, b.label, NumLocals + 1 .. Len(c.stack))
  <2> DEFINE I == NumLocals + 1 .. Len(c.stack)
  <2>1. I \in SUBSET Frame /\ I \subseteq DOMAIN c.stack
    BY <1>2, <1>4, <1>7, ContextShape, RegsAssumption DEF Frame
  <2> HIDE DEF I
  <2>2. Follows(c, b.label, I)  BY <1>7, <1>10, <1>11, <2>1, SettledFollows
  <2> QED  BY <2>2 DEF I
<1> QED  BY <1>1, <1>2, <1>4, <1>5, <1>11, <1>12, <1>13, OpenSound

-----------------------------------------------------------------------------
(* Code that ends with a jump. *)

\* The same blocks and the same slots in their labels, but for how the innermost
\* block is reached.
Relabels(k, k2) ==
  /\ k2 \in Seq(ControlBlock) /\ Len(k2) = Len(k)
  /\ \A i \in 1 .. Len(k) :
       /\ k2[i].type = k[i].type /\ k2[i].arity = k[i].arity /\ k2[i].base = k[i].base
       /\ k2[i].valid = k[i].valid /\ k2[i].else = k[i].else /\ k2[i].reached = k[i].reached
       /\ i < Len(k) => k2[i].reach = k[i].reach
       /\ k2[i].label.stack = k[i].label.stack /\ k2[i].label.used = k[i].label.used
       /\ k2[i].label.count = k[i].label.count /\ k2[i].label.ok = k[i].label.ok

\* Blocks whose reach and unread memory alone change.
LEMMA RelabelsBlocks ==
  ASSUME NEW k, NEW n, Blocks(k, n), NEW k2, Relabels(k, k2)
  PROVE  Blocks(k2, n)
<1>1. ASSUME NEW i \in 1 .. Len(k) PROVE BlockSound(k2[i], n)
  <2>1. BlockSound(k[i], n) /\ k2[i] \in ControlBlock  BY DEF Blocks, Relabels
  <2>2. k2[i].label \in Context  BY <2>1 DEF ControlBlock
  <2>3. Sound(k2[i].label, n)  BY <2>1, <2>2, SoundSame DEF BlockSound, Relabels
  <2>4. Results(k2[i]) = Results(k[i])  BY DEF Results, Relabels
  <2>5. Sole(k[i].label, NumLocals, k[i].base) => Sole(k2[i].label, NumLocals, k2[i].base)
    BY DEF Sole, Relabels
  <2> QED  BY <2>1, <2>3, <2>4, <2>5 DEF BlockSound, Relabels
<1>2. \A i \in 1 .. Len(k2) : i < Len(k2) => Reachable(k2[i])
  BY DEF Blocks, Relabels, Reachable
<1>3. \A i, j \in 1 .. Len(k2) : i <= j => k2[i].base <= k2[j].base
  BY DEF Blocks, Relabels
<1>4. k2 # <<>> => k2[1].type = "block" /\ k2[1].arity = Arity
  <2> SUFFICES ASSUME k2 # <<>> PROVE k2[1].type = "block" /\ k2[1].arity = Arity
    OBVIOUS
  <2>1. 1 \in 1 .. Len(k2) /\ k2 \in Seq(ControlBlock)  BY DEF Relabels
  <2>2. 1 \in 1 .. Len(k) /\ k # <<>>  BY <2>1 DEF Relabels, Blocks
  <2> QED  BY <2>2 DEF Relabels, Blocks
<1> QED  BY <1>1, <1>2, <1>3, <1>4 DEF Blocks, Relabels

LEMMA RelabelsTransitive ==
  ASSUME NEW a, NEW b, NEW c, Relabels(a, b), Relabels(b, c)
  PROVE  Relabels(a, c)
BY DEF Relabels

\* Code after a jump is out of reach.
LEMMA ReachRelabels ==
  ASSUME NEW k \in Seq(ControlBlock), k # <<>>,
         NEW r \in {"Reachable", "Unreachable", "SpecOnlyReachable"}
  PROVE  /\ Relabels(k, [k EXCEPT ![Len(k)].reach = r])
         /\ [k EXCEPT ![Len(k)].reach = r][Len(k)].reach = r
         /\ \A i \in 1 .. Len(k) : [k EXCEPT ![Len(k)].reach = r][i].label = k[i].label
<1> DEFINE l == Len(k)
           b == [k[l] EXCEPT !.reach = r]
           k2 == [k EXCEPT ![l] = b]
<1>1. l \in 1 .. l /\ k[l] \in ControlBlock /\ l \in Nat  OBVIOUS
<1>2. [k EXCEPT ![Len(k)].reach = r] = k2  OBVIOUS
<1>3. /\ b \in ControlBlock /\ b.reach = r /\ b.type = k[l].type
      /\ b.arity = k[l].arity /\ b.base = k[l].base /\ b.valid = k[l].valid
      /\ b.else = k[l].else /\ b.reached = k[l].reached /\ b.label = k[l].label
  BY <1>1 DEF ControlBlock
<1> HIDE DEF b
<1>4. /\ k2 \in Seq(ControlBlock) /\ Len(k2) = l /\ k2[l] = b
      /\ \A j \in 1 .. l : j # l => k2[j] = k[j]
  BY <1>1, <1>3, ExceptSeq
<1> HIDE DEF k2
<1>5. k2[l].reach = r  BY <1>3, <1>4
<1>6. \A i \in 1 .. l :
        /\ k2[i].type = k[i].type /\ k2[i].arity = k[i].arity /\ k2[i].base = k[i].base
        /\ k2[i].valid = k[i].valid /\ k2[i].else = k[i].else /\ k2[i].reached = k[i].reached
        /\ i < l => k2[i].reach = k[i].reach
        /\ k2[i].label = k[i].label
  BY <1>1, <1>3, <1>4
<1>7. Relabels(k, k2)  BY <1>4, <1>6 DEF Relabels
<1> QED  BY <1>2, <1>5, <1>6, <1>7

\* end_control
LEMMA EndControlRelabels ==
  ASSUME NEW k \in Seq(ControlBlock), k # <<>>
  PROVE  /\ Relabels(k, EndControl(k)) /\ ~LiveStack(EndControl(k))
         /\ \A i \in 1 .. Len(k) : EndControl(k)[i].label = k[i].label
<1>1. /\ Relabels(k, EndControl(k)) /\ EndControl(k)[Len(k)].reach = "Unreachable"
      /\ \A i \in 1 .. Len(k) : EndControl(k)[i].label = k[i].label
  BY ReachRelabels DEF EndControl
<1> QED  BY <1>1 DEF LiveStack, Reachable, Relabels

\* What the machine held on its way back to a loop is not kept.
LEMMA ForgottenRelabels ==
  ASSUME NEW k \in Seq(ControlBlock)
  PROVE  /\ Relabels(k, Forgotten(k)) /\ (LiveStack(Forgotten(k)) <=> LiveStack(k))
         /\ \A i \in 1 .. Len(k) : \/ Forgotten(k)[i].label = k[i].label
                                   \/ Forgotten(k)[i].label.mem = NoFrame
<1> DEFINE e(b) == IF b.type # "loop" THEN b
                   ELSE [b EXCEPT !.label.regs = NoRegs, !.label.mem = NoFrame]
           k2 == [i \in 1 .. Len(k) |-> e(k[i])]
<1>0. Len(k) \in Nat /\ DOMAIN k = 1 .. Len(k) /\ \A i \in 1 .. Len(k) : k[i] \in ControlBlock
  OBVIOUS
<1>1. Forgotten(k) = k2  BY <1>0 DEF Forgotten
<1>2. ASSUME NEW b \in ControlBlock
      PROVE  /\ e(b) \in ControlBlock /\ e(b).type = b.type /\ e(b).arity = b.arity
             /\ e(b).base = b.base /\ e(b).valid = b.valid /\ e(b).else = b.else
             /\ e(b).reached = b.reached /\ e(b).reach = b.reach
             /\ e(b).label.stack = b.label.stack /\ e(b).label.used = b.label.used
             /\ e(b).label.count = b.label.count /\ e(b).label.ok = b.label.ok
             /\ e(b).label = b.label \/ e(b).label.mem = NoFrame
  <2>1. CASE b.type # "loop"  BY <2>1
  <2>2. CASE b.type = "loop"
    <3> DEFINE l == [b.label EXCEPT !.regs = NoRegs, !.mem = NoFrame]
    <3>1. b.label \in Context  BY DEF ControlBlock
    <3>2. /\ l \in Context /\ Same(b.label, l) /\ l.ok = b.label.ok /\ l.mem = NoFrame
      BY <3>1, ForgottenSound
    <3>3. e(b) = [b EXCEPT !.label = l]  BY <2>2 DEF ControlBlock
    <3> HIDE DEF l
    <3>4. /\ e(b) \in ControlBlock /\ e(b).type = b.type /\ e(b).arity = b.arity
          /\ e(b).base = b.base /\ e(b).valid = b.valid /\ e(b).else = b.else
          /\ e(b).reached = b.reached /\ e(b).reach = b.reach /\ e(b).label = l
      <4> HIDE DEF e
      <4> QED  BY <3>2, <3>3 DEF ControlBlock
    <3> HIDE DEF e
    <3> QED  BY <3>2, <3>4 DEF Same
  <2> QED  BY <2>1, <2>2
<1> HIDE DEF e
<1>3. k2 \in Seq(ControlBlock) /\ Len(k2) = Len(k) /\ \A i \in 1 .. Len(k) : k2[i] = e(k[i])
  BY <1>0, <1>2
<1> HIDE DEF k2
<1>4. Relabels(k, k2)  BY <1>0, <1>2, <1>3 DEF Relabels
<1>5. LiveStack(k2) <=> LiveStack(k)
  <2>1. k2 # <<>> <=> k # <<>>  BY <1>3
  <2>2. k # <<>> => Len(k) \in 1 .. Len(k)  BY <1>0
  <2> QED  BY <1>0, <1>2, <1>3, <2>1, <2>2 DEF LiveStack, Reachable
<1>6. \A i \in 1 .. Len(k) : k2[i].label = k[i].label \/ k2[i].label.mem = NoFrame
  BY <1>0, <1>2, <1>3
<1> QED  BY <1>1, <1>4, <1>5, <1>6

\* A label that forgets its frame still agrees.
LEMMA RelabelsAgree ==
  ASSUME NEW k, NEW n, Blocks(k, n), NEW k2, Relabels(k, k2),
         \A i \in 1 .. Len(k) : k2[i].label = k[i].label \/ k2[i].label.mem = NoFrame,
         NEW X, \A q \in X : q.top \in Nat, Agreeing(Arrivals(k) \cup X)
  PROVE  Agreeing(Arrivals(k2) \cup X)
<1> DEFINE P == Arrivals(k) \cup X
           Q == Arrivals(k2) \cup X
<1>0. Len(k2) = Len(k)  BY DEF Relabels
<1>1. ASSUME NEW i \in 1 .. Len(k), k[i].reached
      PROVE  Follows(k[i].label, k2[i].label, NumLocals + 1 .. k[i].base)
  <2> DEFINE I == NumLocals + 1 .. k[i].base
  <2>1. /\ BlockSound(k[i], n) /\ k[i].base \in Nat /\ k[i].base <= MaxHeight
        /\ Results(k[i]) \in Nat /\ k[i].label \in Context
    BY BlockShape
  <2>2. Len(k[i].label.stack) = k[i].base + Results(k[i])  BY <1>1, <2>1 DEF BlockSound
  <2>3. k2[i].label.stack = k[i].label.stack  BY DEF Relabels
  <2>4. CASE k2[i].label = k[i].label  BY <2>4, UntouchedFollows
  <2>5. CASE k2[i].label.mem = NoFrame
    <3>1. I \in SUBSET Frame
      BY <2>1, ControlFlowAssumption, RegsAssumption DEF Frame
    <3>2. I \subseteq DOMAIN k[i].label.stack
      <4>1. DOMAIN k[i].label.stack = 1 .. k[i].base + Results(k[i])  BY <2>1, <2>2, ContextShape
      <4>2. NumLocals \in Nat  BY ControlFlowAssumption
      <4> QED  BY <2>1, <4>1, <4>2
    <3> HIDE DEF I
    <3>3. Follows(k[i].label, k2[i].label, I)  BY <2>1, <2>3, <2>5, <3>1, <3>2, SettledFollows
    <3> QED  BY <3>3 DEF I
  <2> QED  BY <2>4, <2>5
<1>2. ASSUME NEW q \in Q
      PROVE  \/ q \in P /\ q.top \in Nat
             \/ \E i \in 1 .. Len(k) : k[i].reached /\ q = Point(k2[i].label, k[i].base)
  <2>1. \A p \in Arrivals(k) : p.top \in Nat  BY ArrivalTops
  <2>2. CASE q \in X  BY <2>2
  <2>3. CASE q \in Arrivals(k2)
    <3>1. ASSUME NEW i \in 1 .. Len(k2), k2[i].reached, q = Point(k2[i].label, k2[i].base)
          PROVE  \E j \in 1 .. Len(k) : k[j].reached /\ q = Point(k2[j].label, k[j].base)
      BY <3>1 DEF Relabels
    <3>2. ASSUME NEW i \in 1 .. Len(k2), k2[i].type = "if", q = Point(k2[i].else, k2[i].base)
          PROVE  q \in Arrivals(k)
      <4>1. i \in {j \in 1 .. Len(k) : k[j].type = "if"} /\ q = Point(k[i].else, k[i].base)
        BY <1>0, <3>2 DEF Relabels
      <4> QED  BY <4>1 DEF Arrivals
    <3>3. \/ \E i \in 1 .. Len(k2) : k2[i].reached /\ q = Point(k2[i].label, k2[i].base)
          \/ \E i \in 1 .. Len(k2) : k2[i].type = "if" /\ q = Point(k2[i].else, k2[i].base)
      BY <2>3 DEF Arrivals
    <3> QED  BY <2>1, <3>1, <3>2, <3>3
  <2> QED  BY <2>2, <2>3
<1>3. ASSUME NEW q \in Q
      PROVE  /\ q.top \in Nat
             /\ \E p \in P : p.top \in Nat /\ q.top <= p.top
                             /\ Follows(p.s, q.s, NumLocals + 1 .. q.top)
  <2>1. CASE q \in P /\ q.top \in Nat
    <3>1. q.top <= q.top  BY <2>1
    <3>2. Follows(q.s, q.s, NumLocals + 1 .. q.top)  BY UntouchedFollows
    <3> QED  BY <2>1, <3>1, <3>2
  <2>2. ASSUME NEW i \in 1 .. Len(k), k[i].reached, q = Point(k2[i].label, k[i].base)
        PROVE  /\ q.top \in Nat
               /\ \E p \in P : p.top \in Nat /\ q.top <= p.top
                               /\ Follows(p.s, q.s, NumLocals + 1 .. q.top)
    <3> DEFINE p == Point(k[i].label, k[i].base)
    <3>1. k[i].base \in Nat /\ k[i].base <= k[i].base  BY BlockShape
    <3>2. p \in P  BY <2>2 DEF Arrivals
    <3>3. p.s = k[i].label /\ p.top = k[i].base /\ q.s = k2[i].label /\ q.top = k[i].base
      BY <2>2 DEF Point
    <3> HIDE DEF p, P
    <3> QED  BY <1>1, <2>2, <3>1, <3>2, <3>3
  <2> HIDE DEF P
  <2> QED  BY <1>2, <2>1, <2>2
<1> HIDE DEF P, Q
<1>4. Agreeing(P)  BY DEF P
<1>5. Agreeing(Q)  BY <1>3, <1>4, AgreeingFollows
<1> QED  BY <1>5 DEF Q

\* The code goes on elsewhere: no path reaches what follows.
LEMMA AwaySound ==
  ASSUME NEW c, Good(c), c.ok = ok \/ (~Live /\ (CodeAfterDeadBlock \/ Arity > NumLocals)),
         CodeAfterDeadBlock \/ Len(c.stack) >= NumLocals,
         NEW k, Blocks(k, c.spills), ~LiveStack(k), Agreeing(Arrivals(k)),
         Keeps(control, k), height' = AnyHeight, Proceed(c, k)
  PROVE  StepSound
<1>1. Level(c, k, height')  BY DEF Level
<1>2. Points(c, k) = Arrivals(k)  BY DEF Points
<1>3. Concludes(c, k, height')  BY <1>1, <1>2 DEF Concludes
<1> QED  BY <1>3, StepConcludes

\* Labels keep their places through a jump and a change of reach.
LEMMA SameBlocksKeeps ==
  ASSUME NEW a \in Seq(ControlBlock), NEW b, SameBlocks(a, b), NEW c, Relabels(b, c)
  PROVE  Keeps(a, c)
<1>1. DOMAIN a = 1 .. Len(a)  OBVIOUS
<1> QED  BY <1>1 DEF SameBlocks, Relabels, Keeps

\* After a jump, with what was held on the way back to a loop forgotten.
LEMMA JumpAwaySound ==
  ASSUME IInv, NEW m, Good(m.c), Blocks(m.k, m.c.spills), SameBlocks(control, m.k),
         control # <<>>, NEW top \in Nat, Agreeing(Arrivals(m.k) \cup {Point(m.c, top)}),
         m.c.ok = ok, Len(m.c.stack) >= NumLocals, height' = AnyHeight,
         Proceed(m.c, Forgotten(EndControl(m.k)))
  PROVE  StepSound
<1> DEFINE k1 == EndControl(m.k)
           k2 == Forgotten(k1)
<1>1. control \in Seq(ControlBlock) /\ m.k \in Seq(ControlBlock)  BY DEF IInv, Blocks
<1>2. m.k # <<>>  BY <1>1 DEF SameBlocks
<1>3. /\ Relabels(m.k, k1) /\ ~LiveStack(k1)
      /\ \A i \in 1 .. Len(m.k) : k1[i].label = m.k[i].label
  BY <1>1, <1>2, EndControlRelabels
<1> HIDE DEF k1
<1>4. Blocks(k1, m.c.spills)  BY <1>3, RelabelsBlocks
<1>5. /\ Relabels(k1, k2) /\ ~LiveStack(k2)
      /\ \A i \in 1 .. Len(k1) : k2[i].label = k1[i].label \/ k2[i].label.mem = NoFrame
  BY <1>3, <1>4, ForgottenRelabels DEF Blocks
<1> HIDE DEF k2
<1>6. Blocks(k2, m.c.spills)  BY <1>4, <1>5, RelabelsBlocks
<1>7. Agreeing(Arrivals(k2))
  <2> DEFINE X == {Point(m.c, top)}
  <2>1. \A q \in X : q.top \in Nat  BY DEF Point
  <2> HIDE DEF X
  <2>2. Agreeing(Arrivals(m.k) \cup X)  BY DEF X
  <2>3. Agreeing(Arrivals(k1) \cup X)  BY <1>3, <2>1, <2>2, RelabelsAgree
  <2>4. Agreeing(Arrivals(k2) \cup X)  BY <1>4, <1>5, <2>1, <2>3, RelabelsAgree
  <2> QED  BY <2>4, FewerAgree
<1>8. Keeps(control, k2)  BY <1>1, <1>3, <1>5, RelabelsTransitive, SameBlocksKeeps
<1> QED  BY <1>5, <1>6, <1>7, <1>8, AwaySound DEF k1, k2

-----------------------------------------------------------------------------
(* BR, BR_IF, BR_TABLE, RETURN *)

\* A handler that jumps starts with a state that agrees with all the others.
LEMMA StartsRunning ==
  ASSUME IInv, NEW n \in Nat, Compiles(n), NEW c, Fits(c),
         Later(Ctx, c, NumLocals + 1 .. Current.base)
  PROVE  Running(At(c, control), Current.base) /\ Current.base \in Nat
<1> DEFINE A == Arrivals(control)
           a == Current.base
<1>1. /\ Ctx \in Context /\ Ctx.spills = spills /\ LiveStack(control) /\ a \in Nat
  BY Compiled
<1>2. c.spills \in Nat /\ spills \in Nat  BY <1>1, FitsShape, ContextShape
<1>3. spills <= c.spills /\ Follows(Ctx, c, NumLocals + 1 .. a)  BY <1>1 DEF Later
<1>4. Blocks(control, c.spills)  BY <1>2, <1>3, BlocksLater DEF IInv
<1>5. Agreeing(A \cup {Point(Ctx, a)}) /\ \A p \in A : p.top \in Nat
  BY <1>1, LivePoints
<1>6. a <= a  BY <1>1
<1> HIDE DEF A, a
<1>7. Agreeing(A \cup {Point(c, a)})  BY <1>1, <1>3, <1>5, <1>6, PointMoves
<1>8. At(c, control).c = c /\ At(c, control).k = control  BY DEF At
<1> QED  BY <1>1, <1>4, <1>7, <1>8 DEF Running, A, a

\* The validator has seen to it that what the target takes is there.
LEMMA TargetReached ==
  ASSUME IInv, NEW n \in Nat, NEW d \in Labels, Compiles(n + TargetArity(d)),
         NEW c, Len(c.stack) = Len(stack) - n
  PROVE  d \in Nat /\ Reaches(At(c, control), Len(control) - d, Current.base)
<1> DEFINE l == Len(control)
           i == l - d
<1>1. l \in Nat /\ d \in 0 .. l - 1
  <2>1. l \in Nat  BY DEF IInv, Blocks
  <2> QED  BY <2>1 DEF Labels
<1>2. d \in Nat /\ i \in 1 .. l /\ i <= l /\ l \in 1 .. l  BY <1>1
<1>3. Blocks(control, spills)  BY DEF IInv
<1>4. TargetArity(d) = Results(control[i])  BY DEF TargetArity, Target, Results
<1> HIDE DEF i, l
<1>5. control[i].base \in Nat /\ Results(control[i]) \in Nat
  BY <1>2, <1>3, BlockShape DEF l
<1>6. control[i].base <= control[l].base  BY <1>2, <1>3 DEF Blocks, l
<1>7. n + TargetArity(d) \in Nat  BY <1>4, <1>5
<1>8. /\ Len(stack) \in Nat /\ Current.base \in Nat /\ Current.base = control[l].base
      /\ Current.base + (n + TargetArity(d)) <= Len(stack)
  BY <1>7, Compiled DEF l
<1>9. control[i].base + Results(control[i]) <= Len(c.stack)
  BY <1>4, <1>5, <1>6, <1>8
<1>10. At(c, control).c = c /\ At(c, control).k = control  BY DEF At
<1> QED  BY <1>2, <1>6, <1>8, <1>9, <1>10 DEF Reaches, i, l

\* Enough operands for two are enough for one.
LEMMA CompiledWeaker ==
  ASSUME NEW n \in Nat, NEW a \in Nat, Compiles(n + a), IInv
  PROVE  Compiles(n)
<1>1. n + a \in Nat  OBVIOUS
<1>2. height \in Int /\ Current.valid \in Int  BY <1>1, Compiled
<1>3. height - Current.valid >= n + a  BY DEF Compiles
<1>4. height - Current.valid >= n  BY <1>2, <1>3
<1> QED  BY <1>4 DEF Compiles

\* What a label takes is a number.
LEMMA TargetArityShape ==
  ASSUME IInv, NEW d \in Labels
  PROVE  TargetArity(d) \in Nat
<1>1. Blocks(control, spills) /\ Len(control) \in Nat  BY DEF IInv, Blocks
<1>2. Len(control) - d \in 1 .. Len(control)  BY <1>1 DEF Labels
<1>3. TargetArity(d) = Results(control[Len(control) - d])
  BY DEF TargetArity, Target, Results
<1> QED  BY <1>1, <1>2, <1>3, BlockShape

\* What a jump from the compiler's own context leaves.
LEMMA JumpedShape ==
  ASSUME NEW c, NEW m, NEW top, Jumped(At(c, control), m, top), NEW n \in Nat,
         Len(c.stack) >= n
  PROVE  /\ Good(m.c) /\ Blocks(m.k, m.c.spills) /\ SameBlocks(control, m.k)
         /\ Agreeing(Arrivals(m.k) \cup {Point(m.c, top)})
         /\ m.c.ok = c.ok /\ Len(m.c.stack) >= n /\ m.c.stack = c.stack
<1>1. At(c, control).c = c /\ At(c, control).k = control  BY DEF At
<1> QED  BY <1>1 DEF Jumped, Running, Fits

\* br.
LEMMA BrStep ==
  ASSUME IInv, NEW d \in Labels, Br(d)
  PROVE  StepSound
<1> DEFINE m0 == At(Ctx, control)
           m == BrOrRet(m0, d)
           a == Current.base
<1>1. /\ Compiles(TargetArity(d)) /\ height' = AnyHeight
      /\ Proceed(m.c, Forgotten(EndControl(m.k)))
  BY DEF Br
<1>2. TargetArity(d) \in Nat /\ 0 + TargetArity(d) = TargetArity(d)
  BY TargetArityShape
<1>3. /\ Fits(Ctx) /\ Ctx \in Context /\ Ctx.ok = ok /\ Ctx.stack = stack /\ Len(stack) \in Nat
      /\ NumLocals \in Nat /\ NumLocals + TargetArity(d) <= Len(stack)
  BY <1>1, <1>2, CompiledAbove
<1>4. control # <<>>  BY <1>1 DEF Compiles
<1>5. Running(m0, a) /\ a \in Nat
  <2>1. Later(Ctx, Ctx, NumLocals + 1 .. Current.base)  BY <1>3, SameFollows
  <2> QED  BY <1>1, <1>2, <1>3, <2>1, StartsRunning
<1>6. d \in Nat /\ Reaches(m0, Len(control) - d, a)
  <2>1. Len(Ctx.stack) = Len(stack) - 0  BY <1>3
  <2>2. Compiles(0 + TargetArity(d))  BY <1>1, <1>2
  <2> QED  BY <2>1, <2>2, TargetReached
<1>7. m0.k = control  BY DEF At
<1> HIDE DEF m0, a
<1>8. Jumped(m0, m, a)  BY <1>5, <1>6, <1>7, BrOrRetJumps
<1> HIDE DEF m
<1>9. Len(Ctx.stack) >= NumLocals  BY <1>2, <1>3
<1>10. /\ Good(m.c) /\ Blocks(m.k, m.c.spills) /\ SameBlocks(control, m.k)
       /\ Agreeing(Arrivals(m.k) \cup {Point(m.c, a)}) /\ m.c.ok = ok
       /\ Len(m.c.stack) >= NumLocals
  BY <1>3, <1>8, <1>9, JumpedShape DEF m0
<1> QED  BY <1>1, <1>4, <1>5, <1>10, JumpAwaySound

\* The operand of a conditional jump or of a table is popped first.
LEMMA PoppedForJump ==
  ASSUME IInv, Compiles(1)
  PROVE  LET p == PopToRegister(Ctx, {})
         IN  /\ Fits(p.c) /\ Len(p.c.stack) = Len(stack) - 1 /\ p.c.ok = ok
             /\ p.reg \in Regs \ Reserved
             /\ Later(Ctx, p.c, NumLocals + 1 .. Current.base)
             /\ NumLocals <= Len(p.c.stack)
             /\ (NumLocals + 1 .. Current.base) \subseteq DOMAIN p.c.stack
<1> DEFINE p == PopToRegister(Ctx, {})
           I == NumLocals + 1 .. Current.base
<1>1. /\ Fits(Ctx) /\ Good(Ctx) /\ Ctx \in Context /\ Ctx.ok = ok /\ Ctx.stack = stack
      /\ Len(stack) \in Nat /\ Len(stack) <= MaxHeight /\ NumLocals + 1 <= Len(stack)
      /\ NumLocals \in Nat
  BY CompiledAbove
<1>2. Choice({})  BY OneMoreRegister
<1>3. Len(Ctx.stack) > 0  BY <1>1
<1>4. Good(p.c) /\ Len(p.c.stack) = Len(stack) - 1 /\ p.c.ok = ok /\ p.reg \in Regs \ Reserved
  BY <1>1, <1>2, <1>3, PopToRegisterGood, PopToRegisterOk
<1>5. Current.base \in Nat /\ Current.base + 1 <= Len(stack)  BY Compiled
<1>6. I \in SUBSET (1 .. Len(Ctx.stack) - 1)  BY <1>1, <1>5
<1> HIDE DEF I
<1>7. Later(Ctx, p.c, I)  BY <1>1, <1>2, <1>3, <1>6, PopToRegisterLater
<1> HIDE DEF p
<1>8. Len(p.c.stack) <= MaxHeight /\ NumLocals <= Len(p.c.stack)
  BY <1>1, <1>4, RegsAssumption
<1>9. I \subseteq DOMAIN p.c.stack
  <2>1. DOMAIN p.c.stack = 1 .. Len(p.c.stack)  BY <1>4, ContextShape DEF Good
  <2> QED  BY <1>1, <1>4, <1>6, <2>1
<1> QED  BY <1>4, <1>7, <1>8, <1>9 DEF Fits, I, p

\* br_table, whether its default is its only case or not.
LEMMA BrTableStep ==
  ASSUME IInv, NEW D \in SUBSET Labels, D # {}, NEW table \in BOOLEAN, BrTable(D, table)
  PROVE  StepSound
<1> DEFINE p == PopToRegister(Ctx, {})
           u == GetUnused(p.c, {}, {p.reg})
           c == IF table THEN u.c ELSE p.c
           m0 == At(c, control)
           m == BrAll(m0, D)
           a == Current.base
           I == NumLocals + 1 .. a
<1>1. /\ \A d \in D : Compiles(1 + TargetArity(d))
      /\ height' = AnyHeight /\ Proceed(m.c, Forgotten(EndControl(m.k)))
  BY DEF BrTable
<1>2. Compiles(1)
  <2>1. PICK d \in D : TRUE  OBVIOUS
  <2>2. Compiles(1 + TargetArity(d)) /\ TargetArity(d) \in Nat  BY <1>1, TargetArityShape
  <2> QED  BY <2>2, CompiledWeaker
<1>3. /\ Fits(p.c) /\ Len(p.c.stack) = Len(stack) - 1 /\ p.c.ok = ok
      /\ Later(Ctx, p.c, I) /\ NumLocals <= Len(p.c.stack) /\ I \subseteq DOMAIN p.c.stack
  BY <1>2, PoppedForJump
<1>4. Ctx \in Context /\ control # <<>>  BY <1>2, CompiledAbove DEF Compiles
<1> HIDE DEF I
<1>5. Fits(c) /\ Len(c.stack) = Len(stack) - 1 /\ c.ok = ok /\ Later(Ctx, c, I)
  <2>1. CASE ~table  BY <1>3, <2>1
  <2>2. CASE table
    <3> DEFINE v == p.c
               pinned == {p.reg}
    <3>0. c = GetUnused(v, {}, pinned).c  BY <2>2
    <3>1. Choice(pinned) /\ {} \in SUBSET (Regs \ Reserved)  BY OneMoreRegister
    <3>2. Fits(v) /\ Good(v) /\ v \in Context /\ Len(v.stack) <= MaxHeight
      BY <1>3, FitsShape
    <3> HIDE DEF v, pinned, c, p
    <3>3. /\ Good(GetUnused(v, {}, pinned).c) /\ KeptSlots(v, GetUnused(v, {}, pinned).c)
          /\ GetUnused(v, {}, pinned).c.ok = v.ok
      BY <3>1, <3>2, GetUnusedGood, GetUnusedOk
    <3>4. Later(v, GetUnused(v, {}, pinned).c, I)
      <4>1. I \in SUBSET (DOMAIN v.stack)  BY <1>3 DEF v
      <4> QED  BY <3>1, <3>2, <4>1, GetUnusedLater
    <3>5. Good(c) /\ c \in Context /\ KeptSlots(v, c) /\ c.ok = v.ok /\ Later(v, c, I)
      BY <3>0, <3>3, <3>4 DEF Good
    <3>6. Later(Ctx, v, I) /\ v.ok = ok /\ Len(v.stack) = Len(stack) - 1  BY <1>3 DEF v
    <3>7. Later(Ctx, c, I)  BY <1>4, <3>2, <3>5, <3>6, LaterTransitive
    <3> QED  BY <3>2, <3>5, <3>6, <3>7 DEF KeptSlots, Fits
  <2> QED  BY <2>1, <2>2
<1>6. NumLocals <= Len(c.stack)  BY <1>3, <1>5
<1> HIDE DEF c, p
<1>7. Running(m0, a) /\ a \in Nat  BY <1>2, <1>5, StartsRunning DEF I
<1>8. \A d \in D : d \in Nat /\ Reaches(m0, Len(m0.k) - d, a)
  <2> SUFFICES ASSUME NEW d \in D PROVE d \in Nat /\ Reaches(m0, Len(m0.k) - d, a)
    OBVIOUS
  <2>1. Compiles(1 + TargetArity(d)) /\ d \in Labels  BY <1>1
  <2>2. d \in Nat /\ Reaches(m0, Len(control) - d, a)  BY <1>5, <2>1, TargetReached
  <2>3. m0.k = control  BY DEF At
  <2> QED  BY <2>2, <2>3
<1> HIDE DEF m0, a
<1>9. Jumped(m0, m, a)  BY <1>7, <1>8, BrAllJumps
<1> HIDE DEF m
<1>10. NumLocals \in Nat /\ Len(c.stack) >= NumLocals
  <2>1. Len(c.stack) \in Nat  BY <1>5, FitsShape
  <2> QED  BY <1>6, <2>1, ControlFlowAssumption
<1>11. /\ Good(m.c) /\ Blocks(m.k, m.c.spills) /\ SameBlocks(control, m.k)
       /\ Agreeing(Arrivals(m.k) \cup {Point(m.c, a)}) /\ m.c.ok = ok
       /\ Len(m.c.stack) >= NumLocals
  BY <1>5, <1>9, <1>10, JumpedShape DEF m0
<1> QED  BY <1>1, <1>4, <1>7, <1>11, JumpAwaySound DEF m, m0, c, u, p

\* No block is left once the body ends.
LEMMA BodyEndSound ==
  ASSUME NEW c, Good(c), c.ok = ok \/ (~Live /\ (CodeAfterDeadBlock \/ Arity > NumLocals)),
         CodeAfterDeadBlock \/ Len(c.stack) >= NumLocals,
         height' = AnyHeight, Proceed(c, <<>>)
  PROVE  StepSound
<1> DEFINE k == <<>>
<1>1. k \in Seq(ControlBlock) /\ Len(k) = 0 /\ DOMAIN k = {}  OBVIOUS
<1>2. 1 .. Len(k) = {}  BY <1>1
<1>3. Blocks(k, c.spills)  BY <1>1, <1>2 DEF Blocks
<1>4. Arrivals(k) = {} /\ ~LiveStack(k)  BY <1>2 DEF Arrivals, LiveStack
<1>5. Agreeing(Arrivals(k))  BY <1>4 DEF Agreeing
<1>6. Keeps(control, k)  BY <1>1 DEF Keeps
<1>7. Proceed(c, k)  OBVIOUS
<1> HIDE DEF k
<1> QED  BY <1>3, <1>4, <1>5, <1>6, <1>7, AwaySound

\* The path goes on after the jump as well.
LEMMA BrIfStep ==
  ASSUME IInv, NEW d \in Labels, BrIf(d)
  PROVE  StepSound
<1> DEFINE p == PopToRegister(Ctx, {})
           m0 == At(p.c, control)
           m == BrOrRet(m0, d)
           a == Current.base
           l == Len(control)
           k2 == Forgotten(m.k)
<1>1. Compiles(1 + TargetArity(d)) /\ height' = height - 1 /\ Proceed(m.c, k2)
  BY DEF BrIf
<1>2. TargetArity(d) \in Nat /\ Compiles(1)  BY <1>1, TargetArityShape, CompiledWeaker
<1>3. /\ Fits(p.c) /\ Len(p.c.stack) = Len(stack) - 1 /\ p.c.ok = ok
      /\ Later(Ctx, p.c, NumLocals + 1 .. Current.base) /\ NumLocals <= Len(p.c.stack)
  BY <1>2, PoppedForJump
<1>4. /\ control # <<>> /\ control \in Seq(ControlBlock) /\ l \in 1 .. l
      /\ LiveStack(control) /\ height = Len(stack) /\ Len(stack) \in Nat /\ Len(stack) <= MaxHeight
      /\ a \in Nat /\ NumLocals <= a /\ a + 1 <= Len(stack) /\ a = control[l].base
  BY <1>2, Compiled DEF Compiles
<1> HIDE DEF p
<1>5. Running(m0, a) /\ a \in Nat  BY <1>2, <1>3, StartsRunning
<1>6. d \in Nat /\ Reaches(m0, l - d, a)  BY <1>1, <1>3, TargetReached
<1>7. m0.k = control  BY DEF At
<1> HIDE DEF m0, a, l
<1>8. Jumped(m0, m, a)  BY <1>5, <1>6, <1>7, BrOrRetJumps DEF l
<1> HIDE DEF m
<1>9. NumLocals \in Nat /\ MaxHeight \in Nat /\ Len(p.c.stack) \in Nat
      /\ Len(p.c.stack) >= NumLocals
  BY <1>3, FitsShape, ControlFlowAssumption, RegsAssumption
<1>10. /\ Good(m.c) /\ Blocks(m.k, m.c.spills) /\ SameBlocks(control, m.k)
       /\ Agreeing(Arrivals(m.k) \cup {Point(m.c, a)})
       /\ m.c.ok = p.c.ok /\ m.c.stack = p.c.stack
  BY <1>8, <1>9, JumpedShape DEF m0
<1>11. /\ Relabels(m.k, k2) /\ (LiveStack(k2) <=> LiveStack(m.k))
       /\ \A i \in 1 .. Len(m.k) : k2[i].label = m.k[i].label \/ k2[i].label.mem = NoFrame
  BY <1>10, ForgottenRelabels DEF Blocks
<1> HIDE DEF k2
<1>12. Blocks(k2, m.c.spills)  BY <1>10, <1>11, RelabelsBlocks
<1>13. Len(k2) = l /\ k2[l].base = a /\ LiveStack(k2)
  <2>1. Len(m.k) = l /\ m.k[l].base = a /\ m.k[l].reach = control[l].reach
    BY <1>4, <1>10 DEF SameBlocks, l
  <2>2. Len(k2) = l /\ k2[l].base = a  BY <1>4, <1>11, <2>1 DEF Relabels
  <2>3. m.k # <<>>  BY <1>4, <2>1
  <2>4. LiveStack(m.k)  BY <1>4, <2>1, <2>3 DEF LiveStack, Reachable, l
  <2> QED  BY <1>11, <2>2, <2>4
<1>14. Agreeing(Arrivals(k2) \cup {Point(m.c, a)})
  <2> DEFINE X == {Point(m.c, a)}
  <2>1. \A q \in X : q.top \in Nat  BY <1>5 DEF Point
  <2>2. Agreeing(Arrivals(m.k) \cup X)  BY <1>10
  <2> HIDE DEF X
  <2>3. Agreeing(Arrivals(k2) \cup X)  BY <1>10, <1>11, <2>1, <2>2, RelabelsAgree
  <2> QED  BY <2>3 DEF X
<1>15. Agreeing(Points(m.c, k2))  BY <1>13, <1>14 DEF Points
<1>16. Level(m.c, k2, height')
  <2>1. height' = Len(m.c.stack) /\ Len(m.c.stack) = Len(p.c.stack)
    BY <1>1, <1>3, <1>4, <1>10
  <2>2. Len(m.c.stack) >= a /\ Len(m.c.stack) >= NumLocals /\ Len(m.c.stack) \in NumLocals .. MaxHeight + 1
    BY <1>3, <1>4, <1>9, <2>1
  <2> QED  BY <1>13, <2>1, <2>2 DEF Level
<1>17. Concludes(m.c, k2, height')  BY <1>10, <1>12, <1>15, <1>16 DEF Concludes
<1>18. Keeps(control, k2)  BY <1>4, <1>10, <1>11, SameBlocksKeeps
<1>19. m.c.ok = ok  BY <1>3, <1>10
<1> QED  BY <1>1, <1>17, <1>18, <1>19, StepConcludes

\* What holds wherever the compiler is, whether or not a path gets there.
LEMMA Anywhere ==
  ASSUME IInv
  PROVE  /\ Fits(Ctx) /\ Good(Ctx) /\ Ctx \in Context /\ Ctx.ok = ok /\ Ctx.stack = stack
         /\ Ctx.spills = spills /\ Len(stack) \in Nat /\ Len(stack) <= MaxHeight
         /\ control \in Seq(ControlBlock) /\ Blocks(control, Ctx.spills)
         /\ Agreeing(Arrivals(control)) /\ Level(Ctx, control, height)
         /\ CodeAfterDeadBlock \/ Len(Ctx.stack) >= NumLocals
         /\ (Live <=> LiveStack(control))
<1>1. /\ Fits(Ctx) /\ Blocks(control, spills) /\ Agreeing(Points(Ctx, control))
      /\ Level(Ctx, control, height)
  BY DEF IInv
<1>2. Ctx.stack = stack /\ Ctx.ok = ok /\ Ctx.spills = spills  BY CtxFields
<1>3. Agreeing(Arrivals(control))
  <2>1. Arrivals(control) \in SUBSET Points(Ctx, control)  BY DEF Points
  <2> QED  BY <1>1, <2>1, FewerAgree
<1>4. /\ Good(Ctx) /\ Ctx \in Context /\ Len(stack) \in Nat /\ Len(stack) <= MaxHeight
  BY <1>1, <1>2, FitsShape
<1>5. CodeAfterDeadBlock \/ Len(Ctx.stack) >= NumLocals  BY <1>1 DEF Level
<1>6. Live <=> LiveStack(control)  BY DEF Live, LiveStack, Current
<1> QED  BY <1>1, <1>2, <1>3, <1>4, <1>5, <1>6 DEF Blocks

\* The rest of the block is skipped.
LEMMA EndControlSound ==
  ASSUME IInv, control # <<>>, height' = AnyHeight, Proceed(Ctx, EndControl(control))
  PROVE  StepSound
<1> DEFINE k == EndControl(control)
<1>1. /\ Good(Ctx) /\ Ctx.ok = ok /\ control \in Seq(ControlBlock) /\ Blocks(control, Ctx.spills)
      /\ Agreeing(Arrivals(control)) /\ (CodeAfterDeadBlock \/ Len(Ctx.stack) >= NumLocals)
  BY Anywhere
<1>2. /\ Relabels(control, k) /\ ~LiveStack(k)
      /\ \A i \in 1 .. Len(control) : k[i].label = control[i].label
  BY <1>1, EndControlRelabels
<1> HIDE DEF k
<1>3. Blocks(k, Ctx.spills)  BY <1>1, <1>2, RelabelsBlocks
<1>4. Agreeing(Arrivals(k))
  <2> DEFINE X == {}
  <2>1. \A q \in X : q.top \in Nat  OBVIOUS
  <2>2. Agreeing(Arrivals(control) \cup X)  BY <1>1
  <2> HIDE DEF X
  <2>3. Agreeing(Arrivals(k) \cup X)  BY <1>1, <1>2, <2>1, <2>2, RelabelsAgree
  <2> QED  BY <2>3, FewerAgree
<1>5. Keeps(control, k)  BY <1>1, <1>2, SameBlocksKeeps, SameBlocksReflexive
<1>6. Proceed(Ctx, k)  BY DEF k
<1> QED  BY <1>1, <1>2, <1>3, <1>4, <1>5, <1>6, AwaySound

\* return.
LEMMA ReturnStep ==
  ASSUME IInv, Return
  PROVE  StepSound
<1> DEFINE m == ReturnImpl(At(Ctx, control))
<1>1. /\ Compiles(Arity) /\ height' = AnyHeight
      /\ Proceed(m.c, EndControl(control)) \/ Proceed(m.c, <<>>)
  BY DEF Return
<1>2. Arity \in Nat /\ NumLocals \in Nat  BY ControlFlowAssumption
<1>3. /\ Good(Ctx) /\ Ctx \in Context /\ Ctx.ok = ok /\ Ctx.stack = stack /\ Len(stack) \in Nat
      /\ NumLocals + Arity <= Len(stack)
  BY <1>1, <1>2, CompiledAbove
<1>4. Height(Ctx) >= Arity /\ Len(Ctx.stack) >= NumLocals  BY <1>2, <1>3 DEF Height
<1>5. m.c = Ctx
  <2>1. m.c = Assert(Ctx, Height(Ctx) >= Arity)  BY DEF ReturnImpl, At
  <2>2. (Height(Ctx) >= Arity) \in BOOLEAN  OBVIOUS
  <2> QED  BY <1>3, <1>4, <2>1, <2>2, AssertTrue
<1> HIDE DEF m
<1>6. control # <<>>  BY <1>1 DEF Compiles
<1> QED  BY <1>1, <1>3, <1>4, <1>5, <1>6, EndControlSound, BodyEndSound

-----------------------------------------------------------------------------
(* UNREACHABLE, code that no path reaches, the end of the body *)

\* unreachable.
LEMMA UnreachableStep ==
  ASSUME IInv, ~UnreachableInElse, Unreachable
  PROVE  StepSound
<1>1. control # <<>> /\ height' = AnyHeight  BY DEF Unreachable
<1>2. CASE Current.type # "else"
  <2>1. Proceed(Ctx, EndControl(control))  BY <1>2 DEF Unreachable
  <2> QED  BY <1>1, <2>1, EndControlSound
<1>3. CASE Current.type = "else"
  <2>1. ~Reachable(Current) /\ Proceed(Ctx, control)  BY <1>3 DEF Unreachable
  <2>2. ~LiveStack(control)  BY <2>1 DEF LiveStack, Current
  <2> QED  BY <1>1, <2>1, <2>2, Anywhere, KeepsItself, AwaySound
<1> QED  BY <1>2, <1>3

\* drop where a call has left nothing.
LEMMA DropNoResultStep ==
  ASSUME IInv, DropNoResult
  PROVE  StepSound
<1> DEFINE c == IF stack = <<>> THEN Assert(Ctx, FALSE) ELSE DropTop(Ctx)
           b == control[Len(control)]
<1>1. /\ control # <<>> /\ Current.reach = "SpecOnlyReachable" /\ CodeAfterDeadBlock
      /\ height > Current.valid /\ Proceed(c, control) /\ height' = height - 1
  BY DEF DropNoResult
<1>2. /\ Good(Ctx) /\ Ctx \in Context /\ Ctx.stack = stack /\ Ctx.spills = spills
      /\ Len(stack) \in Nat /\ control \in Seq(ControlBlock) /\ Blocks(control, Ctx.spills)
      /\ Agreeing(Arrivals(control)) /\ Level(Ctx, control, height)
      /\ (Live <=> LiveStack(control))
  BY Anywhere
<1>3. ~LiveStack(control)  BY <1>1 DEF LiveStack, Reachable, Current
<1>4. b.base \in Nat /\ NumLocals <= b.base /\ Current.valid = b.base
  <2>1. Len(control) \in 1 .. Len(control)  BY <1>1, <1>2
  <2>2. b.base \in Nat /\ NumLocals <= b.base /\ BlockSound(b, Ctx.spills)
    BY <1>2, <2>1, BlockShape
  <2> QED  BY <2>2 DEF BlockSound, Current
<1>5. Good(c) /\ Ctx.spills <= c.spills /\ c.spills \in Nat /\ Ctx.spills \in Nat
  <2>0. Ctx.spills \in Nat  BY <1>2, ContextShape
  <2>1. CASE stack = <<>>
    <3>1. Good(Assert(Ctx, FALSE)) /\ Assert(Ctx, FALSE).spills = Ctx.spills
      BY <1>2, AssertGood, AssertSame DEF Same
    <3>2. c = Assert(Ctx, FALSE)  BY <2>1
    <3> HIDE DEF c
    <3>3. Good(c) /\ c.spills = Ctx.spills  BY <3>1, <3>2
    <3>4. Ctx.spills <= Ctx.spills  BY <2>0
    <3> QED  BY <2>0, <3>3, <3>4
  <2>2. CASE stack # <<>>
    <3>1. Len(Ctx.stack) > 0  BY <1>2, <2>2, ContextShape
    <3>2. c = DropTop(Ctx)  BY <2>2
    <3> DEFINE I == {}
    <3>3. I \in SUBSET (1 .. Len(Ctx.stack) - 1)  OBVIOUS
    <3> HIDE DEF c, I
    <3>4. Good(c) /\ Later(Ctx, c, I)  BY <1>2, <3>1, <3>2, <3>3, DropTopGood, DropTopLater
    <3>5. c.spills \in Nat  BY <3>4, ContextShape DEF Good
    <3> QED  BY <2>0, <3>4, <3>5 DEF Later
  <2> QED  BY <2>1, <2>2
<1> HIDE DEF c
<1>6. Blocks(control, c.spills)  BY <1>2, <1>5, BlocksLater
<1>7. Level(c, control, height')
  <2>1. height \in {AnyHeight} \cup NumLocals .. MaxHeight + 1  BY <1>2 DEF Level
  <2>2. NumLocals \in Nat /\ MaxHeight \in Nat  BY ControlFlowAssumption, RegsAssumption
  <2> HIDE DEF b
  <2>3. height' \in NumLocals .. MaxHeight + 1  BY <1>1, <1>4, <2>1, <2>2 DEF AnyHeight
  <2> QED  BY <1>1, <1>3, <2>3 DEF Level
<1>8. Agreeing(Points(c, control))  BY <1>2, <1>3 DEF Points
<1>9. Concludes(c, control, height')  BY <1>5, <1>6, <1>7, <1>8 DEF Concludes
<1> QED  BY <1>1, <1>2, <1>3, <1>9, KeepsItself, StepConcludes

\* The results of the function are there where a path gets to the end of the body.
LEMMA EndFunctionStep ==
  ASSUME IInv, EndFunction
  PROVE  StepSound
<1> DEFINE P == Height(Ctx) >= Arity
           c == Assert(Ctx, P)
<1>1. /\ Len(control) = 1 /\ Closes /\ height' = AnyHeight /\ Proceed(c, <<>>)
  BY DEF EndFunction, ReturnImpl, At
<1>2. /\ Good(Ctx) /\ Ctx \in Context /\ Ctx.stack = stack /\ Ctx.ok = ok
      /\ Len(stack) \in Nat /\ control \in Seq(ControlBlock) /\ Blocks(control, Ctx.spills)
      /\ Level(Ctx, control, height) /\ (Live <=> LiveStack(control))
      /\ CodeAfterDeadBlock \/ Len(Ctx.stack) >= NumLocals
  BY Anywhere
<1>3. Good(c) /\ c.stack = Ctx.stack
  <2>1. P \in BOOLEAN  OBVIOUS
  <2> HIDE DEF P
  <2> QED  BY <1>2, <2>1, AssertGood
<1>4. /\ Current.base \in Nat /\ Current.arity = Arity /\ Current.valid = Current.base
      /\ Current = control[Len(control)]
  <2>0. Len(control) = 1 /\ control \in Seq(ControlBlock)  BY <1>1, <1>2
  <2>1. 1 \in 1 .. Len(control) /\ control # <<>> /\ Current = control[1]
    BY <2>0 DEF Current
  <2>2. control[1].base \in Nat /\ BlockSound(control[1], Ctx.spills)  BY <1>2, <2>1, BlockShape
  <2> QED  BY <1>1, <1>2, <2>1, <2>2 DEF Blocks, BlockSound
<1>5. P => c.ok = ok  BY <1>2, AssertTrue
<1>6. ~P => ~Live /\ (CodeAfterDeadBlock \/ Arity > NumLocals)
  <2> SUFFICES ASSUME ~P PROVE ~Live /\ (CodeAfterDeadBlock \/ Arity > NumLocals)
    OBVIOUS
  <2>0. NumLocals \in Nat /\ Arity \in Nat  BY ControlFlowAssumption
  <2>1. Len(stack) < Arity  BY <1>2, <2>0 DEF Height
  <2>2. CodeAfterDeadBlock \/ Arity > NumLocals  BY <1>2, <2>0, <2>1
  <2>3. ASSUME Live PROVE FALSE
    <3>1. Len(stack) = height /\ height >= Current.base  BY <1>2, <1>4, <2>3 DEF Level
    <3>2. height = Current.base + Arity  BY <1>1, <1>4, <2>0, <3>1 DEF Closes, AnyHeight
    <3> QED  BY <1>4, <2>0, <2>1, <3>1, <3>2
  <2> QED  BY <2>2, <2>3
<1> HIDE DEF c
<1>7. c.ok = ok \/ (~Live /\ (CodeAfterDeadBlock \/ Arity > NumLocals))  BY <1>5, <1>6
<1> QED  BY <1>1, <1>2, <1>3, <1>7, BodyEndSound

-----------------------------------------------------------------------------
(* ELSE *)

\* The point of the path being compiled, if there is one.
Here == IF Live THEN {Point(Ctx, Current.base)} ELSE {}

\* What end and else find.
LEMMA EndOfBlock ==
  ASSUME IInv, control # <<>>
  PROVE  /\ Len(control) \in 1 .. Len(control) /\ Len(control) \in Nat
         /\ Current = control[Len(control)] /\ Current \in ControlBlock
         /\ BlockSound(Current, Ctx.spills) /\ Current.valid = Current.base
         /\ Current.base \in Nat /\ Current.base \in 0 .. MaxHeight
         /\ NumLocals <= Current.base /\ Current.base <= MaxHeight
         /\ Current.arity \in {0, 1} /\ Current.label \in Context /\ Current.else \in Context
         /\ Live /\ Closes => Len(stack) = Current.base + Current.arity
         /\ Points(Ctx, control) = Arrivals(control) \cup Here
         /\ Agreeing(Points(Ctx, control))
         /\ \A p \in Points(Ctx, control) : p.top \in Nat
<1>1. /\ control \in Seq(ControlBlock) /\ Blocks(control, Ctx.spills) /\ Ctx.stack = stack
      /\ Level(Ctx, control, height) /\ (Live <=> LiveStack(control))
  BY Anywhere
<1>2. Len(control) \in 1 .. Len(control) /\ Len(control) \in Nat  BY <1>1
<1>3. /\ Current = control[Len(control)] /\ Current \in ControlBlock
      /\ BlockSound(Current, Ctx.spills)
      /\ Current.base \in Nat /\ Current.base \in 0 .. MaxHeight
      /\ NumLocals <= Current.base /\ Current.base <= MaxHeight
      /\ Current.arity \in {0, 1} /\ Current.label \in Context /\ Current.else \in Context
  BY <1>1, <1>2, BlockShape DEF Current
<1>4. Current.valid = Current.base  BY <1>3 DEF BlockSound
<1>5. Live /\ Closes => Len(stack) = Current.base + Current.arity
  <2> SUFFICES ASSUME Live, Closes PROVE Len(stack) = Current.base + Current.arity
    OBVIOUS
  <2>1. Len(stack) = height /\ height >= Current.base  BY <1>1, <1>3 DEF Level
  <2>2. height # AnyHeight  BY <1>3, <2>1 DEF AnyHeight
  <2> QED  BY <1>4, <2>1, <2>2 DEF Closes
<1>6. Points(Ctx, control) = Arrivals(control) \cup Here  BY <1>1, <1>3 DEF Points, Here
<1>7. Agreeing(Points(Ctx, control))  BY DEF IInv
<1>8. \A p \in Points(Ctx, control) : p.top \in Nat
  <2>1. \A p \in Here : p.top \in Nat  BY <1>3 DEF Here, Point
  <2>2. \A p \in Arrivals(control) : p.top \in Nat  BY <1>1, ArrivalTops
  <2> QED  BY <1>6, <2>1, <2>2
<1> QED  BY <1>2, <1>3, <1>4, <1>5, <1>6, <1>7, <1>8

\* The target of a merge agrees with the paths.
LEMMA AimAgrees ==
  ASSUME NEW P, Agreeing(P), \A p \in P : p.top \in Nat, NEW s, NEW base \in Nat,
         Point(s, base) \in P, NEW t, Aims(P, s, t, base)
  PROVE  Agreeing(P \cup {Point(t, base)})
<1>1. CASE Point(t, base) \in P
  <2>1. P \cup {Point(t, base)} = P  BY <1>1
  <2> QED  BY <2>1
<1>2. CASE Follows(s, t, NumLocals + 1 .. base)
  <2>1. P \cup {Point(s, base)} = P /\ base <= base  OBVIOUS
  <2>2. Agreeing(P \cup {Point(s, base)})  BY <2>1
  <2> QED  BY <1>2, <2>1, <2>2, PointMoves
<1> QED  BY <1>1, <1>2 DEF Aims

\* State s, of the height that label i asks for, merges into state t.
RunsInto(m, i, X, s, t) ==
  /\ Good(m.c) /\ Blocks(m.k, m.c.spills) /\ i \in 1 .. Len(m.k)
  /\ (\A p \in X : p.top \in Nat) /\ Agreeing(Arrivals(m.k) \cup X)
  /\ Sound(s, m.c.spills) /\ Len(s.stack) <= MaxHeight
  /\ Point(s, m.k[i].base) \in Arrivals(m.k) \cup X
  /\ Len(s.stack) = m.k[i].base + Results(m.k[i])
  /\ Suits(m.k[i], Arrivals(m.k) \cup X, s, t)

\* A path that runs into the end of its block.
LEMMA FullJoinOnward ==
  ASSUME NEW m, NEW i, NEW X, NEW s, NEW t, RunsInto(m, i, X, s, t)
  PROVE  Onward(m, Join(m, i, s, t, TRUE), X) /\ Landed(Join(m, i, s, t, TRUE), i, t)
<1> DEFINE full == TRUE
           top == m.k[i].base
           l == Len(s.stack)
<1>1. /\ Good(m.c) /\ Blocks(m.k, m.c.spills) /\ i \in 1 .. Len(m.k)
      /\ (\A p \in X : p.top \in Nat) /\ Agreeing(Arrivals(m.k) \cup X)
      /\ Sound(s, m.c.spills) /\ Len(s.stack) <= MaxHeight
      /\ Point(s, top) \in Arrivals(m.k) \cup X
      /\ Len(s.stack) = top + Results(m.k[i])
      /\ Suits(m.k[i], Arrivals(m.k) \cup X, s, t)
  BY DEF RunsInto
<1>2. full \in BOOLEAN /\ top \in Nat /\ top <= top /\ Results(m.k[i]) \in Nat
  BY <1>1, BlockShape
<1>3. m.k[i].base <= top /\ m.k[i].base + Results(m.k[i]) <= Len(s.stack)
      /\ (full => Len(s.stack) = m.k[i].base + Results(m.k[i]))
  BY <1>1, <1>2
<1>4. Join(m, i, s, t, TRUE) = Join(m, i, s, t, full)  OBVIOUS
<1> HIDE DEF full, top
<1>5. Onward(m, Join(m, i, s, t, full), X) /\ Landed(Join(m, i, s, t, full), i, t)
  BY <1>1, <1>2, <1>3, JoinOnward
<1> QED  BY <1>4, <1>5

\* The path being compiled may run into the end of its block.
LEMMA FallThroughRuns ==
  ASSUME IInv, control # <<>>, Closes, Current.type # "loop",
         NEW s, Point(s, Current.base) \in Points(Ctx, control),
         NEW t, Suits(Current, Points(Ctx, control), s, t)
  PROVE  LET X == Here \cup {Point(t, Current.base)}
         IN  /\ Agreeing(Arrivals(control) \cup X)
             /\ Live => RunsInto(At(Ctx, control), Len(control), X, Ctx, t)
<1> DEFINE m0 == At(Ctx, control)
           n == Len(control)
           b == Current
           X == Here \cup {Point(t, b.base)}
           P == Arrivals(control) \cup X
<1>1. /\ n \in 1 .. n /\ b = control[n] /\ b.base \in Nat /\ b.arity \in {0, 1}
      /\ (Live => Len(stack) = b.base + b.arity)
      /\ Points(Ctx, control) = Arrivals(control) \cup Here
      /\ Agreeing(Points(Ctx, control))
      /\ \A p \in Points(Ctx, control) : p.top \in Nat
  BY EndOfBlock
<1>2. /\ Good(Ctx) /\ Ctx.stack = stack /\ Ctx \in Context /\ Len(stack) \in Nat
      /\ Len(stack) <= MaxHeight /\ Blocks(control, Ctx.spills)
  BY Anywhere
<1>3. m0.c = Ctx /\ m0.k = control  BY DEF At
<1> HIDE DEF b, n
<1>5. Agreeing(P) /\ \A p \in X : p.top \in Nat
  <2>1. Aims(Points(Ctx, control), s, t, b.base)  BY DEF Suits, b
  <2>2. Point(s, b.base) \in Points(Ctx, control)  BY DEF b
  <2>3. Agreeing(Points(Ctx, control) \cup {Point(t, b.base)})
    BY <1>1, <2>1, <2>2, AimAgrees
  <2>4. P = Points(Ctx, control) \cup {Point(t, b.base)}  BY <1>1
  <2>5. \A p \in X : p.top \in Nat  BY <1>1 DEF Point
  <2> QED  BY <2>3, <2>4, <2>5
<1>6. Point(t, b.base) \in P /\ (Live => Point(Ctx, b.base) \in P)  BY DEF Here, b
<1> HIDE DEF X
<1>7. CASE Live
  <2>2. Suits(b, P, Ctx, t)  BY <1>6 DEF Suits, Aims, b
  <2>3. Results(b) = b.arity  BY DEF Results, b
  <2>4. Sound(Ctx, Ctx.spills)  BY <1>2, SoundIsGood
  <2>5. /\ Len(Ctx.stack) = b.base + Results(b) /\ b.base + Results(b) <= Len(Ctx.stack)
        /\ Len(Ctx.stack) <= MaxHeight /\ b.base <= b.base
    BY <1>1, <1>2, <1>7, <2>3
  <2>6. Point(Ctx, b.base) \in P  BY <1>6, <1>7
  <2>7. n \in 1 .. Len(m0.k) /\ m0.k[n] = b  BY <1>1, <1>3 DEF n
  <2>8. Good(m0.c) /\ Blocks(m0.k, m0.c.spills) /\ Sound(Ctx, m0.c.spills)
    BY <1>2, <1>3, <2>4
  <2>9. /\ Agreeing(Arrivals(m0.k) \cup X) /\ Suits(m0.k[n], Arrivals(m0.k) \cup X, Ctx, t)
        /\ Point(Ctx, b.base) \in Arrivals(m0.k) \cup X
    BY <1>3, <1>5, <2>2, <2>6, <2>7
  <2>11. /\ m0.k[n].base <= b.base /\ m0.k[n].base + Results(m0.k[n]) <= Len(Ctx.stack)
         /\ Len(Ctx.stack) = m0.k[n].base + Results(m0.k[n])
    BY <2>5, <2>7
  <2> HIDE DEF m0, P
  <2>12. RunsInto(m0, n, X, Ctx, t)
    BY <1>1, <1>5, <2>5, <2>7, <2>8, <2>9, <2>11 DEF RunsInto
  <2> QED  BY <1>5, <2>12 DEF m0, n, P, X, b
<1> QED  BY <1>5, <1>7 DEF P, X, b

\* The code that runs into the end of the block merges into the state t.
LEMMA FallThroughOnward ==
  ASSUME IInv, control # <<>>, Closes, Current.type # "loop",
         NEW s, Point(s, Current.base) \in Points(Ctx, control),
         NEW t, Suits(Current, Points(Ctx, control), s, t)
  PROVE  /\ Onward(At(Ctx, control), FallThrough(At(Ctx, control), t),
                   Here \cup {Point(t, Current.base)})
         /\ Live => Landed(FallThrough(At(Ctx, control), t), Len(control), t)
         /\ ~Live => FallThrough(At(Ctx, control), t) = At(Ctx, control)
<1> DEFINE m0 == At(Ctx, control)
           m == FallThrough(m0, t)
           n == Len(control)
           b == Current
           X == Here \cup {Point(t, b.base)}
<1>1. Agreeing(Arrivals(control) \cup X) /\ (Live => RunsInto(m0, n, X, Ctx, t))
  BY FallThroughRuns
<1>2. Good(Ctx) /\ Ctx \in Context /\ Blocks(control, Ctx.spills)  BY Anywhere
<1>3. m0.c = Ctx /\ m0.k = control  BY DEF At
<1>4. Live <=> Reachable(b)  BY DEF Live
<1> HIDE DEF b, n, X
<1>5. CASE Live
  <2>1. m = Join(m0, n, Ctx, t, TRUE)  BY <1>4, <1>5 DEF FallThrough, b, n
  <2> HIDE DEF m0, m
  <2>2. Onward(m0, Join(m0, n, Ctx, t, TRUE), X) /\ Landed(Join(m0, n, Ctx, t, TRUE), n, t)
    BY <1>1, <1>5, FullJoinOnward
  <2> QED  BY <1>5, <2>1, <2>2 DEF m, m0, n, X, b
<1>6. CASE ~Live
  <2>1. m = m0  BY <1>4, <1>6 DEF FallThrough, b
  <2>2. Onward(m0, m0, X)
    <3>1. Ctx.spills <= Ctx.spills  BY <1>2, ContextShape
    <3> HIDE DEF m0, m
    <3> QED  BY <1>1, <1>2, <1>3, <3>1, SameBlocksReflexive DEF Onward
  <2> QED  BY <1>6, <2>1, <2>2 DEF X, b
<1> QED  BY <1>5, <1>6

\* What the innermost block becomes leaves the others alone.
LEMMA LastReplaced ==
  ASSUME NEW k, NEW n, Blocks(k, n), Len(k) > 1, NEW b \in ControlBlock, BlockSound(b, n),
         b.base = k[Len(k)].base
  PROVE  /\ Blocks([k EXCEPT ![Len(k)] = b], n)
         /\ Len([k EXCEPT ![Len(k)] = b]) = Len(k) /\ [k EXCEPT ![Len(k)] = b][Len(k)] = b
         /\ \A i \in 1 .. Len(k) : i # Len(k) => [k EXCEPT ![Len(k)] = b][i] = k[i]
<1> DEFINE l == Len(k)
           k2 == [k EXCEPT ![l] = b]
<1>1. k \in Seq(ControlBlock) /\ l \in Nat /\ l > 1  BY DEF Blocks
<1>2. l \in 1 .. l /\ 1 \in 1 .. l /\ 1 # l /\ k # <<>>  BY <1>1
<1>3. /\ k2 \in Seq(ControlBlock) /\ Len(k2) = l /\ k2[l] = b
      /\ \A i \in 1 .. l : i # l => k2[i] = k[i]
  BY <1>1, <1>2, ExceptSeq
<1>4. b.base = k[l].base  OBVIOUS
<1> HIDE DEF k2, l
<1>5. \A i \in 1 .. l : BlockSound(k2[i], n)  BY <1>3 DEF Blocks, l
<1>6. \A i \in 1 .. l : i < l => Reachable(k2[i])
  BY <1>1, <1>3 DEF Blocks, l
<1>7. \A i, j \in 1 .. l : i <= j => k2[i].base <= k2[j].base
  <2>1. \A i \in 1 .. l : k2[i].base = k[i].base  BY <1>3, <1>4
  <2> QED  BY <2>1 DEF Blocks, l
<1>8. k2[1].type = "block" /\ k2[1].arity = Arity  BY <1>2, <1>3 DEF Blocks
<1>9. Blocks(k2, n)  BY <1>3, <1>5, <1>6, <1>7, <1>8 DEF Blocks
<1> QED  BY <1>3, <1>9 DEF k2, l

\* The points of the blocks around are still there.
LEMMA LastReplacedArrivals ==
  ASSUME NEW k, NEW k2, NEW l \in 1 .. Len(k), Len(k2) = Len(k),
         \A i \in 1 .. Len(k) : i # l => k2[i] = k[i],
         k2[l].type # "if", k2[l].reached = k[l].reached, k2[l].label = k[l].label,
         k2[l].base = k[l].base
  PROVE  Arrivals(k2) \in SUBSET Arrivals(k)
<1> SUFFICES ASSUME NEW p \in Arrivals(k2) PROVE p \in Arrivals(k)
  OBVIOUS
<1>1. ASSUME NEW i \in 1 .. Len(k2), k2[i].reached, p = Point(k2[i].label, k2[i].base)
      PROVE  p \in Arrivals(k)
  <2>1. /\ i \in {j \in 1 .. Len(k) : k[j].reached} /\ k2[i].label = k[i].label
        /\ k2[i].base = k[i].base
    BY <1>1
  <2> QED  BY <1>1, <2>1 DEF Arrivals
<1>2. ASSUME NEW i \in 1 .. Len(k2), k2[i].type = "if", p = Point(k2[i].else, k2[i].base)
      PROVE  p \in Arrivals(k)
  <2>1. i \in {j \in 1 .. Len(k) : k[j].type = "if"} /\ k2[i] = k[i]  BY <1>2
  <2> QED  BY <1>2, <2>1 DEF Arrivals
<1> QED  BY <1>1, <1>2 DEF Arrivals

\* The first arm may be merged into the state of the label.
LEMMA ElseSuits ==
  ASSUME IInv, Else, Live
  PROVE  /\ Point(Ctx, Current.base) \in Points(Ctx, control)
         /\ Suits(Current, Points(Ctx, control), Ctx,
                  LabelState(At(Ctx, control), Len(control), Ctx))
<1> DEFINE n == Len(control)
           b == Current
           m0 == At(Ctx, control)
           P == Points(Ctx, control)
<1>1. n > 1 /\ b.type = "if" /\ Closes /\ control # <<>>  BY DEF Else
<1>2. /\ Ctx \in Context /\ Ctx.stack = stack /\ Len(stack) \in Nat
      /\ Len(stack) <= MaxHeight /\ Blocks(control, Ctx.spills)
  BY Anywhere
<1>3. /\ n \in 1 .. n /\ b = control[n] /\ b.base \in Nat
      /\ b.arity \in {0, 1} /\ Len(stack) = b.base + b.arity
      /\ P = Arrivals(control) \cup Here
  BY <1>1, EndOfBlock
<1>4. Point(Ctx, b.base) \in P  BY <1>3 DEF Here
<1>5. m0.k = control  BY DEF At
<1> HIDE DEF m0, b, n, P
<1>6. Results(b) = b.arity  BY <1>1 DEF Results
<1>7. /\ Blocks(m0.k, Ctx.spills) /\ n \in 1 .. Len(m0.k) /\ m0.k[n] = b
      /\ Arrivals(m0.k) \subseteq P
  BY <1>2, <1>3, <1>5 DEF n
<1>8. Len(Ctx.stack) <= MaxHeight /\ m0.k[n].base + Results(m0.k[n]) <= Len(Ctx.stack)
  BY <1>2, <1>3, <1>6, <1>7
<1>9. Suits(m0.k[n], P, Ctx, LabelState(m0, n, Ctx))
  BY <1>2, <1>7, <1>8, LabelStateSuits
<1> QED  BY <1>4, <1>7, <1>9 DEF P, b, m0, n

\* The block once its second arm begins.
SecondArm(b) == [b EXCEPT !.type = "else", !.else = FreshState, !.reach = Inner(Target(1))]

\* The first arm is merged into the label.
LEMMA ElseMerges ==
  ASSUME IInv, Else, NEW n, n = Len(control), NEW b, b = Current,
         NEW m, m = FallThrough(At(Ctx, control), LabelState(At(Ctx, control), n, Ctx)),
         NEW b2, b2 = SecondArm(m.k[n])
  PROVE  /\ Good(m.c) /\ m.c.ok = ok /\ Blocks(m.k, m.c.spills) /\ SameBlocks(control, m.k)
         /\ Agreeing(Arrivals(m.k))
         /\ m.k \in Seq(ControlBlock) /\ Len(m.k) = n /\ m.k[n] \in ControlBlock
         /\ BlockSound(m.k[n], m.c.spills)
         /\ m.k[n].type = "if" /\ m.k[n].arity = b.arity /\ m.k[n].base = b.base
         /\ m.k[n].valid = b.valid /\ m.k[n].else = b.else
         /\ b2 \in ControlBlock /\ b2.type = "else" /\ b2.arity = m.k[n].arity
         /\ b2.base = m.k[n].base /\ b2.valid = m.k[n].valid /\ b2.else = FreshState
         /\ b2.reach = "Reachable" /\ b2.reached = m.k[n].reached /\ b2.label = m.k[n].label
         /\ Proceed(Restore(m.c, m.k[n].else), [m.k EXCEPT ![n] = b2])
<1> DEFINE m0 == At(Ctx, control)
           t == LabelState(m0, n, Ctx)
<1>1. /\ n > 1 /\ b.type = "if" /\ Closes
      /\ Proceed(Restore(m.c, m.k[n].else),
                 [m.k EXCEPT ![n].type = "else", ![n].else = FreshState,
                             ![n].reach = Inner(Target(1))])
  BY DEF Else
<1>2. /\ Good(Ctx) /\ Ctx.ok = ok /\ control \in Seq(ControlBlock) /\ Blocks(control, Ctx.spills)
  BY Anywhere
<1>3. control # <<>>  BY <1>1
<1>4. n \in 1 .. n /\ n \in Nat /\ b = control[n] /\ BlockSound(b, Ctx.spills)
  BY <1>1, <1>3, EndOfBlock
<1>5. m0.c = Ctx /\ m0.k = control  BY DEF At
<1> HIDE DEF m0, t
<1>6. /\ Good(m.c) /\ m.c.ok = ok /\ Blocks(m.k, m.c.spills) /\ SameBlocks(control, m.k)
      /\ Agreeing(Arrivals(m.k))
  <2>1. CASE Live
    <3>1. Point(Ctx, Current.base) \in Points(Ctx, control)  BY <2>1, ElseSuits
    <3>2. Suits(Current, Points(Ctx, control), Ctx, t)  BY <2>1, ElseSuits DEF t, m0
    <3>3. m = FallThrough(m0, t)  BY DEF t, m0
    <3>4. Onward(m0, FallThrough(m0, t), Here \cup {Point(t, Current.base)})
      BY <1>1, <1>3, <3>1, <3>2, FallThroughOnward DEF m0
    <3>5. Agreeing(Arrivals(m.k))
      <4> DEFINE Q == Arrivals(m.k) \cup (Here \cup {Point(t, Current.base)})
      <4>1. Agreeing(Q) /\ Arrivals(m.k) \in SUBSET Q  BY <3>3, <3>4 DEF Onward
      <4> HIDE DEF Q
      <4> QED  BY <4>1, FewerAgree
    <3> QED  BY <1>2, <1>5, <3>3, <3>4, <3>5 DEF Onward
  <2>2. CASE ~Live
    <3>1. m = m0  BY <1>3, <2>2 DEF FallThrough, Live, m0
    <3> QED  BY <1>2, <1>5, <3>1, Anywhere, SameBlocksReflexive
  <2> QED  BY <2>1, <2>2
<1>7. /\ m.k \in Seq(ControlBlock) /\ Len(m.k) = n /\ m.k[n] \in ControlBlock
      /\ BlockSound(m.k[n], m.c.spills)
      /\ m.k[n].type = "if" /\ m.k[n].arity = b.arity /\ m.k[n].base = b.base
      /\ m.k[n].valid = b.valid /\ m.k[n].else = b.else
  <2>1. Len(m.k) = n /\ n \in 1 .. Len(m.k)  BY <1>4, <1>6 DEF SameBlocks
  <2>2. /\ m.k[n].type = b.type /\ m.k[n].arity = b.arity /\ m.k[n].base = b.base
        /\ m.k[n].valid = b.valid /\ m.k[n].else = b.else
    BY <1>4, <1>6 DEF SameBlocks
  <2>3. m.k[n] \in ControlBlock /\ BlockSound(m.k[n], m.c.spills)  BY <1>6, <2>1, BlockShape
  <2> QED  BY <1>1, <1>6, <2>1, <2>2, <2>3 DEF Blocks
<1>8. Inner(Target(1)) = "Reachable"
  <2>1. n - 1 \in 1 .. n /\ n - 1 < n  BY <1>1, <1>4
  <2>2. Reachable(control[n - 1])  BY <1>2, <2>1 DEF Blocks
  <2> QED  BY <2>2 DEF Inner, Target
<1>9. /\ b2 \in ControlBlock /\ b2.type = "else" /\ b2.arity = m.k[n].arity
      /\ b2.base = m.k[n].base /\ b2.valid = m.k[n].valid /\ b2.else = FreshState
      /\ b2.reach = "Reachable" /\ b2.reached = m.k[n].reached /\ b2.label = m.k[n].label
  BY <1>7, <1>8, FreshSound DEF ControlBlock, SecondArm
<1>10. Proceed(Restore(m.c, m.k[n].else), [m.k EXCEPT ![n] = b2])
  <2>1. [m.k EXCEPT ![n].type = "else", ![n].else = FreshState, ![n].reach = Inner(Target(1))]
          = [m.k EXCEPT ![n] = b2]
    BY <1>4, <1>7 DEF SecondArm
  <2> QED  BY <1>1, <2>1
<1> QED  BY <1>6, <1>7, <1>9, <1>10

\* The else arm starts in the state that was saved for it.
LEMMA ElseStep ==
  ASSUME IInv, Else
  PROVE  StepSound
<1> DEFINE n == Len(control)
           b == Current
           m == FallThrough(At(Ctx, control), LabelState(At(Ctx, control), n, Ctx))
           c == Restore(m.c, m.k[n].else)
           b2 == SecondArm(m.k[n])
           k2 == [m.k EXCEPT ![n] = b2]
<1>1. /\ n > 1 /\ b.type = "if" /\ Closes /\ height' = b.valid
  BY DEF Else
<1>2. /\ Good(Ctx) /\ Ctx \in Context /\ Ctx.ok = ok /\ Ctx.stack = stack /\ Len(stack) \in Nat
      /\ Len(stack) <= MaxHeight /\ control \in Seq(ControlBlock)
      /\ Blocks(control, Ctx.spills) /\ (Live <=> LiveStack(control))
  BY Anywhere
<1>3. control # <<>>  BY <1>1
<1>4. /\ n \in 1 .. n /\ n \in Nat /\ b = control[n] /\ BlockSound(b, Ctx.spills)
      /\ b.valid = b.base /\ b.base \in Nat /\ NumLocals <= b.base /\ b.base <= MaxHeight
      /\ b.arity \in {0, 1} /\ (Live => Len(stack) = b.base + b.arity)
      /\ Points(Ctx, control) = Arrivals(control) \cup Here
      /\ Agreeing(Points(Ctx, control))
  BY <1>1, <1>3, EndOfBlock
<1> HIDE DEF m, b2, b, n
<1>5. /\ Good(m.c) /\ m.c.ok = ok /\ Blocks(m.k, m.c.spills) /\ SameBlocks(control, m.k)
      /\ Agreeing(Arrivals(m.k))
      /\ m.k \in Seq(ControlBlock) /\ Len(m.k) = n /\ m.k[n] \in ControlBlock
      /\ BlockSound(m.k[n], m.c.spills)
      /\ m.k[n].type = "if" /\ m.k[n].arity = b.arity /\ m.k[n].base = b.base
      /\ m.k[n].valid = b.valid /\ m.k[n].else = b.else
      /\ b2 \in ControlBlock /\ b2.type = "else" /\ b2.arity = m.k[n].arity
      /\ b2.base = m.k[n].base /\ b2.valid = m.k[n].valid /\ b2.else = FreshState
      /\ b2.reach = "Reachable" /\ b2.reached = m.k[n].reached /\ b2.label = m.k[n].label
      /\ Proceed(c, k2)
  BY ElseMerges DEF m, b2, b, n
<1>6. BlockSound(b2, m.c.spills)
  <2>1. Results(b2) = Results(m.k[n])  BY <1>5 DEF Results
  <2> QED  BY <1>5, <2>1, FreshSound DEF BlockSound
<1>7. /\ Blocks(k2, m.c.spills) /\ Len(k2) = n /\ k2[n] = b2
       /\ \A i \in 1 .. n : i # n => k2[i] = m.k[i]
  BY <1>1, <1>5, <1>6, LastReplaced
<1> HIDE DEF k2
<1>8. m.c \in Context /\ Sound(b.else, m.c.spills) /\ Len(b.else.stack) = b.base
  BY <1>5 DEF Good, BlockSound
<1>9. /\ Good(c) /\ c.stack = b.else.stack /\ c.ok = ok /\ c.spills = m.c.spills
       /\ c.mem = b.else.mem
  BY <1>5, <1>8, RestoreSound
<1> HIDE DEF c
<1>10. LiveStack(k2)
  <2>1. k2 # <<>>  BY <1>4, <1>7
  <2> QED  BY <1>5, <1>7, <2>1 DEF LiveStack, Reachable
<1>11. Level(c, k2, height')
  <2>1. height' = b.base /\ Len(c.stack) = b.base /\ k2[Len(k2)].base = b.base
    BY <1>1, <1>4, <1>5, <1>7, <1>8, <1>9
  <2>2. b.base \in NumLocals .. MaxHeight + 1 /\ b.base >= NumLocals /\ b.base >= b.base
    BY <1>4, ControlFlowAssumption, RegsAssumption
  <2> QED  BY <2>1, <2>2 DEF Level
<1>12. Agreeing(Points(c, k2))
  <2> DEFINE A == Arrivals(m.k)
             x == b.base
  <2>1. Points(c, k2) = Arrivals(k2) \cup {Point(c, x)}
    BY <1>5, <1>7, <1>10 DEF Points
  <2>2. Arrivals(k2) \in SUBSET A
    <3>1. n \in 1 .. Len(m.k) /\ Len(k2) = Len(m.k) /\ k2[n].type # "if"
      BY <1>4, <1>5, <1>7
    <3> QED  BY <1>5, <1>7, <3>1, LastReplacedArrivals
  <2>3. Point(b.else, x) \in A
    <3>1. n \in {i \in 1 .. Len(m.k) : m.k[i].type = "if"}  BY <1>4, <1>5
    <3> QED  BY <1>5, <3>1 DEF Arrivals
  <2>4. Agreeing(A) /\ \A p \in A : p.top \in Nat  BY <1>5, ArrivalTops
  <2>5. Follows(b.else, c, NumLocals + 1 .. x)  BY <1>9, UntouchedFollows
  <2>6. x \in Nat /\ x <= x  BY <1>4
  <2> HIDE DEF A, x
  <2>7. Agreeing(A \cup {Point(b.else, x)})
    <3>1. A \cup {Point(b.else, x)} = A  BY <2>3
    <3> QED  BY <2>4, <3>1
  <2>8. Agreeing(A \cup {Point(c, x)})  BY <2>4, <2>5, <2>6, <2>7, PointMoves
  <2>9. Points(c, k2) \in SUBSET (A \cup {Point(c, x)})  BY <2>1, <2>2
  <2> QED  BY <2>8, <2>9, FewerAgree
<1>13. Keeps(control, k2)
  <2>1. DOMAIN control = 1 .. n  BY <1>2 DEF n
  <2>2. \A i \in 1 .. n : k2[i].label = m.k[i].label  BY <1>5, <1>7
  <2> QED  BY <1>5, <2>1, <2>2 DEF Keeps, SameBlocks, n
<1>14. Concludes(c, k2, height')  BY <1>7, <1>9, <1>11, <1>12 DEF Concludes
<1> QED  BY <1>5, <1>9, <1>13, <1>14, StepConcludes

-----------------------------------------------------------------------------
(* END *)

\* The blocks around are in the state they were in.
LEMMA PrefixBlocks ==
  ASSUME NEW k, NEW n, Blocks(k, n), NEW l \in 1 .. Len(k)
  PROVE  /\ Blocks(SubSeq(k, 1, l), n) /\ Len(SubSeq(k, 1, l)) = l
         /\ \A i \in 1 .. l : SubSeq(k, 1, l)[i] = k[i]
<1> DEFINE p == SubSeq(k, 1, l)
<1>1. k \in Seq(ControlBlock) /\ Len(k) \in Nat  BY DEF Blocks
<1>2. /\ p \in Seq(ControlBlock) /\ Len(p) = l /\ l \in Nat
      /\ \A i \in 1 .. l : i \in 1 .. Len(k) /\ p[i] = k[i]
  BY <1>1
<1> HIDE DEF p
<1>3. \A i \in 1 .. l : BlockSound(p[i], n)  BY <1>2 DEF Blocks
<1>4. \A i \in 1 .. l : i < l => Reachable(p[i])
  <2> SUFFICES ASSUME NEW i \in 1 .. l, i < l PROVE Reachable(p[i])
    OBVIOUS
  <2>1. i \in 1 .. Len(k) /\ i < Len(k) /\ p[i] = k[i]  BY <1>1, <1>2
  <2> QED  BY <2>1 DEF Blocks
<1>5. \A i, j \in 1 .. l : i <= j => p[i].base <= p[j].base  BY <1>2 DEF Blocks
<1>6. p[1].type = "block" /\ p[1].arity = Arity
  <2>1. 1 \in 1 .. l /\ k # <<>>  BY <1>1
  <2> QED  BY <1>2, <2>1 DEF Blocks
<1>7. Blocks(p, n)  BY <1>2, <1>3, <1>4, <1>5, <1>6 DEF Blocks
<1> QED  BY <1>2, <1>7 DEF p

\* Blocks that are closed take their points with them.
LEMMA FewerArrivals ==
  ASSUME NEW k, NEW o, NEW l \in Nat, Len(o) = l, \A i \in 1 .. l : i \in 1 .. Len(k),
         \A i \in 1 .. l : /\ o[i].type = k[i].type /\ o[i].reached = k[i].reached
                           /\ o[i].label = k[i].label /\ o[i].else = k[i].else
                           /\ o[i].base = k[i].base
  PROVE  Arrivals(o) \in SUBSET Arrivals(k)
<1> SUFFICES ASSUME NEW p \in Arrivals(o) PROVE p \in Arrivals(k)
  OBVIOUS
<1>1. ASSUME NEW i \in 1 .. Len(o), o[i].reached, p = Point(o[i].label, o[i].base)
      PROVE  p \in Arrivals(k)
  <2>1. i \in {j \in 1 .. Len(k) : k[j].reached} /\ p = Point(k[i].label, k[i].base)
    BY <1>1
  <2> QED  BY <2>1 DEF Arrivals
<1>2. ASSUME NEW i \in 1 .. Len(o), o[i].type = "if", p = Point(o[i].else, o[i].base)
      PROVE  p \in Arrivals(k)
  <2>1. i \in {j \in 1 .. Len(k) : k[j].type = "if"} /\ p = Point(k[i].else, k[i].base)
    BY <1>2
  <2> QED  BY <2>1 DEF Arrivals
<1> QED  BY <1>1, <1>2 DEF Arrivals

\* The control stack once the block is popped.
LEMMA OutsideShape ==
  ASSUME NEW k, NEW n, Blocks(k, n), Len(k) > 1
  PROVE  /\ Blocks(Outside(k), n) /\ Len(Outside(k)) = Len(k) - 1
         /\ Arrivals(Outside(k)) \in SUBSET Arrivals(k)
         /\ (LiveStack(Outside(k)) <=> ParentReached)
         /\ \A i \in 1 .. Len(k) - 1 :
              /\ Outside(k)[i].type = k[i].type /\ Outside(k)[i].arity = k[i].arity
              /\ Outside(k)[i].base = k[i].base /\ Outside(k)[i].reached = k[i].reached
              /\ Outside(k)[i].label = k[i].label /\ Outside(k)[i].else = k[i].else
<1> DEFINE l == Len(k) - 1
           p == SubSeq(k, 1, l)
           r == "SpecOnlyReachable"
           o == [p EXCEPT ![Len(p)].reach = r]
<1>1. k \in Seq(ControlBlock) /\ Len(k) \in Nat /\ l \in Nat /\ l \in 1 .. Len(k) /\ l \in 1 .. l
      /\ l < Len(k)
  BY DEF Blocks
<1>2. Reachable(k[l])  BY <1>1 DEF Blocks
<1>3. Outside(k) = IF ParentReached THEN p ELSE [p EXCEPT ![l].reach = r]
  BY <1>2 DEF Outside
<1> HIDE DEF l
<1>4. /\ Blocks(p, n) /\ Len(p) = l /\ \A i \in 1 .. l : p[i] = k[i]
  BY <1>1, PrefixBlocks
<1> HIDE DEF p
<1>5. p \in Seq(ControlBlock) /\ p # <<>>  BY <1>1, <1>4 DEF Blocks
<1>6. \A i \in 1 .. l : i \in 1 .. Len(k)  BY <1>1
<1>7. CASE ParentReached
  <2>1. Outside(k) = p  BY <1>3, <1>7
  <2>2. LiveStack(p)  BY <1>1, <1>2, <1>4, <1>5 DEF LiveStack
  <2>3. Arrivals(p) \in SUBSET Arrivals(k)  BY <1>1, <1>4, <1>6, FewerArrivals
  <2> QED  BY <1>4, <1>7, <2>1, <2>2, <2>3 DEF l
<1>8. CASE ~ParentReached
  <2>1. Outside(k) = o  BY <1>3, <1>4, <1>8
  <2>2. /\ Relabels(p, o) /\ o[Len(p)].reach = r
        /\ \A i \in 1 .. Len(p) : o[i].label = p[i].label
    BY <1>5, ReachRelabels
  <2> HIDE DEF o
  <2>3. Blocks(o, n) /\ Len(o) = l  BY <1>4, <2>2, RelabelsBlocks DEF Relabels
  <2>4. ~LiveStack(o)  BY <1>4, <2>2, <2>3 DEF LiveStack, Reachable
  <2>5. \A i \in 1 .. l : /\ o[i].type = k[i].type /\ o[i].reached = k[i].reached
                          /\ o[i].arity = k[i].arity
                          /\ o[i].label = k[i].label /\ o[i].else = k[i].else
                          /\ o[i].base = k[i].base
    BY <1>4, <2>2 DEF Relabels
  <2>6. Arrivals(o) \in SUBSET Arrivals(k)  BY <1>1, <1>6, <2>3, <2>5, FewerArrivals
  <2> QED  BY <1>8, <2>1, <2>3, <2>4, <2>5, <2>6 DEF l
<1> QED  BY <1>7, <1>8

\* What popping the block leaves to the code after it.
Leaving(m) ==
  /\ Good(m.c) /\ m.c.ok = ok /\ Blocks(m.k, m.c.spills) /\ SameBlocks(control, m.k)
  /\ Agreeing(Arrivals(m.k)) /\ (CodeAfterDeadBlock \/ Len(m.c.stack) >= NumLocals)
  /\ ParentReached => /\ Len(m.c.stack) = Current.base + Current.arity
                      /\ Agreeing(Arrivals(m.k) \cup {Point(m.c, Current.base)})

\* The code after the block goes on with the state of a label or of an arm.
LEMMA RestoreLeaves ==
  ASSUME IInv, control # <<>>, NEW m, Good(m.c), m.c.ok = ok, Blocks(m.k, m.c.spills),
         SameBlocks(control, m.k), Agreeing(Arrivals(m.k)),
         NEW s, Point(s, Current.base) \in Arrivals(m.k), Sound(s, m.c.spills),
         Len(s.stack) = Current.base + Current.arity
  PROVE  Leaving(At(Restore(m.c, s), m.k))
<1> DEFINE c == Restore(m.c, s)
           A == Arrivals(m.k)
           x == Current.base
<1>1. m.c \in Context  BY DEF Good
<1>2. /\ Good(c) /\ c.stack = s.stack /\ c.ok = ok /\ c.spills = m.c.spills /\ c.mem = s.mem
  BY <1>1, RestoreSound
<1> HIDE DEF c
<1>3. x \in Nat /\ NumLocals <= x /\ x <= x /\ Current.arity \in {0, 1} /\ NumLocals \in Nat
  BY EndOfBlock, ControlFlowAssumption
<1>4. Len(c.stack) >= NumLocals
  <2> DEFINE l == Len(c.stack)
             a == Current.arity
  <2>1. l = x + a /\ a \in Nat  BY <1>2, <1>3
  <2> HIDE DEF l, x, a
  <2>2. l >= NumLocals  BY <1>3, <2>1
  <2> QED  BY <2>2 DEF l
<1>5. Follows(s, c, NumLocals + 1 .. x)  BY <1>2, UntouchedFollows
<1>6. Point(s, x) \in A /\ Agreeing(A) /\ \A p \in A : p.top \in Nat  BY ArrivalTops
<1> HIDE DEF A, x
<1>7. Agreeing(A \cup {Point(s, x)})
  <2>1. A \cup {Point(s, x)} = A  BY <1>6
  <2> QED  BY <1>6, <2>1
<1>8. Agreeing(A \cup {Point(c, x)})  BY <1>3, <1>5, <1>6, <1>7, PointMoves
<1>9. At(c, m.k).c = c /\ At(c, m.k).k = m.k  BY DEF At
<1>10. Leaving(At(c, m.k))  BY <1>2, <1>4, <1>8, <1>9 DEF Leaving, A, x
<1> QED  BY <1>10 DEF c

\* No merge: the path, if there is one, goes straight on.
LEMMA PathLeaves ==
  ASSUME IInv, control # <<>>, Closes, ParentReached => Live
  PROVE  Leaving(At(Ctx, control))
<1>1. /\ Good(Ctx) /\ Ctx.ok = ok /\ Ctx.stack = stack /\ Blocks(control, Ctx.spills)
      /\ Agreeing(Arrivals(control)) /\ (CodeAfterDeadBlock \/ Len(Ctx.stack) >= NumLocals)
  BY Anywhere
<1>2. Live => /\ Len(Ctx.stack) = Current.base + Current.arity
              /\ Agreeing(Arrivals(control) \cup {Point(Ctx, Current.base)})
  BY <1>1, EndOfBlock DEF Here
<1>3. At(Ctx, control).c = Ctx /\ At(Ctx, control).k = control  BY DEF At
<1> QED  BY <1>1, <1>2, <1>3, SameBlocksReflexive DEF Leaving

\* The code after a block that was jumped out of goes on with the state of its label.
LEMMA LabelLeaves ==
  ASSUME IInv, control # <<>>, NEW m, Good(m.c), m.c.ok = ok, Blocks(m.k, m.c.spills),
         SameBlocks(control, m.k), Agreeing(Arrivals(m.k)),
         Current.type # "loop", m.k[Len(control)].reached
  PROVE  Leaving(At(Restore(m.c, m.k[Len(control)].label), m.k))
<1> DEFINE n == Len(control)
           s == m.k[n].label
<1>1. n \in 1 .. n /\ Current = control[n]  BY EndOfBlock
<1>2. /\ Len(m.k) = n /\ m.k[n].type = Current.type /\ m.k[n].arity = Current.arity
      /\ m.k[n].base = Current.base
  BY <1>1 DEF SameBlocks
<1>3. BlockSound(m.k[n], m.c.spills)  BY <1>1, <1>2, BlockShape
<1>4. Results(m.k[n]) = Current.arity  BY <1>2 DEF Results
<1>5. Sound(s, m.c.spills) /\ Len(s.stack) = Current.base + Current.arity
  BY <1>2, <1>3, <1>4 DEF BlockSound
<1>6. Point(s, Current.base) \in Arrivals(m.k)
  <2>1. n \in {j \in 1 .. Len(m.k) : m.k[j].reached}  BY <1>1, <1>2
  <2> QED  BY <1>2, <2>1 DEF Arrivals
<1> HIDE DEF s, n
<1>7. Leaving(At(Restore(m.c, s), m.k))  BY <1>5, <1>6, RestoreLeaves
<1> QED  BY <1>7 DEF s, n

\* What a merge leaves that the code after the block goes on with.
LEMMA OnwardFrom ==
  ASSUME NEW m, NEW m2, NEW X, Onward(m, m2, X)
  PROVE  /\ Good(m2.c) /\ m2.c.ok = m.c.ok /\ Blocks(m2.k, m2.c.spills)
         /\ SameBlocks(m.k, m2.k) /\ Agreeing(Arrivals(m2.k))
<1> DEFINE Q == Arrivals(m2.k) \cup X
<1>1. Agreeing(Q) /\ Arrivals(m2.k) \in SUBSET Q  BY DEF Onward
<1> HIDE DEF Q
<1>2. Agreeing(Arrivals(m2.k))  BY <1>1, FewerAgree
<1> QED  BY <1>2 DEF Onward

\* finish_one_armed_if: the second arm, which is empty, merges too.
LEMMA OneArmedMerges ==
  ASSUME IInv, control # <<>>, Closes, Current.type = "if", Current.arity = 0,
         NEW t, t = LabelState(At(Ctx, control), Len(control), Current.else)
  PROVE  LET X == Here \cup {Point(t, Current.base)}
         IN  /\ Point(Current.else, Current.base) \in Points(Ctx, control)
             /\ Suits(Current, Points(Ctx, control), Current.else, t)
             /\ Onward(At(Ctx, control), FallThrough(At(Ctx, control), t), X)
             /\ RunsInto(FallThrough(At(Ctx, control), t), Len(control), X, Current.else, t)
<1> DEFINE n == Len(control)
           b == Current
           s == b.else
           m0 == At(Ctx, control)
           m1 == FallThrough(m0, t)
           P == Points(Ctx, control)
           X == Here \cup {Point(t, b.base)}
<1>1. /\ n \in 1 .. n /\ n \in Nat /\ b = control[n] /\ BlockSound(b, Ctx.spills)
      /\ b.base \in Nat /\ b.base <= MaxHeight /\ s \in Context
      /\ P = Arrivals(control) \cup Here /\ \A p \in P : p.top \in Nat
  BY EndOfBlock
<1>2. /\ Good(Ctx) /\ Ctx.ok = ok /\ Blocks(control, Ctx.spills) /\ Agreeing(Arrivals(control))
  BY Anywhere
<1>3. m0.c = Ctx /\ m0.k = control  BY DEF At
<1>4. b.type = "if" /\ b.arity = 0 /\ Results(b) = 0  BY DEF Results
<1>5. Len(s.stack) = b.base /\ Sound(s, Ctx.spills)  BY <1>1, <1>4 DEF BlockSound
<1>6. Point(s, b.base) \in Arrivals(control)
  <2>1. n \in {i \in 1 .. Len(control) : control[i].type = "if"}  BY <1>1, <1>4
  <2> QED  BY <1>1, <2>1 DEF Arrivals
<1>7. Len(s.stack) = b.base + b.arity /\ Len(s.stack) = b.base + Results(b)
      /\ b.base + Results(b) <= Len(s.stack) /\ Len(s.stack) <= MaxHeight
  BY <1>1, <1>4, <1>5
<1>8. t = LabelState(m0, n, s)  OBVIOUS
<1> HIDE DEF n, b, m0, m1, P
<1>9. Point(s, b.base) \in P  BY <1>1, <1>6
<1>10. Suits(b, P, s, t)
  <2>1. /\ Blocks(m0.k, Ctx.spills) /\ n \in 1 .. Len(m0.k) /\ m0.k[n] = b
        /\ Arrivals(m0.k) \subseteq P
    BY <1>1, <1>2, <1>3 DEF n
  <2>2. m0.k[n].base + Results(m0.k[n]) <= Len(s.stack)  BY <1>7, <2>1
  <2> HIDE DEF s
  <2>3. Suits(m0.k[n], P, s, LabelState(m0, n, s))
    BY <1>1, <1>7, <2>1, <2>2, LabelStateSuits
  <2> QED  BY <1>8, <2>1, <2>3
<1>11. /\ Onward(m0, m1, X) /\ (Live => Landed(m1, n, t)) /\ (~Live => m1 = m0)
  <2>1. Current.type # "loop"  BY <1>4 DEF b
  <2>2. Point(s, Current.base) \in Points(Ctx, control)  BY <1>9 DEF b, P
  <2>3. Suits(Current, Points(Ctx, control), s, t)  BY <1>10 DEF b, P
  <2> HIDE DEF s
  <2>4. /\ Onward(At(Ctx, control), FallThrough(At(Ctx, control), t),
                  Here \cup {Point(t, Current.base)})
        /\ Live => Landed(FallThrough(At(Ctx, control), t), Len(control), t)
        /\ ~Live => FallThrough(At(Ctx, control), t) = At(Ctx, control)
    BY <2>1, <2>2, <2>3, FallThroughOnward
  <2> QED  BY <2>4 DEF m1, m0, n, b
<1>12. \A p \in X : p.top \in Nat  BY <1>1 DEF Point
<1> HIDE DEF X
<1>13. /\ Good(m1.c) /\ m1.c.ok = ok /\ Blocks(m1.k, m1.c.spills)
      /\ SameBlocks(control, m1.k) /\ Agreeing(Arrivals(m1.k) \cup X)
  BY <1>2, <1>3, <1>11 DEF Onward
<1>14. /\ n \in 1 .. Len(m1.k) /\ Len(m1.k) = n /\ m1.k[n].type = "if"
      /\ m1.k[n].arity = b.arity /\ m1.k[n].base = b.base /\ m1.k[n].else = s
      /\ Results(m1.k[n]) = Results(b)
  BY <1>1, <1>4, <1>13 DEF SameBlocks, n, Results
<1>15. RunsInto(m1, n, X, s, t)
  <2>1. Sound(s, m1.c.spills)  BY <1>13, <1>14, BlockShape DEF BlockSound
  <2>2. Point(s, m1.k[n].base) \in Arrivals(m1.k) \cup X
    <3>1. n \in {i \in 1 .. Len(m1.k) : m1.k[i].type = "if"}  BY <1>14
    <3> QED  BY <1>14, <3>1 DEF Arrivals
  <2>3. m1.k[n].reached => t.stack = m1.k[n].label.stack
    <3>1. CASE Live  BY <1>11, <3>1 DEF Landed
    <3>2. CASE ~Live  BY <1>1, <1>3, <1>10, <1>11, <3>2 DEF Suits
    <3> QED  BY <3>1, <3>2
  <2>4. Aims(Arrivals(m1.k) \cup X, s, t, m1.k[n].base)  BY <1>14 DEF Aims, X
  <2>5. /\ t \in Context /\ Exact(t) /\ Homes(t) /\ t.ok
        /\ Len(t.stack) = m1.k[n].base + Results(m1.k[n])
        /\ Sole(t, NumLocals, m1.k[n].base)
    BY <1>10, <1>14 DEF Suits
  <2>6. Suits(m1.k[n], Arrivals(m1.k) \cup X, s, t)  BY <2>3, <2>4, <2>5 DEF Suits
  <2>7. Len(s.stack) = m1.k[n].base + Results(m1.k[n])  BY <1>7, <1>14
  <2> HIDE DEF s
  <2> QED  BY <1>7, <1>12, <1>13, <1>14, <2>1, <2>2, <2>6, <2>7 DEF RunsInto
<1> QED  BY <1>9, <1>10, <1>11, <1>15 DEF P, X, b, n, m0, m1

LEMMA OneArmedLeaves ==
  ASSUME IInv, control # <<>>, Closes, Current.type = "if", Current.arity = 0,
         NEW m, m = FinishOneArmedIf(At(Ctx, control))
  PROVE  Leaving(m)
<1> DEFINE n == Len(control)
           b == Current
           s == b.else
           m0 == At(Ctx, control)
           t == LabelState(m0, n, s)
           m1 == FallThrough(m0, t)
           m2 == Join(m1, n, s, t, TRUE)
           X == Here \cup {Point(t, b.base)}
<1>1. /\ n \in 1 .. n /\ b = control[n] /\ BlockSound(b, Ctx.spills)
      /\ b.base \in Nat /\ s \in Context
  BY EndOfBlock
<1>2. /\ Good(Ctx) /\ Ctx.ok = ok /\ Blocks(control, Ctx.spills) /\ Agreeing(Arrivals(control))
  BY Anywhere
<1>3. m0.c = Ctx /\ m0.k = control  BY DEF At
<1>4. b.type = "if" /\ b.arity = 0  OBVIOUS
<1>5. m = IF b.reached \/ Reachable(b) THEN At(Restore(m2.c, m2.k[n].label), m2.k)
          ELSE At(Restore(m0.c, s), m0.k)
  BY DEF FinishOneArmedIf
<1>6. Len(s.stack) = b.base /\ Sound(s, Ctx.spills)  BY <1>1, <1>4 DEF BlockSound
<1>7. Point(s, b.base) \in Arrivals(control)
  <2>1. n \in {i \in 1 .. Len(control) : control[i].type = "if"}  BY <1>1, <1>4
  <2> QED  BY <1>1, <2>1 DEF Arrivals
<1>8. Len(s.stack) = b.base + b.arity  BY <1>1, <1>4, <1>6
<1>9. Onward(m0, m1, X) /\ RunsInto(m1, n, X, s, t)
  BY <1>4, OneArmedMerges
<1> HIDE DEF n, b, m0, m1, m2, t, X
<1>10. CASE ~(b.reached \/ Reachable(b))
  <2>1. m = At(Restore(Ctx, s), control)  BY <1>3, <1>5, <1>10
  <2> DEFINE e == At(Ctx, control)
  <2>2. /\ Good(e.c) /\ e.c.ok = ok /\ Blocks(e.k, e.c.spills)
        /\ SameBlocks(control, e.k) /\ Agreeing(Arrivals(e.k))
        /\ Point(s, b.base) \in Arrivals(e.k) /\ Sound(s, e.c.spills)
        /\ e.c = Ctx /\ e.k = control
    BY <1>2, <1>6, <1>7, SameBlocksReflexive DEF At
  <2> HIDE DEF e, s
  <2>3. Leaving(At(Restore(e.c, s), e.k))  BY <1>8, <2>2, RestoreLeaves DEF b
  <2> QED  BY <2>1, <2>2, <2>3
<1>11. CASE b.reached \/ Reachable(b)
  <2> HIDE DEF s
  <2>1. Onward(m1, m2, X) /\ Landed(m2, n, t)  BY <1>9, FullJoinOnward DEF m2
  <2>2. Good(m1.c) /\ m1.c.ok = ok /\ SameBlocks(control, m1.k)
    BY <1>2, <1>3, <1>9 DEF Onward
  <2>3. /\ Good(m2.c) /\ m2.c.ok = ok /\ Blocks(m2.k, m2.c.spills)
        /\ SameBlocks(control, m2.k) /\ Agreeing(Arrivals(m2.k)) /\ m2.k[n].reached
    BY <2>1, <2>2, OnwardFrom, SameBlocksTransitive DEF Landed
  <2>4. Leaving(At(Restore(m2.c, m2.k[Len(control)].label), m2.k))
    <3>1. Current.type # "loop"  BY <1>4 DEF b
    <3> QED  BY <2>3, <3>1, LabelLeaves DEF n
  <2> QED  BY <1>5, <1>11, <2>4 DEF n
<1> QED  BY <1>10, <1>11

\* What jumped out of the block has chosen a state that the rest can be merged into.
LEMMA LabelSuits ==
  ASSUME IInv, control # <<>>, Current.type \notin {"if", "loop"}, Current.reached,
         NEW s, s = Current.label
  PROVE  /\ Point(s, Current.base) \in Points(Ctx, control)
         /\ Suits(Current, Points(Ctx, control), s, s)
<1> DEFINE n == Len(control)
<1>1. /\ n \in 1 .. n /\ Current = control[n] /\ BlockSound(Current, Ctx.spills)
      /\ s \in Context /\ Points(Ctx, control) = Arrivals(control) \cup Here
  BY EndOfBlock
<1>2. Point(s, Current.base) \in Arrivals(control)
  <2>1. n \in {j \in 1 .. Len(control) : control[j].reached}  BY <1>1
  <2> QED  BY <1>1, <2>1 DEF Arrivals
<1>3. Point(s, Current.base) \in Points(Ctx, control)  BY <1>1, <1>2
<1>4. Suits(Current, Points(Ctx, control), s, s)
  BY <1>1, <1>3 DEF Suits, BlockSound, Sound, Aims
<1> QED  BY <1>3, <1>4

\* pop_control
LEMMA PopControlLeaves ==
  ASSUME IInv, control # <<>>, Closes, Current.type = "if" => Current.arity = 0
  PROVE  Leaving(PopControl(At(Ctx, control)))
<1> DEFINE n == Len(control)
           m0 == At(Ctx, control)
           s == Current.label
           m1 == FallThrough(m0, s)
<1>1. CASE Current.type = "if"
  <2>1. PopControl(m0) = FinishOneArmedIf(m0)  BY <1>1 DEF PopControl
  <2> QED  BY <1>1, <2>1, OneArmedLeaves
<1>2. CASE Current.type = "loop" \/ (Current.type # "if" /\ ~Current.reached)
  <2>1. PopControl(m0) = m0  BY <1>2 DEF PopControl
  <2>2. ParentReached => Live  BY <1>2 DEF ParentReached, Live
  <2> QED  BY <2>1, <2>2, PathLeaves
<1>3. CASE Current.type \notin {"if", "loop"} /\ Current.reached
  <2>1. PopControl(m0) = At(Restore(m1.c, m1.k[n].label), m1.k)  BY <1>3 DEF PopControl
  <2>2. n \in 1 .. n /\ Current = control[n]  BY EndOfBlock
  <2>3. Good(Ctx) /\ Ctx.ok = ok  BY Anywhere
  <2>4. Point(s, Current.base) \in Points(Ctx, control)
        /\ Suits(Current, Points(Ctx, control), s, s)
    BY <1>3, LabelSuits
  <2>5. m0.c = Ctx /\ m0.k = control  BY DEF At
  <2> DEFINE X == Here \cup {Point(s, Current.base)}
  <2> HIDE DEF n, s
  <2>6. Onward(m0, m1, X)  BY <1>3, <2>4, FallThroughOnward
  <2> HIDE DEF X, m0, m1
  <2>7. /\ Good(m1.c) /\ m1.c.ok = ok /\ Blocks(m1.k, m1.c.spills)
        /\ SameBlocks(control, m1.k) /\ Agreeing(Arrivals(m1.k))
    BY <2>3, <2>5, <2>6, OnwardFrom
  <2>8. m1.k[n].reached  BY <1>3, <2>2, <2>7 DEF SameBlocks, n
  <2>9. Leaving(At(Restore(m1.c, m1.k[Len(control)].label), m1.k))
    BY <1>3, <2>7, <2>8, LabelLeaves DEF n
  <2> QED  BY <2>1, <2>9 DEF m0, n
<1> QED  BY <1>1, <1>2, <1>3

\* Where a path reaches the end of a block, the code after it has the results of the
\* block on top of what was there before.
LEMMA EndStep ==
  ASSUME IInv, End
  PROVE  StepSound
<1> DEFINE m == PopControl(At(Ctx, control))
           c == m.c
           k == Outside(m.k)
           n == Len(control)
           x == Current.base
<1>1. /\ n > 1 /\ Closes /\ (Current.type = "if" => Current.arity = 0)
      /\ Proceed(c, k) /\ height' = Current.valid + Current.arity
  BY DEF End
<1>2. control # <<>> /\ control \in Seq(ControlBlock) /\ Blocks(control, Ctx.spills)
  BY <1>1, Anywhere
<1>3. /\ n \in 1 .. n /\ n \in Nat /\ Current = control[n] /\ Current.valid = x
      /\ x \in Nat /\ NumLocals <= x /\ x <= MaxHeight /\ Current.arity \in {0, 1}
  BY <1>2, EndOfBlock
<1>4. Leaving(m)  BY <1>1, <1>2, PopControlLeaves
<1> HIDE DEF m, n, x
<1>5. /\ Good(c) /\ c.ok = ok /\ Blocks(m.k, c.spills) /\ SameBlocks(control, m.k)
      /\ Agreeing(Arrivals(m.k)) /\ (CodeAfterDeadBlock \/ Len(c.stack) >= NumLocals)
      /\ ParentReached => /\ Len(c.stack) = x + Current.arity
                          /\ Agreeing(Arrivals(m.k) \cup {Point(c, x)})
  BY <1>4 DEF Leaving, x
<1>6. Len(m.k) = n /\ Len(m.k) > 1  BY <1>1, <1>5 DEF SameBlocks, n
<1>7. /\ Blocks(k, c.spills) /\ Len(k) = n - 1 /\ Arrivals(k) \in SUBSET Arrivals(m.k)
      /\ (LiveStack(k) <=> ParentReached)
      /\ \A i \in 1 .. n - 1 : k[i].label = m.k[i].label /\ k[i].base = m.k[i].base
  BY <1>5, <1>6, OutsideShape
<1> HIDE DEF k
<1>8. /\ n - 1 \in 1 .. n /\ n - 1 \in 1 .. n - 1 /\ k[n - 1].base \in Nat
      /\ k[n - 1].base <= x /\ k[Len(k)].base = k[n - 1].base
  <2>1. n - 1 \in 1 .. n /\ n - 1 \in 1 .. n - 1 /\ n - 1 <= n  BY <1>1, <1>3
  <2>2. control[n - 1].base \in Nat /\ control[n - 1].base <= control[n].base
    BY <1>2, <1>3, <2>1, BlockShape DEF Blocks, n
  <2>3. k[n - 1].base = control[n - 1].base
    BY <1>5, <1>7, <2>1 DEF SameBlocks, n
  <2> QED  BY <1>3, <1>7, <2>1, <2>2, <2>3 DEF x
<1>9. Level(c, k, height')
  <2> DEFINE y == k[n - 1].base
             a == Current.arity
  <2>1. NumLocals \in Nat /\ MaxHeight \in Nat  BY ControlFlowAssumption, RegsAssumption
  <2>2. height' = x + a /\ a \in {0, 1} /\ y \in Nat /\ y <= x  BY <1>1, <1>3, <1>8
  <2> HIDE DEF y, a
  <2>3. height' \in NumLocals .. MaxHeight + 1 /\ height' >= y
    BY <1>3, <2>1, <2>2
  <2>4. LiveStack(k) => Len(c.stack) = height'  BY <1>5, <1>7, <2>2 DEF a
  <2> QED  BY <1>5, <1>8, <2>3, <2>4 DEF Level, y
<1>10. Agreeing(Points(c, k))
  <2> DEFINE A == Arrivals(m.k)
             y == k[n - 1].base
  <2>1. CASE LiveStack(k)
    <3>1. Agreeing(A \cup {Point(c, x)}) /\ \A p \in A : p.top \in Nat
      BY <1>5, <1>7, <2>1, ArrivalTops
    <3>2. Follows(c, c, NumLocals + 1 .. y)  BY UntouchedFollows
    <3>3. y \in Nat /\ y <= x  BY <1>8
    <3> HIDE DEF A, y
    <3>4. Agreeing(A \cup {Point(c, y)})  BY <1>3, <3>1, <3>2, <3>3, PointMoves
    <3>5. Points(c, k) \in SUBSET (A \cup {Point(c, y)})
      BY <1>7, <1>8, <2>1 DEF Points, A, y
    <3> QED  BY <3>4, <3>5, FewerAgree
  <2>2. CASE ~LiveStack(k)
    <3>1. Points(c, k) \in SUBSET A  BY <1>7, <2>2 DEF Points
    <3>2. Agreeing(A)  BY <1>5
    <3> HIDE DEF A
    <3> QED  BY <3>1, <3>2, FewerAgree
  <2> QED  BY <2>1, <2>2
<1>11. Keeps(control, k)
  <2>1. DOMAIN control = 1 .. n  BY <1>2 DEF n
  <2>2. DOMAIN k = 1 .. n - 1  BY <1>7 DEF Blocks
  <2> QED  BY <1>5, <1>7, <2>1, <2>2 DEF Keeps, SameBlocks, n
<1>12. Concludes(c, k, height')  BY <1>5, <1>7, <1>9, <1>10 DEF Concludes
<1> HIDE DEF c
<1>13. Proceed(c, k) /\ c.ok = ok  BY <1>1, <1>5 DEF c, k
<1> QED  BY <1>11, <1>12, <1>13, StepConcludes

-----------------------------------------------------------------------------
(* The invariant is inductive. *)

\* Every instruction keeps the invariant.
LEMMA NextStep ==
  ASSUME IInv, ~UnreachableInElse, Next
  PROVE  StepSound
<1>1. ASSUME \/ \E v \in Immediates : I32Const(v)
             \/ \E v \in Values : LoadValue(v)
             \/ \E x \in 1 .. NumLocals : GetLocal(x) \/ SetLocal(x)
             \/ Drop
      PROVE  StepSound
  BY <1>1, StraightStep
<1>2. ASSUME NEW arity \in {0, 1}, OpenBlock(arity) \/ OpenLoop(arity) \/ OpenIf(arity)
      PROVE  StepSound
  BY <1>2, OpenBlockStep, OpenLoopStep, OpenIfStep
<1>3. CASE Else  BY <1>3, ElseStep
<1>4. CASE End  BY <1>4, EndStep
<1>5. CASE EndFunction  BY <1>5, EndFunctionStep
<1>6. CASE Return  BY <1>6, ReturnStep
<1>7. CASE Unreachable  BY <1>7, UnreachableStep
<1>8. CASE DropNoResult  BY <1>8, DropNoResultStep
<1>9. ASSUME NEW d \in Labels, Br(d) PROVE StepSound
  BY <1>9, BrStep
<1>10. ASSUME NEW d \in Labels, BrIf(d) PROVE StepSound
  BY <1>10, BrIfStep
<1>11. ASSUME NEW d \in Labels, BrTable({d}, FALSE) PROVE StepSound
  <2> DEFINE D == {d}
             table == FALSE
  <2>1. D \in SUBSET Labels /\ D # {} /\ table \in BOOLEAN /\ BrTable(D, table)
    BY <1>11
  <2> HIDE DEF D, table
  <2> QED  BY <2>1, BrTableStep
<1>12. ASSUME NEW D \in (SUBSET Labels) \ {{}}, BrTable(D, TRUE) PROVE StepSound
  <2> DEFINE table == TRUE
  <2>1. BrTable(D, table)  BY <1>12
  <2>2. D \in SUBSET Labels /\ D # {} /\ table \in BOOLEAN  OBVIOUS
  <2> HIDE DEF table
  <2> QED  BY <2>1, <2>2, BrTableStep
<1> QED
  BY <1>1, <1>2, <1>3, <1>4, <1>5, <1>6, <1>7, <1>8, <1>9, <1>10, <1>11, <1>12 DEF Next

\* A step that changes nothing.
LEMMA Stutters ==
  ASSUME IInv, UNCHANGED vars
  PROVE  StepSound
<1>1. /\ stack' = stack /\ used' = used /\ count' = count /\ last' = last
      /\ spills' = spills /\ ok' = ok /\ regs' = regs /\ mem' = mem
      /\ control' = control /\ height' = height
  <2>1. Code!vars' = Code!vars /\ control' = control /\ height' = height  BY DEF vars
  <2> QED  BY <2>1 DEF Code!vars, Code!cache
<1>2. Ctx' = Ctx  BY <1>1 DEF Ctx, Code!Ctx
<1>3. IInv'  BY <1>1, <1>2 DEF IInv
<1> QED  BY <1>1, <1>3, KeepsItself DEF StepSound

\* Every step, and every stutter.
LEMMA AnyStep ==
  ASSUME IInv, ~UnreachableInElse, [Next]_vars
  PROVE  StepSound
BY NextStep, Stutters

-----------------------------------------------------------------------------
(* The properties. *)

\* What the invariant says of the state.
LEMMA IInvTyped ==
  ASSUME IInv
  PROVE  TypeOK
<1>1. /\ Ctx \in Context /\ Blocks(control, Ctx.spills) /\ control \in Seq(ControlBlock)
      /\ Level(Ctx, control, height)
  BY Anywhere
<1>2. DOMAIN control = 1 .. Len(control)  BY <1>1
<1>3. ASSUME NEW i \in DOMAIN control
      PROVE  /\ control[i].type \in {"block", "loop", "if", "else"}
             /\ control[i].reach \in {"Reachable", "Unreachable", "SpecOnlyReachable"}
             /\ control[i].base \in NumLocals .. MaxHeight /\ control[i].arity \in {0, 1}
             /\ control[i].label \in Context /\ control[i].else \in Context
  <2>1. control[i] \in ControlBlock  BY <1>1
  <2> QED  BY <2>1 DEF ControlBlock
<1>4. States \subseteq Context  BY <1>1, <1>3 DEF States
<1>5. height \in {AnyHeight} \cup NumLocals .. MaxHeight + 1  BY <1>1 DEF Level
<1> QED  BY <1>3, <1>4, <1>5 DEF TypeOK

\* Every state that is kept is sound in the frame of the function.
LEMMA StatesSound ==
  ASSUME IInv
  PROVE  \A s \in States : Sound(s, spills)
<1>1. /\ Good(Ctx) /\ Ctx.spills = spills /\ Blocks(control, spills)
      /\ control \in Seq(ControlBlock)
  BY Anywhere DEF IInv
<1>2. Sound(Ctx, spills)  BY <1>1, SoundIsGood
<1>3. DOMAIN control = 1 .. Len(control)  BY <1>1
<1>4. ASSUME NEW i \in DOMAIN control
      PROVE  Sound(control[i].label, spills) /\ Sound(control[i].else, spills)
  BY <1>1, <1>3, <1>4 DEF Blocks, BlockSound
<1> QED  BY <1>2, <1>4 DEF States

LEMMA IInvCounts ==
  ASSUME IInv
  PROVE  CountsExact
BY StatesSound DEF CountsExact, Sound, Exact

LEMMA IInvFrame ==
  ASSUME IInv
  PROVE  FrameCoversSlots
BY StatesSound DEF FrameCoversSlots, Sound

LEMMA IInvHeights ==
  ASSUME IInv
  PROVE  HeightsAgree
<1>1. /\ Ctx.stack = stack /\ Blocks(control, Ctx.spills) /\ control \in Seq(ControlBlock)
      /\ Level(Ctx, control, height) /\ (Live <=> LiveStack(control))
  BY Anywhere
<1>2. Live => height = Len(stack)  BY <1>1 DEF Level
<1>3. ASSUME NEW i \in DOMAIN control, control[i].reached
      PROVE  Height(control[i].label) =
               control[i].base + (IF control[i].type = "loop" THEN 0 ELSE control[i].arity)
  <2>1. i \in 1 .. Len(control)  BY <1>1
  <2>2. BlockSound(control[i], Ctx.spills)  BY <1>1, <2>1 DEF Blocks
  <2> QED  BY <1>3, <2>2 DEF BlockSound, Results, Height
<1> QED  BY <1>2, <1>3 DEF HeightsAgree

-----------------------------------------------------------------------------
(* Theorems.  The constants leave out two things that the code gets wrong and the *)
(* runs show: the first function of a module, and unreachable in an else arm.     *)

\* IInv holds in every state.
THEOREM Inductive ==
  ASSUME ~FirstFunction, ~UnreachableInElse
  PROVE  Spec => []IInv
<1>1. Init => IInv  BY InitInvariant
<1>2. IInv /\ [Next]_vars => IInv'  BY AnyStep DEF StepSound
<1> QED  BY <1>1, <1>2, PTL DEF Spec

\* The compiler's state, and every state that is kept for a label or an arm, has its
\* type.
THEOREM TypeCorrect ==
  ASSUME ~FirstFunction, ~UnreachableInElse
  PROVE  Spec => []TypeOK
<1>1. Spec => []IInv  BY Inductive
<1>2. IInv => TypeOK  BY IInvTyped
<1> QED  BY <1>1, <1>2, PTL

\* The use counts are right in every state that the compiler may come back to.
THEOREM CountsAreExact ==
  ASSUME ~FirstFunction, ~UnreachableInElse
  PROVE  Spec => []CountsExact
<1>1. Spec => []IInv  BY Inductive
<1>2. IInv => CountsExact  BY IInvCounts
<1> QED  BY <1>1, <1>2, PTL

\* The frame of the function reaches every slot that is read from it.
THEOREM FrameIsCovered ==
  ASSUME ~FirstFunction, ~UnreachableInElse
  PROVE  Spec => []FrameCoversSlots
<1>1. Spec => []IInv  BY Inductive
<1>2. IInv => FrameCoversSlots  BY IInvFrame
<1> QED  BY <1>1, <1>2, PTL

\* The compiler and the validator agree on the height wherever code runs, and every
\* label that was reached has the height its block asks for.
THEOREM HeightsDoAgree ==
  ASSUME ~FirstFunction, ~UnreachableInElse
  PROVE  Spec => []HeightsAgree
<1>1. Spec => []IInv  BY Inductive
<1>2. IInv => HeightsAgree  BY IInvHeights
<1> QED  BY <1>1, <1>2, PTL

\* A label once reached keeps its slots where the first jump has put them.
THEOREM LabelsStayFixed ==
  ASSUME ~FirstFunction, ~UnreachableInElse
  PROVE  Spec => LabelsFixed
<1>1. IInv /\ [Next]_vars =>
        [\A i \in DOMAIN control \cap DOMAIN control' :
           control[i].reached => control'[i].label.stack = control[i].label.stack]_vars
  BY AnyStep DEF StepSound, Keeps
<1>2. Spec => []IInv  BY Inductive
<1> QED  BY <1>1, <1>2, PTL DEF Spec, LabelsFixed

\* No assert of a handler, a merge or a return fails while code is compiled that a
\* path gets to.
THEOREM OnlyDeadCodeFails ==
  ASSUME ~FirstFunction, ~UnreachableInElse
  PROVE  Spec => [][ok' = ok \/ ~Live]_vars
<1>1. IInv /\ [Next]_vars => [ok' = ok \/ ~Live]_vars
  BY AnyStep DEF StepSound
<1>2. Spec => []IInv  BY Inductive
<1> QED  BY <1>1, <1>2, PTL DEF Spec

\* No assert fails at all if nothing follows a block that never ends, in a function
\* whose locals are as many as its results.
THEOREM AssertsDoHold ==
  ASSUME ~FirstFunction, ~UnreachableInElse, ~CodeAfterDeadBlock, Arity <= NumLocals
  PROVE  Spec => []AssertsHold
<1>1. Init => AssertsHold  BY DEF Init, Code!Init, AssertsHold
<1>2. IInv /\ AssertsHold /\ [Next]_vars => AssertsHold'
  <2> SUFFICES ASSUME IInv, ok, [Next]_vars PROVE ok'
    BY DEF AssertsHold
  <2>1. ~(Arity > NumLocals)  BY ControlFlowAssumption
  <2>2. StepSound  BY AnyStep
  <2> QED  BY <2>1, <2>2 DEF StepSound
<1>3. Spec => []IInv  BY Inductive
<1> QED  BY <1>1, <1>2, <1>3, PTL DEF Spec

-----------------------------------------------------------------------------
(* What the paths compute. *)

\* g has what was below in frame f and what was on top.
Remains(f, base, n, g) ==
  /\ Len(g) = base + n
  /\ \A d \in 1 .. base + n : g[d] = f[IF d <= base THEN d ELSE Len(f) - (base + n) + d]

\* That is what is left of a frame when n values leave a block.
LEMMA LeaveShape ==
  ASSUME NEW V, NEW f \in Seq(V), NEW base \in Nat, NEW n \in Nat, base + n <= Len(f)
  PROVE  Wasm!Leave(f, base, n) \in Seq(V) /\ Remains(f, base, n, Wasm!Leave(f, base, n))
<1> DEFINE a == SubSeq(f, 1, base)
           b == SubSeq(f, Len(f) - n + 1, Len(f))
           m == Len(f) - n
<1>1. Len(f) \in Nat /\ base \in 0 .. Len(f) /\ m \in 0 .. Len(f) /\ Len(f) - m = n
  BY LenProperties
<1>2. a \in Seq(V) /\ Len(a) = base /\ \A i \in 1 .. base : a[i] = f[i]
  BY <1>1, PrefixShape
<1>3. b \in Seq(V) /\ Len(b) = n /\ \A i \in 1 .. n : b[i] = f[m + i]
  <2>1. b = SubSeq(f, m + 1, Len(f))
    <3>1. Len(f) - n + 1 = m + 1  OBVIOUS
    <3> QED  BY <3>1 DEF b
  <2> HIDE DEF b, m
  <2>2. /\ SubSeq(f, m + 1, Len(f)) \in Seq(V) /\ Len(SubSeq(f, m + 1, Len(f))) = Len(f) - m
        /\ \A i \in 1 .. Len(f) - m : SubSeq(f, m + 1, Len(f))[i] = f[m + i]
    BY <1>1, SuffixShape
  <2> QED  BY <1>1, <2>1, <2>2
<1>4. Wasm!Leave(f, base, n) = a \o b  BY DEF Wasm!Leave
<1>5. m = Len(f) - n  OBVIOUS
<1> HIDE DEF a, b, m
<1>6. /\ a \o b \in Seq(V) /\ Len(a \o b) = Len(a) + Len(b)
      /\ \A i \in 1 .. Len(a) + Len(b) :
           (a \o b)[i] = IF i <= Len(a) THEN a[i] ELSE b[i - Len(a)]
  BY <1>2, <1>3, ConcatProperties
<1>7. ASSUME NEW d \in 1 .. base + n
      PROVE  (a \o b)[d] = f[IF d <= base THEN d ELSE Len(f) - (base + n) + d]
  <2>1. (a \o b)[d] = IF d <= base THEN a[d] ELSE b[d - base]  BY <1>2, <1>3, <1>6
  <2>2. CASE d <= base
    <3>1. d \in 1 .. base  BY <2>2
    <3> QED  BY <1>2, <2>1, <2>2, <3>1
  <2>3. CASE ~(d <= base)
    <3>1. d - base \in 1 .. n /\ m + (d - base) = Len(f) - (base + n) + d  BY <1>1, <1>5, <2>3
    <3>2. b[d - base] = f[m + (d - base)]  BY <1>3, <3>1
    <3> QED  BY <2>1, <2>3, <3>1, <3>2
  <2> QED  BY <2>2, <2>3
<1>8. Len(a \o b) = base + n  BY <1>2, <1>3, <1>6
<1> QED  BY <1>4, <1>6, <1>7, <1>8 DEF Remains

\* The whole of a frame is left when nothing is in between.
LEMMA LeaveAll ==
  ASSUME NEW V, NEW f \in Seq(V), NEW base \in Nat, NEW n \in Nat, Len(f) = base + n
  PROVE  Wasm!Leave(f, base, n) = f
<1> DEFINE g == Wasm!Leave(f, base, n)
<1>1. g \in Seq(V) /\ Remains(f, base, n, g)
  <2>1. base + n <= Len(f)  BY LenProperties
  <2> QED  BY <2>1, LeaveShape
<1> HIDE DEF g
<1>2. \A d \in 1 .. Len(g) : g[d] = f[d]
  <2> TAKE d \in 1 .. Len(g)
  <2>1. d \in 1 .. base + n  BY <1>1 DEF Remains
  <2>2. Len(f) - (base + n) + d = d  BY <2>1
  <2> QED  BY <1>1, <2>1, <2>2 DEF Remains
<1>3. Len(g) = Len(f)  BY <1>1 DEF Remains
<1>4. g = f  BY <1>1, <1>2, <1>3, SeqEqual
<1> QED  BY <1>4 DEF g

\* What is kept of a state holds what the state held.
LEMMA KeptContents ==
  ASSUME NEW c \in Context, Len(c.stack) <= MaxHeight
  PROVE  Contents(Kept(c)) = Contents(c)
<1> DEFINE e == Kept(c)
           g == LiveRegs(c)
           w == LiveMem(c)
<1>1. g \in [Regs -> Values \cup {Junk}] /\ w \in [Frame -> Values \cup {Junk}]
  BY ContextShape DEF LiveRegs, LiveMem
<1>2. e = [c EXCEPT !.spills = 0, !.ok = TRUE, !.regs = g, !.mem = w]  BY DEF Kept
<1> HIDE DEF g, w, e
<1>3. e.stack = c.stack /\ e.regs = g /\ e.mem = w  BY <1>2 DEF Context
<1>4. Contents(e) = Contents(c)  BY <1>3, LiveContents DEF g, w
<1> QED  BY <1>4 DEF e

\* The slots of a target that live in register r, and the one whose value is loaded.
Into(t, r)   == {d \in DOMAIN t.stack : t.stack[d] = RegSlot(r)}
Loaded(t, r) == CHOOSE d \in Into(t, r) : TRUE

\* What slot d of the target is to hold.
Taken(s, t, arity, d) == ValueAt(s, SourceOf(s, Height(t), arity, d))

\* What a merge leaves in every slot.
LEMMA MergeShape ==
  ASSUME NEW s \in Context, NEW t \in Context, NEW base \in Nat, NEW arity \in Nat,
         Len(t.stack) = base + arity, Len(t.stack) <= Len(s.stack), Len(s.stack) <= MaxHeight
  PROVE  /\ Merge(s, t, arity) \in Context /\ Merge(s, t, arity).stack = t.stack
         /\ \A r \in Regs : Into(t, r) # {} =>
              Merge(s, t, arity).regs[r] = Taken(s, t, arity, Loaded(t, r))
         /\ \A d \in DOMAIN t.stack : t.stack[d] = StackSlot =>
              Merge(s, t, arity).mem[d] = Taken(s, t, arity, d)
<1> DEFINE from(d) == Taken(s, t, arity, d)
           g == [r \in Regs |-> IF Into(t, r) = {} THEN Junk ELSE from(Loaded(t, r))]
           w == [i \in Frame |-> IF i \in DOMAIN t.stack /\ t.stack[i] = StackSlot
                                 THEN from(i) ELSE Junk]
           m == Merge(s, t, arity)
<1>1. m = [t EXCEPT !.regs = g, !.mem = w]  BY DEF Merge, Taken, Into, Loaded
<1>2. /\ DOMAIN t.stack = 1 .. Len(t.stack) /\ DOMAIN s.stack = 1 .. Len(s.stack)
      /\ Len(s.stack) \in Nat /\ DOMAIN t.stack \subseteq Frame
  BY ContextShape, RegsAssumption DEF Frame
<1>3. \A d \in DOMAIN t.stack : from(d) \in Values \cup {Junk}
  BY <1>2, SourceShape, ValueAtTyped DEF Taken
<1> HIDE DEF from
<1>4. \A r \in Regs : Into(t, r) # {} => Loaded(t, r) \in DOMAIN t.stack  BY DEF Into, Loaded
<1> HIDE DEF m
<1>5. /\ g \in [Regs -> Values \cup {Junk}] /\ w \in [Frame -> Values \cup {Junk}]
      /\ \A r \in Regs : Into(t, r) # {} => g[r] = from(Loaded(t, r))
      /\ \A d \in DOMAIN t.stack : t.stack[d] = StackSlot => w[d] = from(d)
  BY <1>2, <1>3, <1>4
<1> HIDE DEF g, w
<1>6. m \in Context /\ m.stack = t.stack /\ m.regs = g /\ m.mem = w
  BY <1>1, <1>5 DEF Context
<1> QED  BY <1>5, <1>6 DEF from, m

\* Every slot of the target gets the value of the slot it comes from.
LEMMA MergeValues ==
  ASSUME NEW s \in Context, NEW t \in Context, NEW base \in Nat, NEW arity \in Nat,
         Len(t.stack) = base + arity, Len(t.stack) <= Len(s.stack), Len(s.stack) <= MaxHeight,
         Mergeable(s, t, arity), NEW d \in 1 .. Len(t.stack)
  PROVE  ValueAt(Merge(s, t, arity), d) = ValueAt(s, SourceOf(s, Height(t), arity, d))
<1> DEFINE src(e) == SourceOf(s, Height(t), arity, e)
           m == Merge(s, t, arity)
           slot == t.stack[d]
           has(e) == Taken(s, t, arity, e)
<1>1. /\ m.stack = t.stack
      /\ \A r \in Regs : Into(t, r) # {} => m.regs[r] = has(Loaded(t, r))
      /\ \A e \in DOMAIN t.stack : t.stack[e] = StackSlot => m.mem[e] = has(e)
  BY MergeShape
<1>2. DOMAIN t.stack = 1 .. Len(t.stack) /\ \A e \in 1 .. Len(t.stack) : t.stack[e] \in Slot
  BY ContextShape
<1>3. /\ slot.loc = "const" => s.stack[src(d)] = slot
      /\ \A e \in DOMAIN t.stack :
           d # e /\ slot.loc = "reg" /\ slot = t.stack[e] => SameSource(s, src(d), src(e))
  BY <1>2 DEF Mergeable
<1> HIDE DEF src, m, has
<1>4. CASE slot.loc = "const"
  <2>1. ValueAt(m, d) = slot.val /\ ValueAt(s, src(d)) = slot.val
    BY <1>1, <1>3, <1>4 DEF ValueAt
  <2> QED  BY <2>1 DEF src, m
<1>5. CASE slot.loc = "stack"
  <2>1. slot = StackSlot  BY <1>2, <1>5, InFrameIsStackSlot
  <2>2. m.mem[d] = has(d) /\ ValueAt(m, d) = m.mem[d]
    BY <1>1, <1>2, <1>5, <2>1 DEF ValueAt
  <2>3. has(d) = ValueAt(s, src(d))  BY DEF has, src, Taken
  <2> QED  BY <2>2, <2>3 DEF src, m
<1>6. CASE slot.loc = "reg"
  <2> DEFINE r == slot.reg
             e == Loaded(t, r)
  <2>1. r \in Regs /\ slot = RegSlot(r)  BY <1>2, <1>6, SlotShape
  <2>2. d \in Into(t, r)  BY <1>2, <2>1 DEF Into
  <2>3. e \in Into(t, r)  BY <2>2 DEF Loaded
  <2>4. e \in DOMAIN t.stack /\ t.stack[e] = slot  BY <2>1, <2>3 DEF Into
  <2>5. m.regs[r] = has(e)  BY <1>1, <2>1, <2>2
  <2> HIDE DEF e
  <2>6. has(e) = ValueAt(s, src(e))  BY DEF has, src, Taken
  <2>7. ValueAt(m, d) = m.regs[r]  BY <1>1, <1>6 DEF ValueAt
  <2>8. ValueAt(s, src(d)) = ValueAt(s, src(e))
    <3>1. CASE d = e  BY <3>1
    <3>2. CASE d # e
      <4>1. SameSource(s, src(d), src(e))  BY <1>3, <1>6, <2>4, <3>2
      <4> QED  BY <4>1, OneSourceOneValue
    <3> QED  BY <3>1, <3>2
  <2> QED  BY <2>5, <2>6, <2>7, <2>8 DEF src, m
<1>7. slot.loc \in {"stack", "reg", "const"}  BY <1>2, SlotShape
<1> QED  BY <1>4, <1>5, <1>6, <1>7

\* A path that is merged into a label takes along what the label takes, and what
\* was on the stack when the block began.
LEMMA MergeContents ==
  ASSUME NEW s \in Context, NEW t \in Context, NEW base \in Nat, NEW arity \in Nat,
         Len(t.stack) = base + arity, Len(t.stack) <= Len(s.stack), Len(s.stack) <= MaxHeight,
         Mergeable(s, t, arity)
  PROVE  Contents(Kept(Merge(s, t, arity))) = Wasm!Leave(Contents(s), base, arity)
<1> DEFINE m == Merge(s, t, arity)
           V == Values \cup {Junk}
           f == Contents(s)
           g == Wasm!Leave(f, base, arity)
           h == Contents(m)
           L == Len(s.stack)
           H == Len(t.stack)
<1>1. L \in Nat /\ H \in Nat /\ H <= L /\ H = base + arity /\ L <= MaxHeight /\ MaxHeight \in Nat
  BY ContextShape, RegsAssumption
<1>2. m \in Context /\ m.stack = t.stack  BY MergeShape
<1>3. \A d \in 1 .. H : ValueAt(m, d) = ValueAt(s, SourceOf(s, H, arity, d))
  BY MergeValues DEF Height
<1> HIDE DEF m
<1>4. h \in Seq(V) /\ Len(h) = H /\ \A d \in 1 .. H : h[d] = ValueAt(m, d)
  <2>1. Len(m.stack) <= MaxHeight  BY <1>1, <1>2
  <2> QED  BY <1>2, <2>1, ContentsTyped
<1>5. f \in Seq(V) /\ Len(f) = L /\ \A i \in 1 .. L : f[i] = ValueAt(s, i)
  BY <1>1, ContentsTyped
<1> HIDE DEF f, h, V, L, H
<1>6. g \in Seq(V) /\ Remains(f, base, arity, g)
  <2>1. base + arity <= Len(f)  BY <1>1, <1>5
  <2> QED  BY <1>5, <2>1, LeaveShape
<1> HIDE DEF g
<1>7. \A d \in 1 .. Len(h) : h[d] = g[d]
  <2> TAKE d \in 1 .. Len(h)
  <2> DEFINE i == IF d <= base THEN d ELSE L - (base + arity) + d
  <2>1. d \in 1 .. H /\ d \in 1 .. base + arity  BY <1>1, <1>4
  <2>2. g[d] = f[i]  BY <1>5, <1>6, <2>1 DEF Remains
  <2>3. SourceOf(s, H, arity, d) = i
    <3>1. H - arity = base  BY <1>1
    <3> QED  BY <1>1, <2>1, <3>1 DEF SourceOf, Height, L
  <2>4. i \in 1 .. L  BY <1>1, <2>1
  <2> HIDE DEF i
  <2>5. h[d] = ValueAt(s, i)  BY <1>3, <1>4, <2>1, <2>3
  <2> QED  BY <1>5, <2>2, <2>4, <2>5
<1>8. Len(g) = Len(h)  BY <1>1, <1>4, <1>6 DEF Remains
<1>9. h = g  BY <1>4, <1>6, <1>7, <1>8, SeqEqual
<1>10. Contents(Kept(m)) = h
  <2>1. Len(m.stack) <= MaxHeight  BY <1>1, <1>2 DEF H
  <2> QED  BY <1>2, <2>1, KeptContents DEF h
<1> QED  BY <1>9, <1>10 DEF m, g, f

\* The path and the scopes that go with a context and a control stack.
PathOf(c, k) == IF LiveStack(k) THEN Contents(c) ELSE <<>>
ScopesOf(k)  == [i \in DOMAIN k |-> Scope(k[i])]

\* Those of the current state ...
LEMMA PathsNow ==
  /\ Path = PathOf(Ctx, control) /\ Scopes = ScopesOf(control) /\ Live = LiveStack(control)
  /\ Live => Path = Contents(Ctx)
  /\ ~Live => Path = <<>>
BY DEF Path, PathOf, Scopes, ScopesOf, Live, LiveStack, Current, Frame0, Contents

\* ... and those that a handler leaves.
LEMMA PathsNext ==
  ASSUME NEW c \in Context, NEW k, Proceed(c, k)
  PROVE  /\ control' = k /\ Live' = LiveStack(k)
         /\ Path' = PathOf(c, k) /\ Scopes' = ScopesOf(k)
         /\ LiveStack(k) => Path' = Contents(c)
         /\ ~LiveStack(k) => Path' = <<>>
<1>1. control' = k  BY DEF Proceed
<1>2. Live' = LiveStack(k)  BY <1>1 DEF Live, LiveStack, Current
<1>3. Scopes' = ScopesOf(k)  BY <1>1 DEF Scopes, ScopesOf, Scope
<1>4. Path' = IF LiveStack(k) THEN Contents(Ctx') ELSE <<>>
  BY <1>2 DEF Path, Frame0, Contents
<1>5. ASSUME LiveStack(k) PROVE Contents(Ctx') = Contents(c)
  <2>1. Code!Become(c)  BY <1>5 DEF Proceed, LiveStack
  <2>2. Ctx' = Settled(c) /\ Len(c.stack) <= MaxHeight  BY <2>1, Becomes
  <2> DEFINE e == Settled(c)
  <2>3. Same(c, e) /\ e.regs = LiveRegs(c) /\ e.mem = LiveMem(c)  BY SettledSame
  <2> HIDE DEF e
  <2>4. Contents(e) = Contents(c)  BY <2>2, <2>3, LiveContents DEF Same
  <2> QED  BY <2>2, <2>4 DEF e
<1> QED  BY <1>1, <1>2, <1>3, <1>4, <1>5 DEF PathOf

\* Where the code ends or no path goes on there is nothing to hold.
LEMMA DeadNext ==
  ASSUME NEW c, NEW k, Proceed(c, k), ~LiveStack(k)
  PROVE  control' = k /\ Live' = FALSE /\ Path' = <<>> /\ Scopes' = ScopesOf(k)
<1>1. control' = k  BY DEF Proceed
<1>2. Live' = FALSE  BY <1>1 DEF Live, LiveStack, Current
<1>3. Scopes' = ScopesOf(k)  BY <1>1 DEF Scopes, ScopesOf, Scope
<1>4. Path' = <<>>  BY <1>2 DEF Path
<1> QED  BY <1>1, <1>2, <1>3, <1>4

\* The instruction is the one that the code reports.
LEMMA Emits ==
  ASSUME NEW k, NEW args, Code!Emit(k, args)
  PROVE  Wasm!Body!Does(k, args)
BY DEF Code!Emit, Wasm!Body!Does, Wasm!Body!Effect

\* What a path holds where an instruction with n operands is compiled.
LEMMA PathHolds ==
  ASSUME IInv, NEW n \in Nat, Compiles(n)
  PROVE  /\ Live /\ Path = Contents(Ctx) /\ Path \in Seq(Values \cup {Junk})
         /\ Len(Path) = Len(stack) /\ Len(stack) \in Nat /\ NumLocals \in Nat
         /\ Wasm!Body!Operands >= n /\ Wasm!Body!Operands = Len(stack) - NumLocals
         /\ \A i \in 1 .. Len(stack) : Path[i] = ValueAt(Ctx, i)
<1>1. /\ Fits(Ctx) /\ Ctx.stack = stack /\ Len(stack) \in Nat /\ NumLocals + n <= Len(stack)
      /\ NumLocals \in Nat
  BY CompiledAbove
<1>2. Live  BY Compiled
<1>3. Path = Contents(Ctx)  BY <1>2, PathsNow
<1>4. /\ Path \in Seq(Values \cup {Junk}) /\ Len(Path) = Len(stack)
      /\ \A i \in 1 .. Len(stack) : Path[i] = ValueAt(Ctx, i)
  BY <1>1, <1>3, ContentsShape
<1>5. Wasm!Body!Operands = Len(stack) - NumLocals  BY <1>4 DEF Wasm!Body!Operands
<1> QED  BY <1>1, <1>2, <1>3, <1>4, <1>5

\* A handler of the straight line goes on with the context it computes.
LEMMA StraightNext ==
  ASSUME IInv, NEW n \in {0, 1}, NEW p \in {0, 1}, NEW c, Straight(n, p, c), Good(c)
  PROVE  /\ Compiles(n) /\ Fits(c) /\ Path' = Contents(c)
         /\ UNCHANGED <<Live, Scopes>>
<1>1. Compiles(n) /\ Code!Become(c) /\ control' = control  BY DEF Straight
<1>2. LiveStack(control) /\ Live  BY <1>1, Compiled
<1>3. c \in Context /\ Len(c.stack) <= MaxHeight  BY <1>1, Becomes DEF Good
<1>4. Proceed(c, control)
  <2> DEFINE e == IF control # <<>> /\ Reachable(control[Len(control)]) THEN c
                  ELSE [c EXCEPT !.regs = NoRegs, !.mem = NoFrame]
  <2>1. e = c  BY <1>2 DEF LiveStack
  <2> HIDE DEF e
  <2>2. Code!Become(e)  BY <1>1, <2>1
  <2> QED  BY <1>1, <2>2 DEF Proceed, e
<1>5. Path' = Contents(c) /\ Live' = LiveStack(control) /\ Scopes' = ScopesOf(control)
  BY <1>2, <1>3, <1>4, PathsNext
<1> QED  BY <1>1, <1>2, <1>3, <1>5, PathsNow DEF Fits

\* It replaces n operands by the values vs.
LEMMA StraightReplaces ==
  ASSUME IInv, NEW n \in {0, 1}, NEW p \in {0, 1}, NEW c, Straight(n, p, c), Good(c),
         NEW vs \in Seq(Values \cup {Junk}), Replaced(Ctx, c, n, vs),
         NEW k, NEW args, Code!Emit(k, args)
  PROVE  Wasm!Body!Step(k, args, n, vs) /\ Live /\ UNCHANGED <<Live, Scopes>>
<1>1. Compiles(n) /\ Fits(c) /\ Path' = Contents(c) /\ UNCHANGED <<Live, Scopes>>
  BY StraightNext
<1>2. /\ Live /\ Path = Contents(Ctx) /\ Len(Path) = Len(stack) /\ Len(stack) \in Nat
      /\ Wasm!Body!Operands >= n /\ NumLocals \in Nat
      /\ Wasm!Body!Operands = Len(stack) - NumLocals
  BY <1>1, PathHolds
<1>3. Fits(Ctx) /\ Ctx.stack = stack  BY <1>1, CompiledAbove
<1>4. n \in 0 .. Len(Ctx.stack)  BY <1>2, <1>3
<1>5. Path' = SubSeq(Path, 1, Len(Path) - n) \o vs
  BY <1>1, <1>2, <1>3, <1>4, ContentsReplaced
<1>6. Len(Path) - n + Len(vs) <= MaxHeight
  BY <1>1, <1>2, <1>3, FitsShape DEF Replaced
<1>7. Wasm!Body!Does(k, args)  BY Emits
<1>8. Path' = Wasm!Body!Keep(n) \o vs  BY <1>5 DEF Wasm!Body!Keep
<1> QED  BY <1>1, <1>2, <1>6, <1>7, <1>8 DEF Wasm!Body!Step

\* One value is pushed.
LEMMA StraightPushes ==
  ASSUME IInv, NEW c, Straight(0, 1, c), Good(c), NEW v \in Values \cup {Junk},
         Len(c.stack) = Len(Ctx.stack) + 1, Intact(Ctx, c, DOMAIN Ctx.stack),
         ValueAt(c, Len(Ctx.stack) + 1) = v, NEW k, NEW args, Code!Emit(k, args)
  PROVE  Wasm!Body!Step(k, args, 0, <<v>>) /\ Live /\ UNCHANGED <<Live, Scopes>>
<1> DEFINE vs == <<v>>
<1>1. Good(Ctx)  BY CompiledAbove DEF Straight
<1>2. Replaced(Ctx, c, 0, vs)  BY <1>1, ExtendedReplaced
<1>3. vs \in Seq(Values \cup {Junk})  OBVIOUS
<1> HIDE DEF vs
<1>4. Wasm!Body!Step(k, args, 0, vs) /\ Live /\ UNCHANGED <<Live, Scopes>>
  BY <1>2, <1>3, StraightReplaces
<1> QED  BY <1>4 DEF vs

\* Constants, globals, locals, drop.
LEMMA StraightMeans ==
  ASSUME IInv,
         \/ \E v \in Immediates : I32Const(v)
         \/ \E v \in Values : LoadValue(v)
         \/ \E x \in 1 .. NumLocals : GetLocal(x) \/ SetLocal(x)
         \/ Drop
  PROVE  Wasm!Straight
<1>0. Choice({})  BY OneMoreRegister
<1>1. ASSUME NEW n \in {0, 1}, Compiles(n)
      PROVE  /\ Fits(Ctx) /\ Good(Ctx) /\ Ctx \in Context /\ Ctx.stack = stack
             /\ Len(stack) \in Nat /\ DOMAIN stack = 1 .. Len(stack)
             /\ NumLocals \in Nat /\ NumLocals + n <= Len(stack)
             /\ Path = Contents(Ctx) /\ Path \in Seq(Values \cup {Junk})
             /\ Len(Path) = Len(stack) /\ Wasm!Body!Operands >= n
             /\ \A i \in 1 .. Len(stack) : Path[i] = ValueAt(Ctx, i)
  BY <1>1, CompiledAbove, PathHolds, FitsShape
<1>2. ASSUME NEW v \in Immediates, I32Const(v) PROVE Wasm!Straight
  <2> DEFINE c == PushConst(Ctx, v)
             s == ConstSlot(v)
             I == DOMAIN Ctx.stack
  <2>1. Straight(0, 1, c) /\ Compiles(0) /\ Code!Emit("const", <<v>>)
    BY <1>2 DEF I32Const, Straight
  <2>2. v \in Values  BY ControlFlowAssumption
  <2>3. Good(c) /\ Len(c.stack) = Len(Ctx.stack) + 1  BY <1>1, <2>1, <2>2, PushConstGood
  <2>4. c = Push(Ctx, s) /\ s \in Slot /\ s.loc = "const" /\ s.val = v
    BY <2>2, SlotsAreSlots DEF PushConst, ConstSlot
  <2>5. I \in SUBSET (DOMAIN Ctx.stack)  OBVIOUS
  <2> HIDE DEF c, s, I
  <2>6. Intact(Ctx, c, I) /\ ValueAt(c, Len(Ctx.stack) + 1) = v
    BY <1>1, <2>1, <2>4, <2>5, PushIntact
  <2>7. Wasm!Body!Step("const", <<v>>, 0, <<v>>) /\ Live /\ UNCHANGED <<Live, Scopes>>
    BY <2>1, <2>2, <2>3, <2>6, StraightPushes DEF I
  <2> QED  BY <2>2, <2>7 DEF Wasm!Straight, Wasm!Body!Produce
<1>3. ASSUME NEW v \in Values, LoadValue(v) PROVE Wasm!Straight
  <2> DEFINE c == LoadedValue(Ctx, v)
  <2>1. Straight(0, 1, c) /\ Compiles(0) /\ Code!Emit("const", <<v>>)
    BY <1>3 DEF LoadValue, Straight
  <2>2. Good(c) /\ Len(c.stack) = Len(Ctx.stack) + 1
    BY <1>0, <1>1, <2>1, LoadedValueGood
  <2>3. Intact(Ctx, c, DOMAIN Ctx.stack) /\ ValueAt(c, Len(Ctx.stack) + 1) = v
    BY <1>0, <1>1, <2>1, LoadedValueIntact
  <2> HIDE DEF c
  <2>4. Wasm!Body!Step("const", <<v>>, 0, <<v>>) /\ Live /\ UNCHANGED <<Live, Scopes>>
    BY <2>1, <2>2, <2>3, StraightPushes
  <2> QED  BY <2>4 DEF Wasm!Straight, Wasm!Body!Produce
<1>4. ASSUME NEW x \in 1 .. NumLocals, GetLocal(x) PROVE Wasm!Straight
  <2> DEFINE c == CopyLocal(Ctx, x)
             v == ValueAt(Ctx, x)
  <2>1. Straight(0, 1, c) /\ Compiles(0) /\ Code!Emit("get_local", <<x>>)
    BY <1>4 DEF GetLocal, Straight
  <2>2. x \in DOMAIN Ctx.stack /\ Path[x] = v  BY <1>1, <2>1
  <2>3. v \in Values \cup {Junk}  BY <1>1, <2>1, <2>2, ValueAtTyped, FitsShape
  <2>4. Good(c) /\ Len(c.stack) = Len(Ctx.stack) + 1
    BY <1>0, <1>1, <2>1, <2>2, CopyLocalGood
  <2>5. Intact(Ctx, c, DOMAIN Ctx.stack) /\ ValueAt(c, Len(Ctx.stack) + 1) = v
    BY <1>0, <1>1, <2>1, <2>2, CopyLocalIntact
  <2> HIDE DEF c, v
  <2>6. Wasm!Body!Step("get_local", <<x>>, 0, <<v>>) /\ Live /\ UNCHANGED <<Live, Scopes>>
    BY <2>1, <2>3, <2>4, <2>5, StraightPushes
  <2> QED  BY <2>2, <2>6 DEF Wasm!Straight, Wasm!Body!GetLocal
<1>5. ASSUME NEW x \in 1 .. NumLocals, SetLocal(x) PROVE Wasm!Straight
  <2> DEFINE tee == FALSE
             c == SetLocalImpl(Ctx, x, tee)
             L == Len(Ctx.stack)
             m == L - 1
  <2>1. Straight(1, 0, c) /\ Compiles(1) /\ Code!Emit("set_local", <<x>>)
    BY <1>5 DEF SetLocal, Straight
  <2>2. x \in 1 .. L - 1 /\ m \in 0 .. L /\ x \in 1 .. m /\ L \in Nat /\ L = Len(Path)
    BY <1>1, <2>1
  <2>3. tee \in BOOLEAN /\ ~tee  OBVIOUS
  <2> HIDE DEF tee
  <2>4. Good(c) /\ Len(c.stack) = m /\ Assigned(Ctx, c, x, 1 .. m)
    BY <1>0, <1>1, <2>1, <2>2, <2>3, SetLocalGood, SetLocalAssigned
  <2> HIDE DEF c, m
  <2>5. Fits(c) /\ Path' = Contents(c) /\ UNCHANGED <<Live, Scopes>>
    BY <2>1, <2>4, StraightNext
  <2>6. Path' = [SubSeq(Path, 1, m) EXCEPT ![x] = Path[Len(Path)]]
    BY <1>1, <2>1, <2>2, <2>4, <2>5, ContentsAssigned
  <2>7. Wasm!Body!Operand(1) = Path[Len(Path)] /\ Wasm!Body!Keep(1) = SubSeq(Path, 1, m)
    <3>1. Len(Path) + 1 - 1 = Len(Path) /\ Len(Path) - 1 = m  BY <2>2 DEF m
    <3> QED  BY <3>1 DEF Wasm!Body!Operand, Wasm!Body!Keep
  <2>8. Wasm!Body!Does("set_local", <<x>>)  BY <2>1, Emits
  <2>9. Live /\ Wasm!Body!Operands >= 1  BY <2>1, PathHolds
  <2> QED  BY <2>5, <2>6, <2>7, <2>8, <2>9 DEF Wasm!Straight, Wasm!Body!SetLocal
<1>6. ASSUME Drop PROVE Wasm!Straight
  <2> DEFINE c == DropTop(Ctx)
             vs == <<>>
             L == Len(Ctx.stack)
  <2>1. Straight(1, 0, c) /\ Compiles(1) /\ Code!Emit("drop", <<>>)
    BY <1>6 DEF Drop, Straight
  <2>2. L > 0 /\ L \in Nat  BY <1>1, <2>1
  <2>3. Good(c) /\ Len(c.stack) = L - 1 /\ Intact(Ctx, c, 1 .. L - 1)
    BY <1>1, <2>1, <2>2, DropTopGood, DropTopIntact
  <2>4. vs \in Seq(Values \cup {Junk}) /\ Len(vs) = 0  OBVIOUS
  <2> HIDE DEF c, vs
  <2>5. Replaced(Ctx, c, 1, vs)
    <3>1. Len(c.stack) = L - 1 + Len(vs)  BY <2>2, <2>3, <2>4
    <3>2. \A j \in 1 .. Len(vs) : FALSE  BY <2>4
    <3> QED  BY <2>3, <3>1, <3>2 DEF Replaced
  <2>6. Wasm!Body!Step("drop", <<>>, 1, vs) /\ Live /\ UNCHANGED <<Live, Scopes>>
    BY <2>1, <2>3, <2>4, <2>5, StraightReplaces
  <2> QED  BY <2>6 DEF Wasm!Straight, Wasm!Body!Drop, vs
<1> QED  BY <1>2, <1>3, <1>4, <1>5, <1>6

\* The scopes are those of the blocks.
AnyScope == {Scope(b) : b \in ControlBlock}

LEMMA ScopesShape ==
  ASSUME NEW k \in Seq(ControlBlock)
  PROVE  /\ ScopesOf(k) \in Seq(AnyScope) /\ Len(ScopesOf(k)) = Len(k) /\ Len(k) \in Nat
         /\ \A i \in 1 .. Len(k) : ScopesOf(k)[i] = Scope(k[i])
<1> DEFINE l == Len(k)
           f == [i \in 1 .. l |-> Scope(k[i])]
<1>1. l \in Nat /\ DOMAIN k = 1 .. l /\ \A i \in 1 .. l : k[i] \in ControlBlock  OBVIOUS
<1>2. ScopesOf(k) = f  BY <1>1 DEF ScopesOf
<1>3. \A i \in 1 .. l : Scope(k[i]) \in AnyScope  BY <1>1 DEF AnyScope
<1> HIDE DEF l
<1>4. f \in [1 .. l -> AnyScope]  BY <1>3
<1>5. f \in Seq(AnyScope) /\ Len(f) = l /\ \A i \in 1 .. l : f[i] = Scope(k[i])
  BY <1>1, <1>4
<1> QED  BY <1>1, <1>2, <1>5 DEF l

\* A new block has a scope of its own.
LEMMA AppendedScopes ==
  ASSUME NEW k \in Seq(ControlBlock), NEW b \in ControlBlock
  PROVE  ScopesOf(Append(k, b)) = Append(ScopesOf(k), Scope(b))
<1> DEFINE k2 == Append(k, b)
           s == ScopesOf(k)
           t == ScopesOf(k2)
           e == Scope(b)
<1>1. /\ k2 \in Seq(ControlBlock) /\ Len(k2) = Len(k) + 1 /\ Len(k) \in Nat
      /\ k2[Len(k) + 1] = b /\ \A i \in 1 .. Len(k) : k2[i] = k[i]
  BY Appended
<1>2. e \in AnyScope  BY DEF AnyScope
<1> HIDE DEF k2
<1>3. s \in Seq(AnyScope) /\ Len(s) = Len(k) /\ \A i \in 1 .. Len(k) : s[i] = Scope(k[i])
  BY ScopesShape
<1>4. t \in Seq(AnyScope) /\ Len(t) = Len(k2) /\ \A i \in 1 .. Len(k2) : t[i] = Scope(k2[i])
  BY <1>1, ScopesShape
<1> HIDE DEF s, t, e
<1>5. /\ Append(s, e) \in Seq(AnyScope) /\ Len(Append(s, e)) = Len(s) + 1
      /\ Append(s, e)[Len(s) + 1] = e /\ \A i \in 1 .. Len(s) : Append(s, e)[i] = s[i]
  BY <1>2, <1>3, Appended
<1>6. \A i \in 1 .. Len(t) : t[i] = Append(s, e)[i]
  <2> TAKE i \in 1 .. Len(t)
  <2>1. CASE i \in 1 .. Len(k)
    <3>1. i \in 1 .. Len(k2) /\ i \in 1 .. Len(s)  BY <1>1, <1>3, <2>1
    <3> QED  BY <1>1, <1>3, <1>4, <1>5, <2>1, <3>1
  <2>2. CASE i = Len(k) + 1  BY <1>1, <1>3, <1>4, <1>5, <2>2 DEF e
  <2>3. i \in 1 .. Len(k) \/ i = Len(k) + 1  BY <1>1, <1>4
  <2> QED  BY <2>1, <2>2, <2>3
<1>7. Len(t) = Len(Append(s, e))  BY <1>1, <1>3, <1>4, <1>5
<1>8. t = Append(s, e)  BY <1>4, <1>5, <1>6, <1>7, SeqEqual
<1> QED  BY <1>8 DEF k2, s, t, e

\* The scope of a block, and what it is with one part rewritten.
Typed(w, v)  == [w EXCEPT !.type = v]
Based(w, v)  == [w EXCEPT !.base = v]
Exited(w, v) == [w EXCEPT !.exit = v]
Armed(w, v)  == [w EXCEPT !.else = v]

ScopeOf(t, a, b, x, e) == [type |-> t, arity |-> a, base |-> b, exit |-> x, else |-> e]

LEMMA ScopeRewritten ==
  ASSUME NEW t, NEW a, NEW b, NEW x, NEW e, NEW v, NEW w, w = ScopeOf(t, a, b, x, e)
  PROVE  /\ Typed(w, v) = ScopeOf(v, a, b, x, e)
         /\ Based(w, v) = ScopeOf(t, a, v, x, e)
         /\ Exited(w, v) = ScopeOf(t, a, b, v, e)
         /\ Armed(w, v) = ScopeOf(t, a, b, x, v)
<1>1. w = [type |-> t, arity |-> a, base |-> b, exit |-> x, else |-> e]  BY DEF ScopeOf
<1>2. [w EXCEPT !.type = v] = [type |-> v, arity |-> a, base |-> b, exit |-> x, else |-> e]
  BY <1>1
<1>3. [w EXCEPT !.base = v] = [type |-> t, arity |-> a, base |-> v, exit |-> x, else |-> e]
  BY <1>1
<1>4. [w EXCEPT !.exit = v] = [type |-> t, arity |-> a, base |-> b, exit |-> v, else |-> e]
  BY <1>1
<1>5. [w EXCEPT !.else = v] = [type |-> t, arity |-> a, base |-> b, exit |-> x, else |-> v]
  BY <1>1
<1> QED  BY <1>2, <1>3, <1>4, <1>5 DEF ScopeOf, Typed, Based, Exited, Armed

\* A block is entered in context c, with what is left of the operands.
LEMMA OpenMeans ==
  ASSUME IInv, NEW n \in {0, 1}, NEW type, NEW arity, Opens(type, arity, n),
         NEW c, Fits(c), Contents(c) = SubSeq(Path, 1, Len(Path) - n),
         Len(c.stack) = Len(stack) - n, NEW b \in ControlBlock, Reachable(b),
         b.type = type, b.arity = arity, b.base = Len(c.stack), ~b.reached \/ type = "loop",
         type = "if" => Contents(b.else) = Contents(c),
         Proceed(c, Append(control, b))
  PROVE  Wasm!Open(type, arity, n)
<1> DEFINE k2 == Append(control, b)
<1>1. Compiles(n) /\ Len(control) < MaxDepth /\ Code!Emit(type, <<arity>>)  BY DEF Opens
<1>2. control \in Seq(ControlBlock)  BY <1>1, Compiled
<1>3. LiveStack(k2)
  <2>1. k2 # <<>> /\ k2[Len(k2)] = b  BY <1>2, Appended
  <2> QED  BY <2>1 DEF LiveStack
<1>4. Scopes' = Append(Scopes, Scope(b)) /\ Live' = TRUE /\ Path' = Contents(c)
  <2>1. ScopesOf(k2) = Append(ScopesOf(control), Scope(b))  BY <1>2, AppendedScopes
  <2> HIDE DEF k2
  <2>2. c \in Context /\ Proceed(c, k2)  BY FitsShape DEF k2
  <2> QED  BY <1>3, <2>1, <2>2, PathsNext, PathsNow
<1> HIDE DEF k2
<1>5. Wasm!Body!Does(type, <<arity>>)  BY <1>1, Emits
<1>6. Len(Scopes) = Len(control)  BY <1>2, ScopesShape, PathsNow
<1>7. /\ Live /\ Wasm!Body!Operands >= n /\ Len(Path) = Len(stack)
  BY <1>1, PathHolds
<1>8. Wasm!Consume(n)  BY <1>4, <1>7 DEF Wasm!Consume, Wasm!Body!Keep
<1>9. Scope(b) = [Wasm!Block(type, arity) EXCEPT !.base = @ - n,
                                                 !.else = IF type = "if" THEN {Path'} ELSE {}]
  <2>1. Scope(b).exit = {} /\ ~(b.reached /\ b.type # "loop")  BY DEF Scope
  <2> DEFINE f == Path'
             o == IF type = "if" THEN {f} ELSE {}
             l == Len(Path)
             m == l - n
  <2>2. type = "if" => Frame0(b.else) = f  BY <1>4 DEF Frame0, Contents
  <2> HIDE DEF f
  <2>3. Scope(b) = ScopeOf(type, arity, m, {}, o)
    BY <1>7, <2>1, <2>2 DEF Scope, ScopeOf
  <2> HIDE DEF o, m
  <2>4. Wasm!Block(type, arity) = ScopeOf(type, arity, l, {}, {})
    BY DEF Wasm!Block, ScopeOf
  <2> HIDE DEF l
  <2>5. ScopeOf(type, arity, l, {}, {}).base = l  BY DEF ScopeOf
  <2> DEFINE w == Wasm!Block(type, arity)
  <2>6. w = ScopeOf(type, arity, l, {}, {}) /\ w.base - n = m  BY <2>4, <2>5 DEF m
  <2> HIDE DEF w
  <2>7. Based(w, m) = ScopeOf(type, arity, m, {}, {})  BY <2>6, ScopeRewritten
  <2>8. Armed(Based(w, m), o) = ScopeOf(type, arity, m, {}, o)  BY <2>7, ScopeRewritten
  <2>9. [w EXCEPT !.base = m, !.else = o] = Armed(Based(w, m), o)  BY DEF Armed, Based
  <2> QED  BY <2>3, <2>6, <2>8, <2>9 DEF f, o, w
<1> QED  BY <1>1, <1>4, <1>5, <1>6, <1>8, <1>9 DEF Wasm!Open

\* The slots that a handler leaves hold what they held.
LEMMA LeftContents ==
  ASSUME NEW c, Fits(c), NEW d, Fits(d), NEW n \in 0 .. Len(c.stack),
         Len(d.stack) = Len(c.stack) - n, Intact(c, d, 1 .. Len(d.stack))
  PROVE  Contents(d) = SubSeq(Contents(c), 1, Len(Contents(c)) - n)
<1> DEFINE s == Contents(c)
           t == Contents(d)
           m == Len(d.stack)
           V == Values \cup {Junk}
           p == SubSeq(s, 1, m)
<1>1. s \in Seq(V) /\ Len(s) = Len(c.stack) /\ \A i \in 1 .. Len(c.stack) : s[i] = ValueAt(c, i)
  BY ContentsShape
<1>2. t \in Seq(V) /\ Len(t) = m /\ \A i \in 1 .. m : t[i] = ValueAt(d, i)
  BY ContentsShape
<1>3. m \in Nat /\ Len(c.stack) \in Nat /\ m <= Len(c.stack) /\ m = Len(c.stack) - n
  BY FitsShape
<1>4. \A i \in 1 .. m : ValueAt(d, i) = ValueAt(c, i)  BY DEF Intact
<1> HIDE DEF s, t, m, V
<1>5. p \in Seq(V) /\ Len(p) = m /\ \A i \in 1 .. m : p[i] = s[i]
  BY <1>1, <1>3, PrefixShape
<1> HIDE DEF p
<1>6. \A i \in 1 .. Len(t) : t[i] = p[i]
  <2> TAKE i \in 1 .. Len(t)
  <2>1. i \in 1 .. m /\ i \in 1 .. Len(c.stack)  BY <1>2, <1>3
  <2> QED  BY <1>1, <1>2, <1>4, <1>5, <2>1
<1>7. t = p  BY <1>2, <1>5, <1>6, SeqEqual
<1>8. m = Len(s) - n  BY <1>1, <1>3
<1> QED  BY <1>7, <1>8 DEF p, s, t

\* The condition of a branch is popped.
LEMMA PoppedContents ==
  ASSUME NEW c, Fits(c), Len(c.stack) > 0
  PROVE  /\ Fits(PopToRegister(c, {}).c)
         /\ Len(PopToRegister(c, {}).c.stack) = Len(c.stack) - 1
         /\ Contents(PopToRegister(c, {}).c) = SubSeq(Contents(c), 1, Len(Contents(c)) - 1)
<1> DEFINE p == PopToRegister(c, {})
           d == p.c
<1>1. Choice({})  BY OneMoreRegister
<1>2. Good(d) /\ Len(d.stack) = Len(c.stack) - 1  BY <1>1, FitsShape, PopToRegisterGood
<1>3. PoppedInto(c, {}, p)  BY <1>1, PopToRegisterIntact
<1>4. Intact(c, d, 1 .. Len(c.stack) - 1)  BY <1>3 DEF PoppedInto
<1>5. Len(c.stack) \in Nat /\ Len(c.stack) <= MaxHeight /\ MaxHeight \in Nat  BY FitsShape
<1> HIDE DEF d
<1>6. Fits(d)  BY <1>2, <1>5 DEF Fits
<1>7. 1 \in 0 .. Len(c.stack)  BY <1>5
<1>8. Contents(d) = SubSeq(Contents(c), 1, Len(Contents(c)) - 1)
  BY <1>2, <1>4, <1>6, <1>7, LeftContents
<1> QED  BY <1>2, <1>6, <1>8 DEF d

\* block.
LEMMA OpenBlockMeans ==
  ASSUME IInv, NEW arity \in {0, 1}, OpenBlock(arity)
  PROVE  Wasm!Open("block", arity, 0)
<1> DEFINE b == Block("block", arity, Ctx, height)
<1>1. Opens("block", arity, 0) /\ Compiles(0) /\ Proceed(Ctx, Append(control, b))
  BY DEF OpenBlock, Opens
<1>2. /\ Fits(Ctx) /\ Ctx \in Context /\ Ctx.stack = stack
      /\ Len(stack) \in Nat /\ Len(stack) <= MaxHeight /\ height = Len(stack)
      /\ NumLocals + 0 <= Len(stack) /\ Reachable(Current) /\ NumLocals \in Nat
  BY <1>1, CompiledAbove
<1>3. Height(Ctx) = height /\ Height(Ctx) \in NumLocals .. MaxHeight
  BY <1>2, ControlFlowAssumption, RegsAssumption DEF Height
<1>4. /\ b \in ControlBlock /\ b.type = "block" /\ b.arity = arity /\ Reachable(b)
      /\ b.base = Len(Ctx.stack) /\ ~b.reached
  BY <1>2, <1>3, NewBlock
<1> HIDE DEF b
<1>5. Len(Ctx.stack) = Len(stack) - 0 /\ 0 \in 0 .. Len(Ctx.stack)
      /\ Len(Ctx.stack) = Len(Ctx.stack) - 0
  BY <1>2
<1>6. Contents(Ctx) = SubSeq(Path, 1, Len(Path) - 0)
  <2>1. Intact(Ctx, Ctx, 1 .. Len(Ctx.stack))  BY DEF Intact
  <2>2. Contents(Ctx) = SubSeq(Contents(Ctx), 1, Len(Contents(Ctx)) - 0)
    BY <1>2, <1>5, <2>1, LeftContents
  <2>3. Path = Contents(Ctx)  BY <1>1, PathHolds
  <2> QED  BY <2>2, <2>3
<1> QED  BY <1>1, <1>2, <1>4, <1>5, <1>6, OpenMeans

\* loop, once the locals are in the frame.
LEMMA OpenLoopMeans ==
  ASSUME IInv, NEW arity \in {0, 1}, OpenLoop(arity)
  PROVE  Wasm!Open("loop", arity, 0)
<1> DEFINE c == SpillLocals(Ctx, NumLocals)
           l == [Kept(c) EXCEPT !.regs = NoRegs, !.mem = NoFrame]
           b0 == Block("loop", arity, c, height)
           b == [b0 EXCEPT !.label = l]
<1>1. Opens("loop", arity, 0) /\ Compiles(0) /\ Proceed(c, Append(control, b))
  BY DEF OpenLoop, Opens
<1>2. /\ Fits(Ctx) /\ Ctx \in Context /\ Ctx.stack = stack
      /\ Len(stack) \in Nat /\ Len(stack) <= MaxHeight /\ height = Len(stack)
      /\ NumLocals + 0 <= Len(stack) /\ Reachable(Current) /\ NumLocals \in Nat
  BY <1>1, CompiledAbove
<1>3. NumLocals \in 0 .. Len(Ctx.stack)  BY <1>2
<1>4. Good(c) /\ Len(c.stack) = Len(Ctx.stack) /\ Intact(Ctx, c, DOMAIN Ctx.stack)
  BY <1>2, <1>3, SpillLocalsGood, SpillLocalsIntact
<1> HIDE DEF c
<1>5. c \in Context /\ Fits(c)  BY <1>2, <1>4 DEF Good, Fits
<1>6. Height(c) = height /\ Height(c) \in NumLocals .. MaxHeight
  BY <1>2, <1>4, RegsAssumption DEF Height
<1>7. /\ b0 \in ControlBlock /\ b0.type = "loop" /\ b0.arity = arity /\ Reachable(b0)
      /\ b0.base = Len(c.stack)
  BY <1>2, <1>5, <1>6, NewBlock
<1> HIDE DEF b0
<1>8. l \in Context
  <2>1. Kept(c) \in Context  BY <1>4, <1>5, KeptSound, SoundIsGood
  <2> QED  BY <2>1, ForgottenSound
<1> HIDE DEF l
<1>9. /\ b \in ControlBlock /\ b.type = "loop" /\ b.arity = arity /\ Reachable(b)
      /\ b.base = Len(c.stack)
  BY <1>7, <1>8 DEF ControlBlock, Reachable
<1> HIDE DEF b
<1>10. Contents(c) = SubSeq(Path, 1, Len(Path) - 0)
  <2>1. 0 \in 0 .. Len(Ctx.stack) /\ Len(c.stack) = Len(Ctx.stack) - 0
        /\ Intact(Ctx, c, 1 .. Len(c.stack))
    <3>1. DOMAIN Ctx.stack = 1 .. Len(Ctx.stack)  BY <1>2, ContextShape
    <3> QED  BY <1>2, <1>4, <3>1
  <2>2. Contents(c) = SubSeq(Contents(Ctx), 1, Len(Contents(Ctx)) - 0)
    BY <1>2, <1>5, <2>1, LeftContents
  <2>3. Path = Contents(Ctx)  BY <1>1, PathHolds
  <2> QED  BY <2>2, <2>3
<1>11. Len(c.stack) = Len(stack) - 0  BY <1>2, <1>4
<1> QED  BY <1>1, <1>5, <1>9, <1>10, <1>11, OpenMeans

\* if, which leaves what the path holds to its other arm.
LEMMA OpenIfMeans ==
  ASSUME IInv, NEW arity \in {0, 1}, OpenIf(arity)
  PROVE  Wasm!Open("if", arity, 1)
<1> DEFINE c == PopToRegister(Ctx, {}).c
           b0 == Block("if", arity, c, height - 1)
           b == [b0 EXCEPT !.else = Kept(c)]
<1>1. Opens("if", arity, 1) /\ Compiles(1) /\ Proceed(c, Append(control, b))
  BY DEF OpenIf, Opens
<1>2. /\ Fits(Ctx) /\ Ctx \in Context /\ Ctx.stack = stack
      /\ Len(stack) \in Nat /\ Len(stack) <= MaxHeight /\ height = Len(stack)
      /\ NumLocals + 1 <= Len(stack) /\ Reachable(Current) /\ NumLocals \in Nat
  BY <1>1, CompiledAbove
<1>3. Path = Contents(Ctx) /\ Len(Ctx.stack) > 0  BY <1>1, <1>2, PathHolds
<1>4. /\ Fits(c) /\ Len(c.stack) = Len(stack) - 1
      /\ Contents(c) = SubSeq(Path, 1, Len(Path) - 1)
  BY <1>2, <1>3, PoppedContents
<1> HIDE DEF c
<1>5. c \in Context /\ Good(c) /\ Len(c.stack) <= MaxHeight  BY <1>4, FitsShape
<1>6. Height(c) = height - 1 /\ Height(c) \in NumLocals .. MaxHeight
  BY <1>2, <1>4, RegsAssumption DEF Height
<1>7. /\ b0 \in ControlBlock /\ b0.type = "if" /\ b0.arity = arity /\ Reachable(b0)
      /\ b0.base = Len(c.stack) /\ ~b0.reached
  BY <1>2, <1>5, <1>6, NewBlock
<1> HIDE DEF b0
<1>8. Kept(c) \in Context  BY <1>5, KeptSound, SoundIsGood
<1>9. /\ b \in ControlBlock /\ b.type = "if" /\ b.arity = arity /\ Reachable(b)
      /\ b.base = Len(c.stack) /\ ~b.reached /\ b.else = Kept(c)
  BY <1>7, <1>8 DEF ControlBlock, Reachable
<1> HIDE DEF b
<1>10. Contents(b.else) = Contents(c)  BY <1>5, <1>9, KeptContents
<1> QED  BY <1>1, <1>4, <1>9, <1>10, OpenMeans

\* A path with frame f has arrived at the labels of E, and at no others.
Delivered(m, m2, f, E) ==
  /\ Contents(m2.c) = Contents(m.c)
  /\ \A j \in 1 .. Len(m.k) :
       IF j \in E
       THEN /\ m2.k[j].reached
            /\ Contents(m2.k[j].label) = Wasm!Leave(f, m.k[j].base, Results(m.k[j]))
       ELSE m2.k[j] = m.k[j]

\* A join delivers the frame of the path to the label.
LEMMA JoinDelivers ==
  ASSUME NEW m, Good(m.c), NEW n, Blocks(m.k, n), NEW i \in 1 .. Len(m.k),
         NEW s \in Context, NEW t \in Context, Len(s.stack) <= MaxHeight,
         Len(t.stack) = m.k[i].base + Results(m.k[i]), Len(t.stack) <= Len(s.stack),
         NEW full, MergeAsserts(s, t, Results(m.k[i]), full)
  PROVE  Delivered(m, Join(m, i, s, t, full), Contents(s), {i})
<1> DEFINE arity == Results(m.k[i])
           base == m.k[i].base
           stored == Stored(s, t, arity)
           frame == {m.c.spills} \cup stored
           l == Kept(Merge(s, t, arity))
           x == CHOOSE x \in frame : \A y \in frame : y <= x
           b2 == [m.k[i] EXCEPT !.label = l, !.reached = TRUE]
           k2 == [m.k EXCEPT ![i] = b2]
           c2 == [m.c EXCEPT !.spills = x]
           m2 == Join(m, i, s, t, full)
<1>1. m2 = At(c2, k2)  BY DEF Join, Results
<1>2. m2.c = c2 /\ m2.k = k2  BY <1>1 DEF At
<1> HIDE DEF m2
<1>3. /\ m.k \in Seq(ControlBlock) /\ m.k[i] \in ControlBlock /\ base \in Nat /\ arity \in Nat
  BY BlockShape DEF Blocks
<1>4. Mergeable(s, t, arity)  BY DEF MergeAsserts
<1>5. /\ Arrived(s, t, base, l) /\ Len(t.stack) = base + arity
  BY <1>3, MergeArrives
<1>6. Contents(l) = Wasm!Leave(Contents(s), base, arity)
  <2> HIDE DEF base, arity
  <2> QED  BY <1>3, <1>4, <1>5, MergeContents
<1>7. l \in Context  BY <1>5 DEF Arrived
<1> HIDE DEF l, x
<1>8. b2 \in ControlBlock /\ b2.label = l /\ b2.reached  BY <1>3, <1>7 DEF ControlBlock
<1> HIDE DEF b2
<1>9. k2[i] = b2 /\ \A j \in 1 .. Len(m.k) : j # i => k2[j] = m.k[j]
  BY <1>3, <1>8, ExceptSeq
<1> HIDE DEF k2
<1>10. c2.stack = m.c.stack /\ c2.regs = m.c.regs /\ c2.mem = m.c.mem
  BY DEF Good, Context
<1> HIDE DEF c2
<1>11. Contents(c2) = Contents(m.c)  BY <1>10 DEF Contents, ValueAt
<1> QED  BY <1>2, <1>6, <1>8, <1>9, <1>11 DEF Delivered, m2

\* A jump to a block delivers the frame of the path.
LEMMA BrImplDelivers ==
  ASSUME NEW m, NEW top \in Nat, Running(m, top), NEW i, Reaches(m, i, top)
  PROVE  Delivered(m, BrImpl(m, i), Contents(m.c), {i})
<1> DEFINE b == m.k[i]
           s == m.c
           P == Arrivals(m.k) \cup {Point(s, top)}
           t == LabelState(m, i, s)
           n == s.spills
           full == FALSE
<1>1. Good(s) /\ s \in Context /\ Len(s.stack) <= MaxHeight /\ Blocks(m.k, n) /\ Agreeing(P)
  BY FitsShape DEF Running
<1>2. i \in 1 .. Len(m.k) /\ b.base <= top /\ b.base + Results(b) <= Len(s.stack)
  BY DEF Reaches
<1>3. b.base \in Nat /\ b.base \in 0 .. MaxHeight /\ NumLocals <= b.base /\ Results(b) \in Nat
  BY <1>1, <1>2, BlockShape
<1>4. Suits(b, P, s, t)
  <2>1. Arrivals(m.k) \subseteq P  OBVIOUS
  <2> HIDE DEF P, n
  <2> QED  BY <1>1, <1>2, <2>1, LabelStateSuits
<1>5. BrImpl(m, i) = Join(m, i, s, t, full)  BY DEF BrImpl
<1>6. full \in BOOLEAN /\ ~full /\ Point(s, top) \in P  OBVIOUS
<1>7. Good(m.c)  BY <1>1
<1> HIDE DEF P, t, full, s, n
<1>8. t \in Context /\ Len(t.stack) = b.base + Results(b)  BY <1>4 DEF Suits
<1> HIDE DEF b
<1>9. MergeAsserts(s, t, Results(b), full)
  BY <1>1, <1>2, <1>3, <1>4, <1>6, JoinAsserts
<1>10. Len(t.stack) <= Len(s.stack)  BY <1>2, <1>8
<1>11. Delivered(m, Join(m, i, s, t, full), Contents(s), {i})
  BY <1>1, <1>2, <1>7, <1>8, <1>9, <1>10, JoinDelivers DEF b
<1> QED  BY <1>5, <1>11 DEF s

\* One path may arrive at several labels.
LEMMA DeliveredTransitive ==
  ASSUME NEW a, NEW b, NEW c, NEW f, NEW D, NEW E,
         Delivered(a, b, f, D), SameBlocks(a.k, b.k), Delivered(b, c, f, E)
  PROVE  Delivered(a, c, f, D \cup E)
<1>1. Contents(c.c) = Contents(a.c)  BY DEF Delivered
<1>2. ASSUME NEW j \in 1 .. Len(a.k)
      PROVE  IF j \in D \cup E
             THEN /\ c.k[j].reached
                  /\ Contents(c.k[j].label) = Wasm!Leave(f, a.k[j].base, Results(a.k[j]))
             ELSE c.k[j] = a.k[j]
  <2>1. /\ j \in 1 .. Len(b.k) /\ b.k[j].base = a.k[j].base
        /\ Results(b.k[j]) = Results(a.k[j])
    BY DEF SameBlocks, Results
  <2>2. CASE j \in E  BY <2>1, <2>2 DEF Delivered
  <2>3. CASE j \notin E
    <3>1. c.k[j] = b.k[j]  BY <2>1, <2>3 DEF Delivered
    <3> QED  BY <2>3, <3>1 DEF Delivered
  <2> QED  BY <2>2, <2>3
<1> QED  BY <1>1, <1>2 DEF Delivered

\* The blocks that a jump to the labels of D leads to, of n blocks; from the
\* outermost a path returns.
Hits(n, D) == {n - d : d \in D \ {n - 1}}

LEMMA BrOrRetDelivers ==
  ASSUME NEW m, NEW top \in Nat, Running(m, top), NEW d \in Nat, Reaches(m, Len(m.k) - d, top)
  PROVE  Delivered(m, BrOrRet(m, d), Contents(m.c), Hits(Len(m.k), {d}))
<1>1. CASE d = Len(m.k) - 1
  <2>1. Hits(Len(m.k), {d}) = {}  BY <1>1 DEF Hits
  <2>2. Reaches(m, 1, top)
    <3>1. Len(m.k) \in Nat  BY DEF Running, Blocks
    <3>2. Len(m.k) - d = 1  BY <1>1, <3>1
    <3> QED  BY <3>2
  <2>3. BrOrRet(m, d).c = m.c /\ BrOrRet(m, d).k = m.k
    BY <1>1, <2>2, ReturnImplStays DEF BrOrRet
  <2> QED  BY <2>1, <2>3 DEF Delivered
<1>2. CASE d # Len(m.k) - 1
  <2>1. Hits(Len(m.k), {d}) = {Len(m.k) - d}  BY <1>2 DEF Hits
  <2>2. BrOrRet(m, d) = BrImpl(m, Len(m.k) - d)  BY <1>2 DEF BrOrRet
  <2> QED  BY <2>1, <2>2, BrImplDelivers
<1> QED  BY <1>1, <1>2

\* All the labels of a table get the frame of the path.
LEMMA BrAllDelivers ==
  ASSUME NEW m, NEW top \in Nat, Running(m, top), NEW D,
         \A d \in D : d \in Nat /\ d < Len(m.k) /\ Reaches(m, Len(m.k) - d, top)
  PROVE  Delivered(m, BrAll(m, D), Contents(m.c), Hits(Len(m.k), D))
<1> DEFINE n == Len(m.k)
           f == Contents(m.c)
           E(d) == Hits(n, {e \in D : e < d})
<1>1. n \in Nat  BY DEF Running, Blocks
<1>2. PICK g : /\ BrAll(m, D) = g[n] /\ g[0] = m
               /\ \A d \in 0 .. n - 1 : g[d + 1] = IF d \in D THEN BrOrRet(g[d], d) ELSE g[d]
  <2>1. PICK g : AllCases(m, D, g)  BY <1>1, BrAllCases
  <2> QED  BY <2>1 DEF AllCases
<1> DEFINE S == {d \in Nat : d <= n => Jumped(m, g[d], top) /\ Delivered(m, g[d], f, E(d))}
<1>3. 0 \in S
  <2>1. Jumped(m, m, top)  BY SameBlocksReflexive DEF Jumped
  <2>2. E(0) = {}
    <3>1. {e \in D : e < 0} = {}  OBVIOUS
    <3> QED  BY <3>1 DEF Hits
  <2>3. Delivered(m, m, f, E(0))  BY <2>2 DEF Delivered
  <2> HIDE DEF E, f
  <2> QED  BY <1>2, <2>1, <2>3
<1>4. ASSUME NEW d \in Nat, d \in S PROVE d + 1 \in S
  <2> SUFFICES ASSUME d + 1 <= n
               PROVE  Jumped(m, g[d + 1], top) /\ Delivered(m, g[d + 1], f, E(d + 1))
    BY <1>4
  <2>1. d \in 0 .. n - 1 /\ d <= n  BY <1>1
  <2>2. Jumped(m, g[d], top) /\ Delivered(m, g[d], f, E(d))  BY <1>4, <2>1
  <2>3. g[d + 1] = IF d \in D THEN BrOrRet(g[d], d) ELSE g[d]  BY <1>2, <2>1
  <2>4. CASE d \in D
    <3>1. Running(g[d], top) /\ Len(g[d].k) = n /\ SameBlocks(m.k, g[d].k)
      BY <2>2 DEF Jumped, SameBlocks
    <3>2. Reaches(g[d], n - d, top)  BY <2>2, <2>4, ReachesStill
    <3>3. Jumped(g[d], BrOrRet(g[d], d), top)  BY <3>1, <3>2, BrOrRetJumps
    <3>4. Delivered(g[d], BrOrRet(g[d], d), Contents(g[d].c), Hits(n, {d}))
      BY <3>1, <3>2, BrOrRetDelivers
    <3>5. Contents(g[d].c) = f  BY <2>2 DEF Delivered
    <3>6. E(d + 1) = E(d) \cup Hits(n, {d})
      <4>1. {e \in D : e < d + 1} = {e \in D : e < d} \cup {d}
        <5>1. \A e \in D : e < d + 1 <=> e < d \/ e = d  OBVIOUS
        <5> QED  BY <2>4, <5>1
      <4> QED  BY <4>1 DEF Hits
    <3> HIDE DEF E, f
    <3>7. Delivered(m, BrOrRet(g[d], d), f, E(d) \cup Hits(n, {d}))
      BY <2>2, <3>1, <3>4, <3>5, DeliveredTransitive
    <3>8. Jumped(m, BrOrRet(g[d], d), top)  BY <2>2, <3>3, JumpedTransitive
    <3> QED  BY <2>3, <2>4, <3>6, <3>7, <3>8
  <2>5. CASE d \notin D
    <3>1. {e \in D : e < d + 1} = {e \in D : e < d}  BY <2>5
    <3>2. E(d + 1) = E(d)  BY <3>1
    <3> HIDE DEF E, f
    <3> QED  BY <2>2, <2>3, <2>5, <3>2
  <2> QED  BY <2>4, <2>5
<1>5. E(n) = Hits(n, D)
  <2>1. {e \in D : e < n} = D  OBVIOUS
  <2> QED  BY <2>1
<1> HIDE DEF S, E, f, n
<1>6. n \in S  BY <1>1, <1>3, <1>4, UpTo
<1>7. n <= n  BY <1>1
<1>8. Delivered(m, g[n], f, E(n))  BY <1>6, <1>7 DEF S
<1>9. Delivered(m, BrAll(m, D), f, Hits(n, D))  BY <1>2, <1>5, <1>8
<1> QED  BY <1>9 DEF f, n

\* What the scope of a block says of its end and of its other arm.
ExitOf(b) == IF b.reached /\ b.type # "loop" THEN {Contents(b.label)} ELSE {}
ArmOf(b)  == IF b.type = "if" THEN {Contents(b.else)} ELSE {}

LEMMA ScopeShape ==
  ASSUME NEW b
  PROVE  Scope(b) = ScopeOf(b.type, b.arity, b.base, ExitOf(b), ArmOf(b))
BY DEF Scope, ScopeOf, ExitOf, ArmOf, Frame0, Contents

\* The same blocks, as far as paths go: what a loop starts again with is not kept.
Rescoped(k, k2) ==
  /\ Relabels(k, k2)
  /\ \A i \in 1 .. Len(k) : k[i].type # "loop" => k2[i].label = k[i].label

LEMMA RescopedTransitive ==
  ASSUME NEW a, NEW b, NEW c, Rescoped(a, b), Rescoped(b, c)
  PROVE  Rescoped(a, c)
<1>1. Relabels(a, c)  BY RelabelsTransitive DEF Rescoped
<1> QED  BY <1>1 DEF Rescoped, Relabels

\* end_control, and what is forgotten of loops.
LEMMA EndControlRescopes ==
  ASSUME NEW k \in Seq(ControlBlock), k # <<>>
  PROVE  Rescoped(k, EndControl(k)) /\ ~LiveStack(EndControl(k))
BY EndControlRelabels DEF Rescoped

LEMMA ForgottenRescopes ==
  ASSUME NEW k \in Seq(ControlBlock)
  PROVE  Rescoped(k, Forgotten(k)) /\ (LiveStack(Forgotten(k)) <=> LiveStack(k))
<1>1. Relabels(k, Forgotten(k)) /\ (LiveStack(Forgotten(k)) <=> LiveStack(k))
  BY ForgottenRelabels
<1>2. ASSUME NEW i \in 1 .. Len(k), k[i].type # "loop" PROVE Forgotten(k)[i] = k[i]
  <2>1. i \in DOMAIN k  OBVIOUS
  <2> QED  BY <1>2, <2>1 DEF Forgotten
<1> QED  BY <1>1, <1>2 DEF Rescoped

\* Such blocks have the same scopes.
LEMMA RescopedScopes ==
  ASSUME NEW k \in Seq(ControlBlock), NEW k2, Rescoped(k, k2)
  PROVE  ScopesOf(k2) = ScopesOf(k)
<1>1. k2 \in Seq(ControlBlock) /\ Len(k2) = Len(k) /\ DOMAIN k2 = DOMAIN k
      /\ DOMAIN k = 1 .. Len(k)
  BY DEF Rescoped, Relabels
<1>2. ASSUME NEW i \in 1 .. Len(k) PROVE Scope(k2[i]) = Scope(k[i])
  <2>1. /\ k2[i].type = k[i].type /\ k2[i].arity = k[i].arity /\ k2[i].base = k[i].base
        /\ k2[i].else = k[i].else /\ k2[i].reached = k[i].reached
        /\ k[i].type # "loop" => k2[i].label = k[i].label
    BY DEF Rescoped, Relabels
  <2>2. ExitOf(k2[i]) = ExitOf(k[i]) /\ ArmOf(k2[i]) = ArmOf(k[i])  BY <2>1 DEF ExitOf, ArmOf
  <2> QED  BY <2>1, <2>2, ScopeShape
<1> QED  BY <1>1, <1>2 DEF ScopesOf

\* A label that path f arrives at keeps its frame.
Arriving(f, D, i) ==
  IF \E d \in D : Wasm!Forward(d) /\ i = Len(Scopes) - d
  THEN Exited(Scopes[i], {Wasm!Leave(f, Scopes[i].base, Scopes[i].arity)})
  ELSE Scopes[i]

LEMMA ArriveMeans ==
  ASSUME control \in Seq(ControlBlock), NEW D \in SUBSET Labels, NEW c, NEW m, NEW f,
         SameBlocks(control, m.k), m.k \in Seq(ControlBlock),
         Delivered(At(c, control), m, f, Hits(Len(control), D))
  PROVE  ScopesOf(m.k) = Wasm!Arrive(f, D)
<1> DEFINE n == Len(control)
           E == Hits(n, D)
<1>1. n \in Nat /\ DOMAIN control = 1 .. n /\ DOMAIN m.k = 1 .. n  BY DEF SameBlocks
<1>2. DOMAIN Scopes = 1 .. n /\ Len(Scopes) = n /\ \A i \in 1 .. n : Scopes[i] = Scope(control[i])
  <2>1. Scopes = ScopesOf(control)  BY PathsNow
  <2>2. ScopesOf(control) \in Seq(AnyScope) /\ Len(ScopesOf(control)) = n
        /\ \A i \in 1 .. n : ScopesOf(control)[i] = Scope(control[i])
    BY ScopesShape
  <2> QED  BY <2>1, <2>2
<1>3. Wasm!Arrive(f, D) = [i \in 1 .. n |-> Arriving(f, D, i)]
  BY <1>2 DEF Wasm!Arrive, Arriving, Exited
<1>4. ScopesOf(m.k) = [i \in 1 .. n |-> Scope(m.k[i])]  BY <1>1 DEF ScopesOf
<1>5. ASSUME NEW i \in 1 .. n PROVE Scope(m.k[i]) = Arriving(f, D, i)
  <2> DEFINE b == control[i]
             e == m.k[i]
             hit == \E d \in D : Wasm!Forward(d) /\ i = n - d
  <2>1. /\ e.type = b.type /\ e.arity = b.arity /\ e.base = b.base /\ e.else = b.else
        /\ ArmOf(e) = ArmOf(b)
    BY DEF SameBlocks, ArmOf
  <2>2. /\ i \in E => e.reached /\ Contents(e.label) = Wasm!Leave(f, b.base, Results(b))
        /\ i \notin E => e = b
    BY DEF Delivered, At
  <2>3. \A d \in D : d \in 0 .. n - 1  BY DEF Labels
  <2>4. Scopes[i] = ScopeOf(b.type, b.arity, b.base, ExitOf(b), ArmOf(b))
    BY <1>2, ScopeShape
  <2>5. \A d \in D : i = n - d => (Wasm!Forward(d) <=> d # n - 1 /\ b.type # "loop")
    <3> SUFFICES ASSUME NEW d \in D, i = n - d
                 PROVE  Wasm!Forward(d) <=> d # n - 1 /\ b.type # "loop"
      OBVIOUS
    <3>1. Wasm!Target(d) = Scopes[i]  BY <1>2 DEF Wasm!Target
    <3>2. Scopes[i].type = b.type  BY <2>4 DEF ScopeOf
    <3> QED  BY <1>2, <3>1, <3>2 DEF Wasm!Forward, Wasm!Outermost
  <2>6. hit <=> i \in E /\ b.type # "loop"
    <3>1. i \in E <=> \E d \in D : d # n - 1 /\ i = n - d  BY DEF Hits
    <3> QED  BY <2>5, <3>1
  <2>7. Scope(e) = ScopeOf(b.type, b.arity, b.base, ExitOf(e), ArmOf(b))
    BY <2>1, ScopeShape
  <2> HIDE DEF E, b, e, hit
  <2>8. CASE hit
    <3>1. ExitOf(e) = {Wasm!Leave(f, b.base, b.arity)}
      BY <2>1, <2>2, <2>6, <2>8 DEF ExitOf, Results
    <3>2. Scopes[i].base = b.base /\ Scopes[i].arity = b.arity  BY <2>4 DEF ScopeOf
    <3> DEFINE w == Scopes[i]
               v == {Wasm!Leave(f, b.base, b.arity)}
    <3>3. w = ScopeOf(b.type, b.arity, b.base, ExitOf(b), ArmOf(b))  BY <2>4
    <3> HIDE DEF w, v
    <3>4. Exited(w, v) = ScopeOf(b.type, b.arity, b.base, v, ArmOf(b))
      BY <3>3, ScopeRewritten
    <3>5. Arriving(f, D, i) = Exited(w, v)
      BY <1>2, <2>8, <3>2 DEF Arriving, hit, w, v
    <3> QED  BY <2>7, <3>1, <3>4, <3>5 DEF v, e
  <2>9. CASE ~hit
    <3>1. Arriving(f, D, i) = Scopes[i]  BY <1>2, <2>9 DEF Arriving, hit
    <3>2. ExitOf(e) = ExitOf(b)
      <4>1. CASE i \notin E  BY <2>2, <4>1
      <4>2. CASE b.type = "loop"  BY <2>1, <4>2 DEF ExitOf
      <4> QED  BY <2>6, <2>9, <4>1, <4>2
    <3> QED  BY <2>4, <2>7, <3>1, <3>2 DEF e
  <2> QED  BY <2>8, <2>9
<1> QED  BY <1>3, <1>4, <1>5

\* The results that a path returns.
LEMMA ReturnedValues ==
  ASSUME NEW c, Fits(c), Arity <= Len(c.stack)
  PROVE  [j \in 1 .. Arity |-> ValueAt(c, Height(c))] = Wasm!Leave(Contents(c), 0, Arity)
<1> DEFINE f == Contents(c)
           L == Len(c.stack)
           V == Values \cup {Junk}
           v == ValueAt(c, Height(c))
           g == [j \in 1 .. Arity |-> v]
           h == Wasm!Leave(f, 0, Arity)
<1>1. f \in Seq(V) /\ Len(f) = L /\ \A i \in 1 .. L : f[i] = ValueAt(c, i)  BY ContentsShape
<1>2. L \in Nat /\ Arity \in {0, 1} /\ Arity <= L  BY FitsShape, ControlFlowAssumption
<1>3. Height(c) = L  BY DEF Height
<1>4. L \in 1 .. L => v = f[L]  BY <1>1, <1>3
<1> HIDE DEF f, L, v
<1>5. h \in Seq(V) /\ Remains(f, 0, Arity, h)
  <2>1. 0 + Arity <= Len(f) /\ 0 \in Nat /\ Arity \in Nat  BY <1>1, <1>2
  <2> QED  BY <1>1, <2>1, LeaveShape
<1> HIDE DEF h
<1>6. Len(h) = Arity /\ \A d \in 1 .. Arity : h[d] = v
  <2>1. Len(h) = Arity  BY <1>2, <1>5 DEF Remains
  <2>2. ASSUME NEW d \in 1 .. Arity PROVE h[d] = v
    <3>1. d = 1 /\ Arity = 1 /\ L \in 1 .. L  BY <1>2
    <3>2. d \in 1 .. 0 + Arity /\ Len(f) - (0 + Arity) + d = L /\ ~(d <= 0)  BY <1>1, <1>2, <3>1
    <3>3. h[d] = f[IF d <= 0 THEN d ELSE Len(f) - (0 + Arity) + d]  BY <1>5, <3>2 DEF Remains
    <3> QED  BY <1>4, <3>1, <3>2, <3>3
  <2> QED  BY <2>1, <2>2
<1>7. v \in V \/ Arity = 0
  <2>1. CASE Arity = 1
    <3>1. L \in 1 .. L  BY <1>2, <2>1
    <3> QED  BY <1>1, <1>4, <3>1
  <2> QED  BY <1>2, <2>1
<1>8. g \in Seq(V) /\ Len(g) = Arity /\ \A d \in 1 .. Arity : g[d] = v
  <2>1. Arity \in Nat  BY <1>2
  <2>2. \A d \in 1 .. Arity : v \in V  BY <1>2, <1>7
  <2> HIDE DEF V
  <2>3. g \in [1 .. Arity -> V]  BY <2>2
  <2> QED  BY <2>1, <2>3
<1> HIDE DEF g
<1>9. g = h  BY <1>5, <1>6, <1>8, SeqEqual
<1> QED  BY <1>9 DEF g, h, v, f

\* The frame that a loop starts again with.
LEMMA RestartValues ==
  ASSUME NEW l \in Context, NEW base \in Nat, Len(l.stack) = base, base <= MaxHeight,
         NEW V, NEW f \in Seq(V), base <= Len(f), Contents(l) = Wasm!Leave(f, base, 0)
  PROVE  [i \in 1 .. base |-> ValueAt(l, i)] = SubSeq(f, 1, base)
<1> DEFINE h == Wasm!Leave(f, base, 0)
           p == SubSeq(f, 1, base)
<1>1. Contents(l) = [i \in 1 .. base |-> ValueAt(l, i)]
  <2>1. DOMAIN l.stack = 1 .. base  BY ContextShape
  <2> QED  BY <2>1 DEF Contents
<1>2. h \in Seq(V) /\ Remains(f, base, 0, h)
  <2>1. base + 0 <= Len(f) /\ 0 \in Nat  OBVIOUS
  <2> QED  BY <2>1, LeaveShape
<1>3. Contents(l) = h  OBVIOUS
<1> HIDE DEF h
<1>4. p \in Seq(V) /\ Len(p) = base /\ \A i \in 1 .. base : p[i] = f[i]
  <2>1. base \in 0 .. Len(f)
    <3>1. Len(f) \in Nat  BY LenProperties
    <3> QED  BY <3>1
  <2> QED  BY <2>1, PrefixShape
<1> HIDE DEF p
<1>5. Len(h) = base /\ \A d \in 1 .. base : h[d] = f[d]
  <2>1. base + 0 = base  OBVIOUS
  <2>2. Len(h) = base /\ \A d \in 1 .. base : h[d] = f[IF d <= base THEN d ELSE Len(f) - base + d]
    BY <1>2, <2>1 DEF Remains
  <2>3. \A d \in 1 .. base : d <= base  OBVIOUS
  <2> QED  BY <2>2, <2>3
<1>6. h = p  BY <1>2, <1>4, <1>5, SeqEqual
<1> QED  BY <1>1, <1>3, <1>6 DEF p

\* What a jump takes along out of the straight line is what the code means to.
LEMMA LeavesMean ==
  ASSUME Blocks(control, spills), NEW D \in SUBSET Labels, NEW c, Fits(c), NEW top, NEW m,
         Jumped(At(c, control), m, top),
         \A d \in D : Reaches(At(c, control), Len(control) - d, top),
         Delivered(At(c, control), m, Contents(c), Hits(Len(control), D)),
         NEW k, Leaves(k, m, D)
  PROVE  Wasm!Body!Does(k, Wasm!Backward(Contents(c), D))
<1> DEFINE n == Len(control)
           f == Contents(c)
           E == Hits(n, D)
           V == Values \cup {Junk}
           mine(d) == IF Backward(d) THEN Carried(m, d) ELSE <<>>
           theirs(d) == IF Wasm!Forward(d) THEN <<>>
                        ELSE IF Wasm!Outermost(d) THEN Wasm!Leave(f, 0, Arity)
                        ELSE SubSeq(f, 1, Wasm!Target(d).base)
<1>1. n \in Nat /\ control \in Seq(ControlBlock)  BY DEF Blocks
<1>2. Scopes = ScopesOf(control) /\ Len(Scopes) = n /\ \A i \in 1 .. n : Scopes[i] = Scope(control[i])
  BY <1>1, ScopesShape, PathsNow
<1>3. /\ Running(m, top) /\ SameBlocks(control, m.k) /\ m.c.stack = c.stack
      /\ Contents(m.c) = f
  BY DEF Jumped, Delivered, At
<1>4. f \in Seq(V) /\ Len(f) = Len(c.stack) /\ Len(c.stack) \in Nat  BY ContentsShape, FitsShape
<1>5. Fits(m.c) /\ Blocks(m.k, m.c.spills)  BY <1>3 DEF Running
<1> HIDE DEF f, V
<1>6. ASSUME NEW d \in D PROVE mine(d) = theirs(d)
  <2> DEFINE i == n - d
             b == control[i]
             e == m.k[i]
  <2>1. d \in 0 .. n - 1 /\ i \in 1 .. n  BY <1>1 DEF Labels
  <2>2. Wasm!Target(d) = Scopes[i]  BY <1>2 DEF Wasm!Target
  <2>3. Scopes[i] = ScopeOf(b.type, b.arity, b.base, ExitOf(b), ArmOf(b))
    BY <1>2, <2>1, ScopeShape
  <2>4. Wasm!Target(d).type = b.type /\ Wasm!Target(d).base = b.base
    BY <2>2, <2>3 DEF ScopeOf
  <2>5. /\ Wasm!Outermost(d) <=> d = n - 1
        /\ Outermost(d) <=> d = n - 1
        /\ Wasm!Forward(d) <=> d # n - 1 /\ b.type # "loop"
        /\ Backward(d) <=> d = n - 1 \/ b.type = "loop"
        /\ Target(d) = b
    BY <1>2, <2>4 DEF Wasm!Forward, Wasm!Outermost, Outermost, Backward, Target
  <2>6. i \in 1 .. Len(control) /\ b.base + Results(b) <= Len(c.stack)
    BY DEF Reaches, At
  <2>7. /\ b.base \in Nat /\ Results(b) \in Nat /\ b.base <= MaxHeight
        /\ e.type = b.type /\ e.base = b.base /\ e.arity = b.arity
    <3>1. b.base \in Nat /\ Results(b) \in Nat /\ b \in ControlBlock  BY <2>6, BlockShape
    <3>2. b.base <= MaxHeight  BY <3>1, ControlFlowAssumption, RegsAssumption DEF ControlBlock
    <3>3. e.type = b.type /\ e.base = b.base /\ e.arity = b.arity
      BY <1>3, <2>6 DEF SameBlocks
    <3> QED  BY <3>1, <3>2, <3>3
  <2>8. CASE d = n - 1
    <3>1. i = 1 /\ control # <<>>  BY <1>1, <2>1, <2>8
    <3>2. Results(b) = Arity
      <4>1. control[1].type = "block" /\ control[1].arity = Arity  BY <3>1 DEF Blocks
      <4> QED  BY <3>1, <4>1 DEF Results
    <3>3. Arity <= Len(m.c.stack)  BY <1>3, <1>4, <2>6, <2>7, <3>2
    <3>4. [j \in 1 .. Arity |-> ValueAt(m.c, Height(m.c))] = Wasm!Leave(Contents(m.c), 0, Arity)
      BY <1>5, <3>3, ReturnedValues
    <3>5. Carried(m, d) = Wasm!Leave(f, 0, Arity)  BY <1>3, <2>5, <2>8, <3>4 DEF Carried
    <3> QED  BY <2>5, <2>8, <3>5
  <2>9. CASE d # n - 1 /\ b.type = "loop"
    <3>1. i \in E  BY <2>9 DEF Hits
    <3>2. Contents(e.label) = Wasm!Leave(f, b.base, Results(b)) /\ e.reached
      <4> DEFINE a == At(c, control)
      <4>1. a.k = control  BY DEF At
      <4>2. Delivered(a, m, f, E)  BY DEF f
      <4> HIDE DEF a, E
      <4> QED  BY <2>6, <3>1, <4>1, <4>2 DEF Delivered
    <3>3. Results(b) = 0 /\ Results(e) = 0  BY <2>7, <2>9 DEF Results
    <3>4. e.label \in Context /\ Len(e.label.stack) = b.base
      <4>1. i \in 1 .. Len(m.k)  BY <1>3, <2>6 DEF SameBlocks
      <4>2. e \in ControlBlock /\ BlockSound(e, m.c.spills)  BY <1>5, <4>1, BlockShape
      <4>3. Len(e.label.stack) = e.base + Results(e)  BY <3>2, <4>2 DEF BlockSound
      <4>4. e.label \in Context  BY <4>2 DEF ControlBlock
      <4> QED  BY <2>7, <3>3, <4>3, <4>4
    <3> DEFINE l == e.label
               base == b.base
    <3>5. base <= Len(f) /\ base \in Nat /\ base <= MaxHeight
      BY <1>4, <2>6, <2>7, <3>3
    <3>6. Carried(m, d) = [j \in 1 .. base |-> ValueAt(l, j)]
      BY <2>5, <2>9 DEF Carried
    <3>7. l \in Context /\ Len(l.stack) = base /\ Contents(l) = Wasm!Leave(f, base, 0)
      BY <3>2, <3>3, <3>4
    <3> HIDE DEF l, base
    <3>8. Carried(m, d) = SubSeq(f, 1, base)  BY <1>4, <3>5, <3>6, <3>7, RestartValues
    <3> QED  BY <2>4, <2>5, <2>9, <3>8 DEF base
  <2>10. CASE d # n - 1 /\ b.type # "loop"  BY <2>5, <2>10
  <2> QED  BY <2>8, <2>9, <2>10
<1>7. Code!Emit(k, [d \in D |-> mine(d)])  BY DEF Leaves
<1>8. Wasm!Backward(f, D) = [d \in D |-> theirs(d)]  BY DEF Wasm!Backward
<1> HIDE DEF mine, theirs
<1>9. [d \in D |-> mine(d)] = [d \in D |-> theirs(d)]  BY <1>6
<1>10. Code!Emit(k, Wasm!Backward(f, D))  BY <1>7, <1>8, <1>9
<1> QED  BY <1>10, Emits DEF f

\* A jump from context c.
LEMMA JumpMeans ==
  ASSUME IInv, NEW D \in SUBSET Labels, NEW c, Fits(c), NEW top \in Nat, NEW m,
         Jumped(At(c, control), m, top),
         \A d \in D : Reaches(At(c, control), Len(control) - d, top),
         Delivered(At(c, control), m, Contents(c), Hits(Len(control), D)),
         NEW k, Leaves(k, m, D), NEW k2, Rescoped(m.k, k2), Proceed(m.c, k2)
  PROVE  /\ Wasm!Jump(k, Contents(c), D)
         /\ Live' = LiveStack(k2) /\ Path' = PathOf(m.c, k2)
<1>1. control \in Seq(ControlBlock) /\ Blocks(control, spills)  BY DEF IInv, Blocks
<1>2. /\ SameBlocks(control, m.k) /\ Fits(m.c) /\ Blocks(m.k, m.c.spills)
  BY DEF Jumped, Running, At
<1>3. m.c \in Context /\ m.k \in Seq(ControlBlock)  BY <1>2, FitsShape DEF Blocks
<1>4. Scopes' = ScopesOf(k2) /\ Live' = LiveStack(k2) /\ Path' = PathOf(m.c, k2)
  BY <1>3, PathsNext
<1>5. ScopesOf(k2) = ScopesOf(m.k)  BY <1>3, RescopedScopes
<1>6. ScopesOf(m.k) = Wasm!Arrive(Contents(c), D)  BY <1>1, <1>2, <1>3, ArriveMeans
<1>7. Wasm!Body!Does(k, Wasm!Backward(Contents(c), D))  BY <1>1, LeavesMean
<1> QED  BY <1>4, <1>5, <1>6, <1>7 DEF Wasm!Jump

\* The operands that the label takes are there.
LEMMA EnoughMeans ==
  ASSUME IInv, NEW n \in Nat, NEW d \in Labels, Compiles(n + TargetArity(d))
  PROVE  Wasm!Enough(n, d) /\ d \in Wasm!Labels
<1> DEFINE l == Len(control)
           i == l - d
           b == control[i]
<1>1. l \in Nat /\ control \in Seq(ControlBlock) /\ Blocks(control, spills)
  BY DEF IInv, Blocks
<1>2. i \in 1 .. l /\ d \in 0 .. l - 1  BY <1>1 DEF Labels
<1>3. Len(Scopes) = l /\ Scopes[i] = Scope(b)
  BY <1>1, <1>2, ScopesShape, PathsNow
<1>4. Scope(b).type = b.type /\ Scope(b).arity = b.arity  BY DEF Scope
<1>5. Wasm!Target(d) = Scopes[i]  BY <1>3 DEF Wasm!Target
<1>6. Wasm!Carries(d) = TargetArity(d)
  BY <1>3, <1>4, <1>5 DEF Wasm!Carries, TargetArity, Target
<1>7. n + TargetArity(d) \in Nat  BY TargetArityShape
<1>8. Live /\ Wasm!Body!Operands >= n + TargetArity(d)  BY <1>7, PathHolds
<1>9. d \in Wasm!Labels  BY <1>2, <1>3 DEF Wasm!Labels
<1> QED  BY <1>6, <1>8, <1>9 DEF Wasm!Enough

\* br.
LEMMA BrMeans ==
  ASSUME IInv, NEW d \in Labels, Br(d)
  PROVE  Wasm!Br(d) /\ d \in Wasm!Labels
<1> DEFINE m0 == At(Ctx, control)
           m == BrOrRet(m0, d)
           a == Current.base
           k1 == EndControl(m.k)
           k2 == Forgotten(k1)
           D == {d}
<1>1. Compiles(TargetArity(d)) /\ Proceed(m.c, k2) /\ Leaves("br", m, D)
  BY DEF Br
<1>2. TargetArity(d) \in Nat /\ 0 + TargetArity(d) = TargetArity(d)
  BY TargetArityShape
<1>3. /\ Fits(Ctx) /\ Ctx \in Context /\ Ctx.stack = stack /\ Len(stack) \in Nat
  BY <1>1, <1>2, CompiledAbove
<1>4. control # <<>> /\ control \in Seq(ControlBlock)  BY <1>1 DEF Compiles, IInv, Blocks
<1>5. Running(m0, a) /\ a \in Nat
  <2>1. Later(Ctx, Ctx, NumLocals + 1 .. Current.base)  BY <1>3, SameFollows
  <2> QED  BY <1>1, <1>2, <1>3, <2>1, StartsRunning
<1>6. Compiles(0 + TargetArity(d))  BY <1>1, <1>2
<1>7. d \in Nat /\ Reaches(m0, Len(control) - d, a)
  <2>1. Len(Ctx.stack) = Len(stack) - 0  BY <1>3
  <2> QED  BY <1>6, <2>1, TargetReached
<1>8. m0.k = control /\ m0.c = Ctx  BY DEF At
<1> HIDE DEF m0, a
<1>9. Jumped(m0, m, a)  BY <1>5, <1>7, <1>8, BrOrRetJumps
<1>10. Delivered(m0, m, Contents(Ctx), Hits(Len(control), D))
  BY <1>5, <1>7, <1>8, BrOrRetDelivers
<1> HIDE DEF m
<1>11. m.k \in Seq(ControlBlock) /\ m.k # <<>>
  BY <1>4, <1>8, <1>9 DEF Jumped, Running, SameBlocks, Blocks
<1>12. Rescoped(m.k, k2) /\ ~LiveStack(k2)
  <2>1. Rescoped(m.k, k1) /\ ~LiveStack(k1)  BY <1>11, EndControlRescopes
  <2>2. k1 \in Seq(ControlBlock)  BY <2>1 DEF Rescoped, Relabels
  <2> HIDE DEF k1
  <2>3. Rescoped(k1, k2) /\ ~LiveStack(k2)  BY <2>1, <2>2, ForgottenRescopes
  <2> HIDE DEF k2
  <2> QED  BY <2>1, <2>3, RescopedTransitive
<1>13. D \in SUBSET Labels /\ \A e \in D : Reaches(m0, Len(control) - e, a)  BY <1>7
<1> HIDE DEF k2, D
<1>14. /\ Wasm!Jump("br", Contents(Ctx), D)
       /\ Live' = LiveStack(k2) /\ Path' = PathOf(m.c, k2)
  BY <1>1, <1>3, <1>5, <1>9, <1>10, <1>12, <1>13, JumpMeans DEF m0
<1>15. Wasm!Enough(0, d) /\ d \in Wasm!Labels  BY <1>6, EnoughMeans
<1>16. Path = Contents(Ctx)  BY <1>1, <1>2, PathHolds
<1>17. Wasm!Dead  BY <1>12, <1>14 DEF Wasm!Dead, PathOf
<1> QED  BY <1>14, <1>15, <1>16, <1>17 DEF Wasm!Br, D

\* br_if: the path goes on with what the jump has left.
LEMMA BrIfMeans ==
  ASSUME IInv, NEW d \in Labels, BrIf(d)
  PROVE  Wasm!BrIf(d) /\ d \in Wasm!Labels
<1> DEFINE p == PopToRegister(Ctx, {})
           m0 == At(p.c, control)
           m == BrOrRet(m0, d)
           a == Current.base
           l == Len(control)
           k2 == Forgotten(m.k)
           D == {d}
<1>1. Compiles(1 + TargetArity(d)) /\ Proceed(m.c, k2) /\ Leaves("br_if", m, D)
  BY DEF BrIf
<1>2. TargetArity(d) \in Nat /\ Compiles(1)  BY <1>1, TargetArityShape, CompiledWeaker
<1>3. /\ Fits(p.c) /\ Len(p.c.stack) = Len(stack) - 1
      /\ Later(Ctx, p.c, NumLocals + 1 .. Current.base)
  BY <1>2, PoppedForJump
<1>4. Contents(p.c) = SubSeq(Path, 1, Len(Path) - 1) /\ Live /\ Wasm!Body!Operands >= 1
  <2>1. /\ Fits(Ctx) /\ Ctx.stack = stack /\ Len(stack) \in Nat /\ NumLocals \in Nat
        /\ NumLocals + 1 <= Len(stack)
    BY <1>2, CompiledAbove
  <2>2. Len(Ctx.stack) > 0  BY <2>1
  <2>3. Path = Contents(Ctx) /\ Live /\ Wasm!Body!Operands >= 1  BY <1>2, PathHolds
  <2> QED  BY <2>1, <2>2, <2>3, PoppedContents
<1>5. control # <<>> /\ control \in Seq(ControlBlock) /\ LiveStack(control) /\ l \in 1 .. l
  BY <1>2, Compiled DEF Compiles
<1> HIDE DEF p
<1>6. Running(m0, a) /\ a \in Nat  BY <1>2, <1>3, StartsRunning
<1>7. d \in Nat /\ Reaches(m0, l - d, a)  BY <1>1, <1>3, TargetReached
<1>8. m0.k = control /\ m0.c = p.c  BY DEF At
<1> HIDE DEF m0, a, l
<1>9. Jumped(m0, m, a)  BY <1>6, <1>7, <1>8, BrOrRetJumps DEF l
<1>10. Delivered(m0, m, Contents(p.c), Hits(l, D))
  BY <1>6, <1>7, <1>8, BrOrRetDelivers DEF l
<1> HIDE DEF m
<1>11. SameBlocks(control, m.k) /\ m.k \in Seq(ControlBlock)
  BY <1>8, <1>9 DEF Jumped, Running, Blocks
<1>12. Rescoped(m.k, k2) /\ (LiveStack(k2) <=> LiveStack(m.k))
  BY <1>11, ForgottenRescopes
<1> HIDE DEF k2
<1>13. LiveStack(k2)
  <2>1. Len(m.k) = l /\ m.k[l].reach = control[l].reach  BY <1>5, <1>11 DEF SameBlocks, l
  <2>2. m.k # <<>>  BY <1>5, <2>1
  <2> QED  BY <1>5, <1>12, <2>1, <2>2 DEF LiveStack, Reachable, l
<1>14. D \in SUBSET Labels /\ \A e \in D : Reaches(m0, l - e, a)  BY <1>7
<1> HIDE DEF D
<1>15. /\ Wasm!Jump("br_if", Contents(p.c), D)
       /\ Live' = LiveStack(k2) /\ Path' = PathOf(m.c, k2)
  BY <1>1, <1>3, <1>6, <1>9, <1>10, <1>12, <1>14, JumpMeans DEF m0, l
<1>16. Contents(m.c) = Contents(p.c)  BY <1>8, <1>10 DEF Delivered
<1>17. Path' = Contents(p.c) /\ Live' = TRUE  BY <1>13, <1>15, <1>16 DEF PathOf
<1>18. Wasm!Consume(1)  BY <1>4, <1>17 DEF Wasm!Consume, Wasm!Body!Keep
<1>19. Wasm!Enough(1, d) /\ d \in Wasm!Labels  BY <1>1, EnoughMeans
<1>20. Wasm!Jump("br_if", Path', D)  BY <1>15, <1>17
<1> QED  BY <1>18, <1>19, <1>20 DEF Wasm!BrIf, D

\* br_table.
LEMMA BrTableMeans ==
  ASSUME IInv, NEW D \in SUBSET Labels, D # {}, NEW table \in BOOLEAN, BrTable(D, table)
  PROVE  Wasm!BrTable(D) /\ D \in SUBSET Wasm!Labels
<1> DEFINE p == PopToRegister(Ctx, {})
           u == GetUnused(p.c, {}, {p.reg})
           c == IF table THEN u.c ELSE p.c
           m0 == At(c, control)
           m == BrAll(m0, D)
           a == Current.base
           I == NumLocals + 1 .. a
           k1 == EndControl(m.k)
           k2 == Forgotten(k1)
<1>1. /\ \A d \in D : Compiles(1 + TargetArity(d))
      /\ Proceed(m.c, k2) /\ Leaves("br_table", m, D)
  BY DEF BrTable
<1>2. Compiles(1)
  <2>1. PICK d \in D : TRUE  OBVIOUS
  <2>2. Compiles(1 + TargetArity(d)) /\ TargetArity(d) \in Nat  BY <1>1, TargetArityShape
  <2> QED  BY <2>2, CompiledWeaker
<1>3. /\ Fits(p.c) /\ Len(p.c.stack) = Len(stack) - 1
      /\ Later(Ctx, p.c, I) /\ I \subseteq DOMAIN p.c.stack
  BY <1>2, PoppedForJump
<1>4. Ctx \in Context /\ control # <<>> /\ control \in Seq(ControlBlock)
  BY <1>2, CompiledAbove DEF Compiles, IInv, Blocks
<1>5. Contents(p.c) = SubSeq(Path, 1, Len(Path) - 1)
  <2>1. /\ Fits(Ctx) /\ Ctx.stack = stack /\ Len(stack) \in Nat /\ NumLocals \in Nat
        /\ NumLocals + 1 <= Len(stack)
    BY <1>2, CompiledAbove
  <2>2. Len(Ctx.stack) > 0  BY <2>1
  <2>3. Path = Contents(Ctx)  BY <1>2, PathHolds
  <2> QED  BY <2>1, <2>2, <2>3, PoppedContents
<1> HIDE DEF I
<1>6. Fits(c) /\ Len(c.stack) = Len(stack) - 1 /\ Later(Ctx, c, I) /\ Contents(c) = Contents(p.c)
  <2>1. CASE ~table  BY <1>3, <2>1
  <2>2. CASE table
    <3> DEFINE v == p.c
               pinned == {p.reg}
               e == GetUnused(v, {}, pinned)
    <3>0. c = e.c  BY <2>2
    <3>1. Choice(pinned)  BY OneMoreRegister
    <3>2. Fits(v) /\ Good(v) /\ v \in Context /\ Len(v.stack) <= MaxHeight
          /\ DOMAIN v.stack = 1 .. Len(v.stack)
      BY <1>3, FitsShape
    <3> HIDE DEF v, pinned, c, p
    <3>3. Good(e.c) /\ KeptSlots(v, e.c) /\ Vacant(v, pinned, e)
      BY <3>1, <3>2, GetUnusedGood, UnusedVacant
    <3>4. Later(v, e.c, I)
      <4>1. I \in SUBSET (DOMAIN v.stack)  BY <1>3 DEF v
      <4> QED  BY <3>1, <3>2, <4>1, GetUnusedLater
    <3> HIDE DEF e
    <3>5. /\ Good(c) /\ Len(c.stack) = Len(v.stack) /\ Later(v, c, I)
          /\ Intact(v, c, 1 .. Len(v.stack)) /\ c \in Context
      BY <3>0, <3>2, <3>3, <3>4 DEF KeptSlots, Vacant, Good
    <3>6. Later(Ctx, v, I) /\ Len(v.stack) = Len(stack) - 1  BY <1>3 DEF v
    <3>7. Later(Ctx, c, I)  BY <1>4, <3>2, <3>5, <3>6, LaterTransitive
    <3>8. Fits(c) /\ Len(c.stack) = Len(stack) - 1  BY <3>2, <3>5, <3>6 DEF Fits
    <3>9. Contents(c) = SubSeq(Contents(v), 1, Len(Contents(v)) - 0)
      <4>1. Len(v.stack) \in Nat  BY <3>2, FitsShape
      <4>2. 0 \in 0 .. Len(v.stack) /\ Len(c.stack) = Len(v.stack) - 0  BY <3>5, <4>1
      <4>3. Intact(v, c, 1 .. Len(c.stack))  BY <3>5
      <4> QED  BY <3>2, <3>8, <4>2, <4>3, LeftContents
    <3>10. Contents(v) = SubSeq(Contents(v), 1, Len(Contents(v)) - 0)
      <4>1. Len(v.stack) \in Nat  BY <3>2, FitsShape
      <4>2. 0 \in 0 .. Len(v.stack) /\ Len(v.stack) = Len(v.stack) - 0  BY <4>1
      <4>3. Intact(v, v, 1 .. Len(v.stack))  BY DEF Intact
      <4> QED  BY <3>2, <4>2, <4>3, LeftContents
    <3> QED  BY <3>7, <3>8, <3>9, <3>10 DEF v
  <2> QED  BY <2>1, <2>2
<1> HIDE DEF c, p
<1>7. Running(m0, a) /\ a \in Nat  BY <1>2, <1>6, StartsRunning DEF I
<1>8. m0.k = control /\ m0.c = c  BY DEF At
<1>9. \A d \in D : d \in Nat /\ d < Len(m0.k) /\ Reaches(m0, Len(m0.k) - d, a)
  <2> SUFFICES ASSUME NEW d \in D
               PROVE  d \in Nat /\ d < Len(m0.k) /\ Reaches(m0, Len(m0.k) - d, a)
    OBVIOUS
  <2>1. Compiles(1 + TargetArity(d)) /\ d \in Labels  BY <1>1
  <2>2. d \in Nat /\ Reaches(m0, Len(control) - d, a)  BY <1>6, <2>1, TargetReached
  <2>3. d < Len(control)
    <3>1. Len(control) \in Nat  BY <1>4
    <3> QED  BY <2>1, <3>1 DEF Labels
  <2> QED  BY <1>8, <2>2, <2>3
<1> HIDE DEF m0, a
<1>10. Jumped(m0, m, a)  BY <1>7, <1>9, BrAllJumps
<1>11. Delivered(m0, m, Contents(c), Hits(Len(control), D))
  BY <1>7, <1>8, <1>9, BrAllDelivers
<1> HIDE DEF m
<1>12. m.k \in Seq(ControlBlock) /\ m.k # <<>>
  BY <1>4, <1>8, <1>10 DEF Jumped, Running, SameBlocks, Blocks
<1>13. Rescoped(m.k, k2) /\ ~LiveStack(k2)
  <2>1. Rescoped(m.k, k1) /\ ~LiveStack(k1)  BY <1>12, EndControlRescopes
  <2>2. k1 \in Seq(ControlBlock)  BY <2>1 DEF Rescoped, Relabels
  <2> HIDE DEF k1
  <2>3. Rescoped(k1, k2) /\ ~LiveStack(k2)  BY <2>1, <2>2, ForgottenRescopes
  <2> HIDE DEF k2
  <2> QED  BY <2>1, <2>3, RescopedTransitive
<1>14. \A d \in D : Reaches(m0, Len(control) - d, a)  BY <1>8, <1>9
<1> HIDE DEF k2
<1>15. /\ Wasm!Jump("br_table", Contents(c), D)
       /\ Live' = LiveStack(k2) /\ Path' = PathOf(m.c, k2)
  BY <1>1, <1>6, <1>7, <1>10, <1>11, <1>13, <1>14, JumpMeans DEF m0
<1>16. \A d \in D : Wasm!Enough(1, d) /\ d \in Wasm!Labels  BY <1>1, EnoughMeans
<1>17. Wasm!Body!Keep(1) = Contents(c)  BY <1>5, <1>6 DEF Wasm!Body!Keep
<1>18. Wasm!Dead  BY <1>13, <1>15 DEF Wasm!Dead, PathOf
<1> QED  BY <1>15, <1>16, <1>17, <1>18 DEF Wasm!BrTable

\* The end of block i is reached by a path with frame f.
Ends(m, m2, i, f) ==
  /\ m2.k[i].reached /\ Contents(m2.k[i].label) = f
  /\ \A j \in 1 .. Len(m.k) : j # i => m2.k[j] = m.k[j]

\* A path that runs into the end of its block is delivered whole.
LEMMA FullJoinDelivers ==
  ASSUME NEW m, NEW i, NEW X, NEW s, NEW t, RunsInto(m, i, X, s, t)
  PROVE  Ends(m, Join(m, i, s, t, TRUE), i, Contents(s))
<1> DEFINE full == TRUE
           m2 == Join(m, i, s, t, TRUE)
           b == m.k[i]
           top == b.base
           P == Arrivals(m.k) \cup X
           n == m.c.spills
<1>1. /\ Good(m.c) /\ Blocks(m.k, n) /\ i \in 1 .. Len(m.k) /\ Agreeing(P)
      /\ Sound(s, n) /\ Len(s.stack) <= MaxHeight /\ Point(s, top) \in P
      /\ Len(s.stack) = top + Results(b) /\ Suits(b, P, s, t)
  BY DEF RunsInto
<1>2. top \in Nat /\ b.base \in 0 .. MaxHeight /\ NumLocals <= b.base /\ Results(b) \in Nat
  BY <1>1, BlockShape
<1>3. s \in Context /\ t \in Context /\ Len(t.stack) = top + Results(b)
  BY <1>1 DEF Sound, Suits
<1>4. full \in BOOLEAN /\ full  OBVIOUS
<1>5. m2 = Join(m, i, s, t, full)  OBVIOUS
<1>6. b.base = top  OBVIOUS
<1> HIDE DEF full, top, P, n, m2
<1>7. top <= top /\ top + Results(b) <= Len(s.stack) /\ Len(t.stack) <= Len(s.stack)
  BY <1>1, <1>2, <1>3
<1>8. MergeAsserts(s, t, Results(b), full)
  <2> HIDE DEF b
  <2> QED  BY <1>1, <1>2, <1>3, <1>4, <1>6, <1>7, JoinAsserts
<1>9. Delivered(m, Join(m, i, s, t, full), Contents(s), {i})
  BY <1>1, <1>3, <1>6, <1>7, <1>8, JoinDelivers
<1>10. /\ m2.k[i].reached /\ Contents(m2.k[i].label) = Wasm!Leave(Contents(s), top, Results(b))
       /\ \A j \in 1 .. Len(m.k) : j # i => m2.k[j] = m.k[j]
  BY <1>1, <1>5, <1>6, <1>9 DEF Delivered
<1>11. Wasm!Leave(Contents(s), top, Results(b)) = Contents(s)
  <2> DEFINE f == Contents(s)
             V == Values \cup {Junk}
  <2>1. f \in Seq(V) /\ Len(f) = top + Results(b)  BY <1>1, <1>3, ContentsTyped
  <2> HIDE DEF f, V, b
  <2> QED  BY <1>2, <2>1, LeaveAll DEF f
<1> QED  BY <1>10, <1>11 DEF Ends, m2

\* The path that is being compiled.
LEMMA FallThroughDelivers ==
  ASSUME IInv, control # <<>>, Closes, Current.type # "loop",
         NEW s, Point(s, Current.base) \in Points(Ctx, control),
         NEW t, Suits(Current, Points(Ctx, control), s, t),
         NEW m, m = FallThrough(At(Ctx, control), t), NEW n, n = Len(control)
  PROVE  /\ Live => m.k[n].reached /\ Contents(m.k[n].label) = Path
         /\ ~Live => m = At(Ctx, control)
         /\ Len(m.k) = n /\ \A j \in 1 .. n : j # n => m.k[j] = control[j]
<1> DEFINE m0 == At(Ctx, control)
           X == Here \cup {Point(t, Current.base)}
<1>1. Live => RunsInto(m0, n, X, Ctx, t)  BY FallThroughRuns
<1>2. m0.c = Ctx /\ m0.k = control  BY DEF At
<1>3. Live <=> Reachable(Current)  BY DEF Live
<1> HIDE DEF m0, X
<1>4. CASE Live
  <2>1. m = Join(m0, n, Ctx, t, TRUE)  BY <1>3, <1>4 DEF FallThrough, m0
  <2>2. /\ m.k[n].reached /\ Contents(m.k[n].label) = Contents(Ctx)
        /\ \A j \in 1 .. Len(m0.k) : j # n => m.k[j] = m0.k[j]
    <3>1. Ends(m0, Join(m0, n, Ctx, t, TRUE), n, Contents(Ctx))
      BY <1>1, <1>4, FullJoinDelivers
    <3> QED  BY <2>1, <3>1 DEF Ends
  <2>3. Path = Contents(Ctx)  BY <1>4, PathsNow
  <2>4. Len(m.k) = n
    <3>1. Onward(m0, Join(m0, n, Ctx, t, TRUE), X)  BY <1>1, <1>4, FullJoinOnward
    <3> QED  BY <1>2, <2>1, <3>1 DEF Onward, SameBlocks
  <2> QED  BY <1>2, <1>4, <2>2, <2>3, <2>4
<1>5. CASE ~Live
  <2>1. m = m0  BY <1>3, <1>5 DEF FallThrough, m0
  <2> QED  BY <1>2, <1>5, <2>1 DEF m0
<1> QED  BY <1>4, <1>5

\* The state of a label or an arm holds what it held when the compiler goes on with it.
LEMMA RestoreContents ==
  ASSUME NEW c \in Context, NEW s \in Context
  PROVE  Restore(c, s) \in Context /\ Contents(Restore(c, s)) = Contents(s)
<1> DEFINE e == Restore(c, s)
           p == c.spills
           o == c.ok
<1>1. e = [s EXCEPT !.spills = p, !.ok = o]  BY DEF Restore
<1>2. p \in Nat /\ o \in BOOLEAN  BY ContextShape
<1> HIDE DEF e, p, o
<1>3. e \in Context /\ e.stack = s.stack /\ e.regs = s.regs /\ e.mem = s.mem
  BY <1>1, <1>2 DEF Context
<1>4. Contents(e) = Contents(s)  BY <1>3 DEF Contents, ValueAt
<1> QED  BY <1>3, <1>4 DEF e

\* One block becomes another.
Rewritten(w, n, v) == [w EXCEPT ![n] = v]

LEMMA RewrittenScopes ==
  ASSUME NEW k \in Seq(ControlBlock), NEW k2 \in Seq(ControlBlock), NEW n \in 1 .. Len(k),
         Len(k2) = Len(k), \A i \in 1 .. Len(k) : i # n => k2[i] = k[i]
  PROVE  ScopesOf(k2) = Rewritten(ScopesOf(k), n, Scope(k2[n]))
<1>1. DOMAIN k = 1 .. Len(k) /\ DOMAIN k2 = 1 .. Len(k)  OBVIOUS
<1>2. ScopesOf(k) = [i \in 1 .. Len(k) |-> Scope(k[i])]  BY <1>1 DEF ScopesOf
<1>3. ScopesOf(k2) = [i \in 1 .. Len(k) |-> Scope(k2[i])]  BY <1>1 DEF ScopesOf
<1> DEFINE v == Scope(k2[n])
           f == [i \in 1 .. Len(k) |-> Scope(k[i])]
           g == [i \in 1 .. Len(k) |-> Scope(k2[i])]
<1>4. ASSUME NEW i \in 1 .. Len(k) PROVE g[i] = IF i = n THEN v ELSE f[i]
  OBVIOUS
<1>5. [f EXCEPT ![n] = v] = [i \in 1 .. Len(k) |-> IF i = n THEN v ELSE f[i]]  OBVIOUS
<1>6. g = [i \in 1 .. Len(k) |-> g[i]]  OBVIOUS
<1> HIDE DEF f, g, v
<1>7. g = [f EXCEPT ![n] = v]  BY <1>4, <1>5, <1>6
<1> QED  BY <1>2, <1>3, <1>7 DEF f, g, v, Rewritten

\* The innermost scope is that of the current block, and a path at its end holds the
\* values that stay.
LEMMA LastScope ==
  ASSUME IInv, control # <<>>, Closes
  PROVE  /\ control \in Seq(ControlBlock) /\ Len(Scopes) = Len(control)
         /\ Wasm!Last = Scope(Current) /\ Wasm!Falls
         /\ Wasm!Last = ScopeOf(Current.type, Current.arity, Current.base,
                                ExitOf(Current), ArmOf(Current))
<1> DEFINE n == Len(control)
<1>1. control \in Seq(ControlBlock) /\ Good(Ctx) /\ Ctx \in Context /\ Len(stack) <= MaxHeight
      /\ Ctx.stack = stack
  BY Anywhere
<1>2. /\ n \in 1 .. n /\ Current = control[n]
      /\ Live => Len(stack) = Current.base + Current.arity
  BY EndOfBlock
<1>3. Len(Scopes) = n /\ Scopes[n] = Scope(Current)
  BY <1>1, <1>2, ScopesShape, PathsNow
<1>4. Wasm!Last = Scope(Current)  BY <1>3 DEF Wasm!Last
<1>5. Scope(Current) = ScopeOf(Current.type, Current.arity, Current.base,
                               ExitOf(Current), ArmOf(Current))
  BY ScopeShape
<1>6. Wasm!Falls
  <2>1. Live => Len(Path) = Len(stack)
    <3>1. Fits(Ctx)  BY <1>1 DEF Fits
    <3>2. Len(Contents(Ctx)) = Len(Ctx.stack)  BY <3>1, ContentsShape
    <3> QED  BY <1>1, <3>2, PathsNow
  <2>2. Wasm!Last.base = Current.base /\ Wasm!Last.arity = Current.arity
    BY <1>4, <1>5 DEF ScopeOf
  <2> QED  BY <1>2, <2>1, <2>2 DEF Wasm!Falls
<1> QED  BY <1>1, <1>3, <1>4, <1>5, <1>6

\* else.
LEMMA ElseMeans ==
  ASSUME IInv, Else
  PROVE  Wasm!Else
<1> DEFINE n == Len(control)
           b == Current
           t == LabelState(At(Ctx, control), n, Ctx)
           m == FallThrough(At(Ctx, control), t)
           c == Restore(m.c, m.k[n].else)
           b2 == SecondArm(m.k[n])
           k2 == [m.k EXCEPT ![n] = b2]
           w == Scopes[n]
           x == IF Live THEN {Path} ELSE ExitOf(b)
<1>1. n > 1 /\ b.type = "if" /\ Closes /\ Code!Emit("else", <<>>) /\ control # <<>>
  BY DEF Else
<1>2. /\ n \in 1 .. n /\ n \in Nat /\ b = control[n] /\ b.else \in Context
      /\ control \in Seq(ControlBlock)
  BY <1>1, EndOfBlock, LastScope
<1>3. /\ Good(m.c) /\ m.k \in Seq(ControlBlock) /\ Len(m.k) = n
      /\ m.k[n].type = "if" /\ m.k[n].arity = b.arity /\ m.k[n].base = b.base
      /\ m.k[n].else = b.else
      /\ b2 \in ControlBlock /\ b2.type = "else" /\ b2.arity = m.k[n].arity
      /\ b2.base = m.k[n].base /\ b2.reach = "Reachable"
      /\ b2.reached = m.k[n].reached /\ b2.label = m.k[n].label
      /\ Proceed(c, k2)
  BY ElseMerges
<1> HIDE DEF t
<1>4. /\ Live => m.k[n].reached /\ Contents(m.k[n].label) = Path
      /\ \A j \in 1 .. n : j # n => m.k[j] = control[j]
      /\ ~Live => m.k[n] = b
  <2>1. CASE Live
    <3>1. Point(Ctx, Current.base) \in Points(Ctx, control)  BY <2>1, ElseSuits
    <3>2. Suits(Current, Points(Ctx, control), Ctx, t)  BY <2>1, ElseSuits DEF t
    <3>3. Current.type # "loop"  BY <1>1
    <3> HIDE DEF m, n, b
    <3>4. m = FallThrough(At(Ctx, control), t) /\ n = Len(control)  BY DEF m, n
    <3> QED  BY <1>1, <2>1, <3>1, <3>2, <3>3, <3>4, FallThroughDelivers
  <2>2. CASE ~Live
    <3>1. ~Reachable(Current)  BY <1>1, <2>2 DEF Live
    <3>2. m = At(Ctx, control)  BY <3>1 DEF FallThrough
    <3> QED  BY <1>2, <2>2, <3>2 DEF At
  <2> QED  BY <2>1, <2>2
<1> HIDE DEF m, b, n, b2
<1>5. k2 \in Seq(ControlBlock) /\ Len(k2) = n /\ k2[n] = b2
      /\ \A j \in 1 .. n : j # n => k2[j] = m.k[j]
  BY <1>2, <1>3, ExceptSeq
<1>6. c \in Context /\ Contents(c) = Contents(b.else)
  <2>1. m.c \in Context  BY <1>3 DEF Good
  <2> QED  BY <1>2, <1>3, <2>1, RestoreContents
<1> HIDE DEF k2, c
<1>7. LiveStack(k2)
  <2>1. k2 # <<>>  BY <1>2, <1>5
  <2> QED  BY <1>3, <1>5, <2>1 DEF LiveStack, Reachable
<1>8. Live' = TRUE /\ Path' = Contents(b.else) /\ Scopes' = ScopesOf(k2)
  BY <1>3, <1>6, <1>7, PathsNext
<1>9. ScopesOf(k2) = [Scopes EXCEPT ![n] = Scope(b2)]
  <2>1. \A j \in 1 .. Len(control) : j # n => k2[j] = control[j]  BY <1>4, <1>5 DEF n
  <2>2. n \in 1 .. Len(control) /\ Len(k2) = Len(control)  BY <1>2, <1>5 DEF n
  <2>3. ScopesOf(k2) = Rewritten(ScopesOf(control), n, Scope(k2[n]))
    BY <1>2, <1>5, <2>1, <2>2, RewrittenScopes
  <2> QED  BY <1>5, <2>3, PathsNow DEF Rewritten
<1>10. Scope(b2) = ScopeOf("else", b.arity, b.base, x, {})
  <2>1. ArmOf(b2) = {}  BY <1>3 DEF ArmOf
  <2>2. ExitOf(b2) = x
    <3>1. CASE Live  BY <1>3, <1>4, <3>1 DEF ExitOf
    <3>2. CASE ~Live
      <4>1. m.k[n] = b  BY <1>4, <3>2
      <4> QED  BY <1>1, <1>3, <3>2, <4>1 DEF ExitOf
    <3> QED  BY <3>1, <3>2
  <2> HIDE DEF x
  <2> QED  BY <1>3, <2>1, <2>2, ScopeShape
<1>11. /\ w = ScopeOf(b.type, b.arity, b.base, ExitOf(b), ArmOf(b)) /\ Len(Scopes) = n
       /\ Wasm!Last = w /\ Wasm!Falls
  BY <1>1, LastScope DEF n, b, Wasm!Last
<1>12. w.type = "if" /\ w.exit = ExitOf(b) /\ w.else = {Contents(b.else)}
  BY <1>1, <1>11 DEF ScopeOf, ArmOf
<1> HIDE DEF w
<1>13. Scope(b2) = [w EXCEPT !.type = "else", !.else = {},
                             !.exit = IF Live THEN {Path} ELSE @]
  <2>1. Typed(w, "else") = ScopeOf("else", b.arity, b.base, ExitOf(b), ArmOf(b))
    BY <1>11, ScopeRewritten
  <2>2. Armed(Typed(w, "else"), {}) = ScopeOf("else", b.arity, b.base, ExitOf(b), {})
    BY <2>1, ScopeRewritten
  <2> HIDE DEF x
  <2>3. Exited(Armed(Typed(w, "else"), {}), x) = ScopeOf("else", b.arity, b.base, x, {})
    BY <2>2, ScopeRewritten
  <2>4. [w EXCEPT !.type = "else", !.else = {}, !.exit = x]
          = Exited(Armed(Typed(w, "else"), {}), x)
    BY DEF Exited, Armed, Typed
  <2>5. x = IF Live THEN {Path} ELSE w.exit  BY <1>12 DEF x
  <2> QED  BY <1>10, <2>3, <2>4, <2>5
<1>14. Wasm!Continue(Wasm!Last.else)
  BY <1>8, <1>11, <1>12 DEF Wasm!Continue
<1>15. Wasm!Body!Does("else", <<>>)  BY <1>1, Emits
<1>16. Scopes' = [Scopes EXCEPT ![Len(Scopes)] =
                    [Wasm!Last EXCEPT !.type = "else", !.else = {},
                                      !.exit = IF Live THEN {Path} ELSE @]]
  BY <1>8, <1>9, <1>11, <1>13
<1> QED  BY <1>1, <1>11, <1>12, <1>14, <1>15, <1>16 DEF Wasm!Else

\* The frames of the paths that reach the end of the block.
Frames == (IF Live THEN {Path} ELSE {}) \cup ExitOf(Current) \cup ArmOf(Current)

\* The code after the block goes on with one of them, and with the blocks around.
Resuming(m) ==
  /\ m.c \in Context /\ m.k \in Seq(ControlBlock) /\ Blocks(m.k, m.c.spills)
  /\ Len(m.k) = Len(control) /\ \A j \in 1 .. Len(control) - 1 : m.k[j] = control[j]
  /\ ParentReached => Contents(m.c) \in Frames

\* finish_one_armed_if.
LEMMA OneArmedResumes ==
  ASSUME IInv, control # <<>>, Closes, Current.type = "if", Current.arity = 0,
         NEW m, m = FinishOneArmedIf(At(Ctx, control))
  PROVE  Resuming(m)
<1> DEFINE n == Len(control)
           b == Current
           s == b.else
           m0 == At(Ctx, control)
           t == LabelState(m0, n, s)
           m1 == FallThrough(m0, t)
           m2 == Join(m1, n, s, t, TRUE)
           X == Here \cup {Point(t, b.base)}
<1>1. n \in 1 .. n /\ n \in Nat /\ b = control[n] /\ s \in Context  BY EndOfBlock
<1>2. /\ Good(Ctx) /\ Ctx \in Context /\ control \in Seq(ControlBlock)
      /\ Blocks(control, Ctx.spills)
  BY Anywhere
<1>3. m = IF b.reached \/ Reachable(b) THEN At(Restore(m2.c, m2.k[n].label), m2.k)
          ELSE At(Restore(Ctx, s), control)
  BY DEF FinishOneArmedIf, At
<1>4. Contents(s) \in Frames  BY DEF Frames, ArmOf
<1>5. /\ Leaving(m)
  BY OneArmedLeaves
<1>6. /\ m.c \in Context /\ m.k \in Seq(ControlBlock) /\ Blocks(m.k, m.c.spills)
      /\ Len(m.k) = n
  BY <1>5 DEF Leaving, Good, Blocks, SameBlocks
<1>7. /\ Point(s, b.base) \in Points(Ctx, control) /\ Suits(b, Points(Ctx, control), s, t)
      /\ Onward(m0, m1, X) /\ RunsInto(m1, n, X, s, t)
  BY OneArmedMerges
<1> HIDE DEF b, t, X
<1>8. Len(m1.k) = n /\ \A j \in 1 .. n : j # n => m1.k[j] = control[j]
  <2>1. Current.type # "loop"  OBVIOUS
  <2>2. Point(s, Current.base) \in Points(Ctx, control)
        /\ Suits(Current, Points(Ctx, control), s, t)
    BY <1>7 DEF b
  <2> HIDE DEF s, m1, n
  <2>3. m1 = FallThrough(At(Ctx, control), t) /\ n = Len(control)  BY DEF m1, n
  <2> QED  BY <2>1, <2>2, <2>3, FallThroughDelivers
<1> HIDE DEF m0, m1, s, n
<1>9. Ends(m1, m2, n, Contents(s))  BY <1>7, FullJoinDelivers
<1>10. Onward(m1, m2, X)  BY <1>7, FullJoinOnward
<1> HIDE DEF m2
<1>11. CASE ~(b.reached \/ Reachable(b))
  <2>1. m.c = Restore(Ctx, s) /\ m.k = control  BY <1>3, <1>11 DEF At
  <2>2. Contents(m.c) = Contents(s)  BY <1>1, <1>2, <2>1, RestoreContents
  <2> QED  BY <1>4, <1>6, <2>1, <2>2 DEF Resuming, n
<1>12. CASE b.reached \/ Reachable(b)
  <2>1. m.c = Restore(m2.c, m2.k[n].label) /\ m.k = m2.k  BY <1>3, <1>12 DEF At
  <2>2. m2.c \in Context /\ m2.k[n].label \in Context
    <3>1. Good(m2.c) /\ Blocks(m2.k, m2.c.spills) /\ SameBlocks(m1.k, m2.k)
      BY <1>10 DEF Onward, RunsInto
    <3>2. n \in 1 .. Len(m2.k)  BY <1>1, <1>8, <3>1 DEF SameBlocks
    <3> QED  BY <3>1, <3>2, BlockShape DEF Good
  <2>3. Contents(m.c) = Contents(s)  BY <1>9, <2>1, <2>2, RestoreContents DEF Ends
  <2>4. \A j \in 1 .. n - 1 : m2.k[j] = control[j]
    <3> TAKE j \in 1 .. n - 1
    <3>1. j \in 1 .. n /\ j # n  BY <1>1
    <3> QED  BY <1>8, <1>9, <3>1 DEF Ends
  <2> QED  BY <1>4, <1>6, <2>1, <2>3, <2>4 DEF Resuming, n
<1> QED  BY <1>11, <1>12

\* pop_control.
LEMMA PopControlResumes ==
  ASSUME IInv, control # <<>>, Closes, Current.type = "if" => Current.arity = 0,
         NEW m, m = PopControl(At(Ctx, control))
  PROVE  Resuming(m)
<1> DEFINE n == Len(control)
           m0 == At(Ctx, control)
           s == Current.label
           m1 == FallThrough(m0, s)
<1>1. CASE Current.type = "if"
  <2>1. m = FinishOneArmedIf(m0)  BY <1>1 DEF PopControl
  <2> QED  BY <1>1, <2>1, OneArmedResumes
<1>2. Leaving(m)  BY PopControlLeaves
<1>3. /\ m.c \in Context /\ m.k \in Seq(ControlBlock) /\ Blocks(m.k, m.c.spills)
      /\ Len(m.k) = n
  BY <1>2 DEF Leaving, Good, Blocks, SameBlocks
<1>4. Live => Path = Contents(Ctx)  BY PathsNow
<1>5. n \in 1 .. n /\ n \in Nat /\ Current = control[n] /\ s \in Context  BY EndOfBlock
<1>6. CASE Current.type = "loop" \/ (Current.type # "if" /\ ~Current.reached)
  <2>1. m.c = Ctx /\ m.k = control  BY <1>6 DEF PopControl, At
  <2>2. ParentReached => Live  BY <1>6 DEF ParentReached, Live
  <2> QED  BY <1>3, <1>4, <2>1, <2>2 DEF Resuming, Frames
<1>7. CASE Current.type \notin {"if", "loop"} /\ Current.reached
  <2>1. m.c = Restore(m1.c, m1.k[n].label) /\ m.k = m1.k  BY <1>7 DEF PopControl, At
  <2>2. Point(s, Current.base) \in Points(Ctx, control)
        /\ Suits(Current, Points(Ctx, control), s, s)
    BY <1>7, LabelSuits
  <2>3. Contents(s) \in ExitOf(Current)  BY <1>7 DEF ExitOf
  <2>4. Current.type # "loop"  BY <1>7
  <2>5. m1 = FallThrough(At(Ctx, control), s) /\ n = Len(control)  OBVIOUS
  <2> HIDE DEF s, m1, n
  <2>6. /\ Live => m1.k[n].reached /\ Contents(m1.k[n].label) = Path
        /\ ~Live => m1 = At(Ctx, control)
        /\ Len(m1.k) = n /\ \A j \in 1 .. n : j # n => m1.k[j] = control[j]
    BY <2>2, <2>4, <2>5, FallThroughDelivers
  <2>7. m1.c \in Context /\ m1.k[n].label \in Context
    <3> DEFINE Y == Here \cup {Point(s, Current.base)}
    <3>1. Onward(At(Ctx, control), m1, Y)  BY <2>2, <2>4, <2>5, FallThroughOnward
    <3> HIDE DEF Y
    <3>2. Good(m1.c) /\ Blocks(m1.k, m1.c.spills)  BY <3>1 DEF Onward
    <3>3. n \in 1 .. Len(m1.k)  BY <1>5, <2>6
    <3> QED  BY <3>2, <3>3, BlockShape DEF Good
  <2>8. Contents(m.c) = Contents(m1.k[n].label)  BY <2>1, <2>7, RestoreContents
  <2>9. Contents(m.c) \in Frames
    <3>1. CASE Live  BY <2>6, <2>8, <3>1 DEF Frames
    <3>2. CASE ~Live
      <4>1. m1.k[n].label = s  BY <1>5, <2>6, <3>2 DEF At, s
      <4> QED  BY <2>3, <2>8, <4>1 DEF Frames
    <3> QED  BY <3>1, <3>2
  <2>10. \A j \in 1 .. n - 1 : m1.k[j] = control[j]
    <3> TAKE j \in 1 .. n - 1
    <3>1. j \in 1 .. n /\ j # n  BY <1>5
    <3> QED  BY <2>6, <3>1
  <2> QED  BY <1>3, <2>1, <2>9, <2>10 DEF Resuming, n
<1> QED  BY <1>1, <1>6, <1>7

\* The scopes around the block are left.
LEMMA OutsideScopes ==
  ASSUME control \in Seq(ControlBlock), Len(control) > 1, NEW m, Resuming(m)
  PROVE  ScopesOf(Outside(m.k)) = SubSeq(Scopes, 1, Len(Scopes) - 1)
<1> DEFINE n == Len(control)
           k == m.k
           o == Outside(k)
           l == n - 1
           s == ScopesOf(o)
           p == SubSeq(Scopes, 1, l)
<1>1. n \in Nat /\ l \in Nat /\ Scopes = ScopesOf(control)  BY PathsNow
<1>2. Len(k) = n /\ Blocks(k, m.c.spills) /\ \A j \in 1 .. l : k[j] = control[j]
  BY DEF Resuming
<1> HIDE DEF k
<1>3. /\ Blocks(o, m.c.spills) /\ Len(o) = l
      /\ \A i \in 1 .. l : /\ o[i].type = k[i].type /\ o[i].arity = k[i].arity
                           /\ o[i].base = k[i].base /\ o[i].reached = k[i].reached
                           /\ o[i].label = k[i].label /\ o[i].else = k[i].else
  <2>1. Blocks(k, m.c.spills) /\ Len(k) > 1 /\ Len(k) - 1 = l  BY <1>2
  <2> HIDE DEF l
  <2>2. /\ Blocks(Outside(k), m.c.spills) /\ Len(Outside(k)) = Len(k) - 1
        /\ \A i \in 1 .. Len(k) - 1 :
             /\ Outside(k)[i].type = k[i].type /\ Outside(k)[i].arity = k[i].arity
             /\ Outside(k)[i].base = k[i].base /\ Outside(k)[i].reached = k[i].reached
             /\ Outside(k)[i].label = k[i].label /\ Outside(k)[i].else = k[i].else
    BY <2>1, OutsideShape
  <2> QED  BY <2>1, <2>2
<1> HIDE DEF o
<1>4. s \in Seq(AnyScope) /\ Len(s) = l /\ \A i \in 1 .. l : s[i] = Scope(o[i])
  <2>1. o \in Seq(ControlBlock)  BY <1>3 DEF Blocks
  <2> QED  BY <1>3, <2>1, ScopesShape
<1>5. /\ Scopes \in Seq(AnyScope) /\ Len(Scopes) = n
      /\ \A i \in 1 .. n : Scopes[i] = Scope(control[i])
  BY <1>1, ScopesShape
<1> HIDE DEF s
<1>6. p \in Seq(AnyScope) /\ Len(p) = l /\ \A i \in 1 .. l : p[i] = Scopes[i]
  <2>1. l \in 0 .. Len(Scopes)  BY <1>1, <1>5
  <2> QED  BY <1>5, <2>1, PrefixShape
<1> HIDE DEF p
<1>7. \A i \in 1 .. Len(s) : s[i] = p[i]
  <2> TAKE i \in 1 .. Len(s)
  <2>1. i \in 1 .. l /\ i \in 1 .. n  BY <1>1, <1>4
  <2>2. ExitOf(o[i]) = ExitOf(k[i]) /\ ArmOf(o[i]) = ArmOf(k[i])
    BY <1>3, <2>1 DEF ExitOf, ArmOf
  <2>3. Scope(o[i]) = Scope(k[i])  BY <1>3, <2>1, <2>2, ScopeShape
  <2> QED  BY <1>2, <1>4, <1>5, <1>6, <2>1, <2>3
<1>8. s = p  BY <1>4, <1>6, <1>7, SeqEqual
<1> QED  BY <1>5, <1>8 DEF s, p, o, k

\* end.
LEMMA EndMeans ==
  ASSUME IInv, End
  PROVE  Wasm!End
<1> DEFINE m == PopControl(At(Ctx, control))
           k2 == Outside(m.k)
           n == Len(control)
<1>1. /\ n > 1 /\ control # <<>> /\ Closes /\ (Current.type = "if" => Current.arity = 0)
      /\ Proceed(m.c, k2) /\ Code!Emit("end", <<>>)
  BY DEF End
<1> HIDE DEF m
<1>2. Resuming(m)  BY <1>1, PopControlResumes DEF m
<1>3. /\ control \in Seq(ControlBlock) /\ Len(Scopes) = n /\ Wasm!Falls
      /\ Wasm!Last = ScopeOf(Current.type, Current.arity, Current.base,
                             ExitOf(Current), ArmOf(Current))
  BY <1>1, LastScope
<1>4. LiveStack(k2) <=> ParentReached
  <2>1. Blocks(m.k, m.c.spills) /\ Len(m.k) > 1  BY <1>1, <1>2 DEF Resuming
  <2> QED  BY <2>1, OutsideShape
<1>5. Scopes' = SubSeq(Scopes, 1, Len(Scopes) - 1)
  <2>1. Scopes' = ScopesOf(k2)  BY <1>1, <1>2, PathsNext DEF Resuming
  <2> QED  BY <1>1, <1>2, <1>3, <2>1, OutsideScopes
<1>6. /\ Live' = LiveStack(k2)
      /\ LiveStack(k2) => Path' = Contents(m.c)
      /\ ~LiveStack(k2) => Path' = <<>>
  BY <1>1, <1>2, PathsNext DEF Resuming
<1>7. ParentReached <=> Frames # {}
  <2>1. Live <=> Reachable(Current)  BY <1>1 DEF Live
  <2>2. ExitOf(Current) # {} <=> Current.type # "loop" /\ Current.reached  BY DEF ExitOf
  <2>3. ArmOf(Current) # {} <=> Current.type = "if"  BY DEF ArmOf
  <2> QED  BY <2>1, <2>2, <2>3 DEF ParentReached, Frames
<1>8. Frames = (IF Live THEN {Path} ELSE {}) \cup Wasm!Last.exit \cup Wasm!Last.else
  <2>1. Wasm!Last.exit = ExitOf(Current) /\ Wasm!Last.else = ArmOf(Current)
    BY <1>3 DEF ScopeOf
  <2> QED  BY <2>1 DEF Frames
<1> HIDE DEF k2
<1>9. Wasm!Continue(Frames)
  <2>1. Live' = (Frames # {})
    <3>1. LiveStack(k2) \in BOOLEAN  BY DEF LiveStack, Reachable
    <3> QED  BY <1>4, <1>6, <1>7, <3>1
  <2>2. Path' \in (IF Frames = {} THEN {<<>>} ELSE Frames)
    <3>1. CASE Frames = {}  BY <1>4, <1>6, <1>7, <3>1
    <3>2. CASE Frames # {}  BY <1>2, <1>4, <1>6, <1>7, <3>2 DEF Resuming
    <3> QED  BY <3>1, <3>2
  <2> QED  BY <2>1, <2>2 DEF Wasm!Continue
<1>10. Wasm!Body!Does("end", <<>>)  BY <1>1, Emits
<1> QED  BY <1>1, <1>3, <1>5, <1>8, <1>9, <1>10 DEF Wasm!End

\* The results of the function are the values on top of the path.
LEMMA ReturnsResults ==
  ASSUME IInv, control # <<>>, Live, Arity <= Len(stack),
         NEW m, m.c = Ctx, Leaves("return", m, {Len(control) - 1})
  PROVE  Wasm!Body!Does("return", Wasm!Backward(Path, {Len(Scopes) - 1}))
<1> DEFINE l == Len(control) - 1
           D == {l}
           f == Path
           g == Wasm!Leave(f, 0, Arity)
<1>1. /\ Good(Ctx) /\ Ctx.stack = stack /\ Len(stack) <= MaxHeight
      /\ control \in Seq(ControlBlock)
  BY Anywhere
<1>2. Len(Scopes) = Len(control)  BY <1>1, ScopesShape, PathsNow
<1>3. Carried(m, l) = g
  <2>1. Fits(Ctx) /\ Arity <= Len(Ctx.stack) /\ f = Contents(Ctx)  BY <1>1, PathsNow DEF Fits
  <2>2. [j \in 1 .. Arity |-> ValueAt(Ctx, Height(Ctx))] = g  BY <2>1, ReturnedValues
  <2>3. Outermost(l)  BY DEF Outermost
  <2> QED  BY <2>2, <2>3 DEF Carried
<1>4. Backward(l)  BY DEF Backward, Outermost
<1> HIDE DEF g
<1>5. Code!Emit("return", [d \in D |-> g])
  <2>1. [d \in D |-> IF Backward(d) THEN Carried(m, d) ELSE <<>>] = [d \in D |-> g]
    BY <1>3, <1>4
  <2> QED  BY <2>1 DEF Leaves
<1>6. Wasm!Backward(f, {Len(Scopes) - 1}) = [d \in D |-> g]
  <2>1. Wasm!Outermost(l) /\ ~Wasm!Forward(l)  BY <1>2 DEF Wasm!Outermost, Wasm!Forward
  <2> QED  BY <1>2, <2>1 DEF Wasm!Backward, g
<1> QED  BY <1>5, <1>6, Emits

\* The scopes of a path that ends: those of the code after it, or none after the last.
LEMMA DeadScopes ==
  ASSUME IInv, control # <<>>, NEW c, NEW k,
         k = EndControl(control) \/ k = <<>> \/ (k = control /\ ~Live), Proceed(c, k)
  PROVE  /\ Wasm!Dead /\ Scopes' \in {Scopes, <<>>}
         /\ k # <<>> => UNCHANGED Scopes
<1>1. control \in Seq(ControlBlock) /\ (Live <=> LiveStack(control))  BY Anywhere
<1>2. CASE k = EndControl(control)
  <2>1. Rescoped(control, k) /\ ~LiveStack(k)  BY <1>1, <1>2, EndControlRescopes
  <2>2. Scopes' = ScopesOf(k) /\ Live' = FALSE /\ Path' = <<>>  BY <2>1, DeadNext
  <2>3. ScopesOf(k) = ScopesOf(control)  BY <1>1, <2>1, RescopedScopes
  <2> QED  BY <2>2, <2>3, PathsNow DEF Wasm!Dead
<1>3. CASE k = <<>>
  <2>1. ~LiveStack(k) /\ k \in Seq(ControlBlock) /\ Len(k) = 0  BY <1>3 DEF LiveStack
  <2>2. Scopes' = ScopesOf(k) /\ Live' = FALSE /\ Path' = <<>>  BY <2>1, DeadNext
  <2> DEFINE s == ScopesOf(k)
  <2>3. s \in Seq(AnyScope) /\ Len(s) = 0  BY <2>1, ScopesShape
  <2> HIDE DEF s
  <2>4. s = <<>>  BY <2>3
  <2> QED  BY <1>3, <2>2, <2>4 DEF Wasm!Dead, s
<1>4. CASE k = control /\ ~Live
  <2>1. Scopes' = ScopesOf(k) /\ Live' = FALSE /\ Path' = <<>>  BY <1>1, <1>4, DeadNext
  <2> QED  BY <1>4, <2>1, PathsNow DEF Wasm!Dead
<1> QED  BY <1>2, <1>3, <1>4

\* return.
LEMMA ReturnMeans ==
  ASSUME IInv, Return
  PROVE  Wasm!Return
<1> DEFINE m == ReturnImpl(At(Ctx, control))
           ks == {EndControl(control), <<>>}
<1>1. Compiles(Arity) /\ Leaves("return", m, {Len(control) - 1})
  BY DEF Return
<1>2. PICK k \in ks : Proceed(m.c, k)  BY DEF Return
<1>3. Arity \in Nat /\ NumLocals \in Nat /\ control # <<>>
  BY <1>1, ControlFlowAssumption DEF Compiles
<1>4. /\ Good(Ctx) /\ Ctx \in Context /\ Ctx.stack = stack /\ Len(stack) \in Nat
      /\ NumLocals + Arity <= Len(stack)
  BY <1>1, <1>3, CompiledAbove
<1>5. Height(Ctx) >= Arity /\ Arity <= Len(stack)  BY <1>3, <1>4 DEF Height
<1>6. m.c = Ctx
  <2>1. m.c = Assert(Ctx, Height(Ctx) >= Arity)  BY DEF ReturnImpl, At
  <2>2. (Height(Ctx) >= Arity) \in BOOLEAN  OBVIOUS
  <2> QED  BY <1>4, <1>5, <2>1, <2>2, AssertTrue
<1> HIDE DEF m
<1>7. Live /\ Wasm!Body!Operands >= Arity  BY <1>1, <1>3, PathHolds
<1>8. Wasm!Body!Does("return", Wasm!Backward(Path, {Len(Scopes) - 1}))
  BY <1>1, <1>3, <1>5, <1>6, <1>7, ReturnsResults
<1>9. Wasm!Dead /\ Scopes' \in {Scopes, <<>>}  BY <1>2, <1>3, DeadScopes
<1> QED  BY <1>7, <1>8, <1>9 DEF Wasm!Return

\* The end of the body, which a path may or may not get to.
LEMMA EndFunctionMeans ==
  ASSUME IInv, EndFunction
  PROVE  Wasm!Return
<1> DEFINE m == At(Ctx, control)
           c == ReturnImpl(m).c
           k == <<>>
<1>1. /\ Len(control) = 1 /\ control # <<>> /\ Closes /\ Proceed(c, k)
      /\ Live => Leaves("return", m, {0})
      /\ ~Live => Code!Emit("return", <<>>)
  BY DEF EndFunction, Live
<1>2. m.c = Ctx  BY DEF At
<1> HIDE DEF m, c
<1>3. Wasm!Dead /\ Scopes' \in {Scopes, <<>>}
  <2>1. k = EndControl(control) \/ k = <<>> \/ (k = control /\ ~Live)  OBVIOUS
  <2> HIDE DEF k
  <2> QED  BY <1>1, <2>1, DeadScopes
<1>4. CASE Live
  <2>1. /\ Len(stack) = Current.base + Current.arity /\ Current = control[Len(control)]
        /\ Current.base \in Nat /\ NumLocals <= Current.base
    BY <1>1, <1>4, EndOfBlock
  <2>2. Current.arity = Arity
    <3>1. Blocks(control, Ctx.spills)  BY Anywhere
    <3> QED  BY <1>1, <2>1, <3>1 DEF Blocks
  <2>3. NumLocals \in Nat /\ Arity \in Nat  BY ControlFlowAssumption
  <2>4. Arity <= Len(stack) /\ NumLocals + Arity <= Len(stack)  BY <2>1, <2>2, <2>3
  <2>5. Len(Path) = Len(stack)
    <3>1. Good(Ctx) /\ Ctx.stack = stack /\ Len(stack) <= MaxHeight  BY Anywhere
    <3>2. Fits(Ctx)  BY <3>1 DEF Fits
    <3>3. Len(Contents(Ctx)) = Len(Ctx.stack)  BY <3>2, ContentsShape
    <3> QED  BY <1>4, <3>1, <3>3, PathsNow
  <2>6. Wasm!Body!Operands >= Arity
    <3>1. Len(stack) \in Nat  BY <2>1, <2>2, <2>3
    <3> QED  BY <2>3, <2>4, <2>5, <3>1 DEF Wasm!Body!Operands
  <2>7. Leaves("return", m, {Len(control) - 1})
    <3>1. Len(control) - 1 = 0  BY <1>1
    <3> QED  BY <1>1, <1>4, <3>1
  <2>8. Wasm!Body!Does("return", Wasm!Backward(Path, {Len(Scopes) - 1}))
    BY <1>1, <1>2, <1>4, <2>4, <2>7, ReturnsResults
  <2> QED  BY <1>3, <1>4, <2>6, <2>8 DEF Wasm!Return
<1>5. CASE ~Live
  <2>1. Wasm!Body!Does("return", <<>>)  BY <1>1, <1>5, Emits
  <2> QED  BY <1>3, <1>5, <2>1 DEF Wasm!Return
<1> QED  BY <1>4, <1>5

\* unreachable, and what stands in code that no path reaches.
LEMMA UnreachableMeans ==
  ASSUME IInv, ~UnreachableInElse, Unreachable
  PROVE  Wasm!Unreachable
<1>1. control # <<>> /\ Code!Emit("unreachable", <<>>)  BY DEF Unreachable
<1>2. Wasm!Body!Does("unreachable", <<>>)  BY <1>1, Emits
<1>3. Wasm!Dead /\ UNCHANGED Scopes
  <2>1. CASE Current.type # "else"
    <3> DEFINE k == EndControl(control)
    <3>1. Proceed(Ctx, k)  BY <2>1 DEF Unreachable
    <3>2. k # <<>>
      <4>1. control \in Seq(ControlBlock)  BY Anywhere
      <4>2. Rescoped(control, k)  BY <1>1, <4>1, EndControlRescopes
      <4>3. Len(k) = Len(control) /\ k \in Seq(ControlBlock)  BY <4>2 DEF Rescoped, Relabels
      <4> HIDE DEF k
      <4> QED  BY <1>1, <4>1, <4>3
    <3>3. k = EndControl(control) \/ k = <<>> \/ (k = control /\ ~Live)  OBVIOUS
    <3> HIDE DEF k
    <3> QED  BY <1>1, <3>1, <3>2, <3>3, DeadScopes
  <2>2. CASE Current.type = "else"
    <3>1. ~Live /\ Proceed(Ctx, control)  BY <2>2 DEF Unreachable, Live
    <3> QED  BY <1>1, <3>1, DeadScopes
  <2> QED  BY <2>1, <2>2
<1> QED  BY <1>2, <1>3 DEF Wasm!Unreachable

LEMMA DropNoResultMeans ==
  ASSUME IInv, DropNoResult
  PROVE  Wasm!Skip
<1> DEFINE c == IF stack = <<>> THEN Assert(Ctx, FALSE) ELSE DropTop(Ctx)
<1>1. control # <<>> /\ ~Live /\ Proceed(c, control) /\ Code!Emit("drop", <<>>)
  BY DEF DropNoResult, Live, Reachable
<1> HIDE DEF c
<1>2. Wasm!Body!Does("drop", <<>>)  BY <1>1, Emits
<1>3. Wasm!Dead /\ UNCHANGED Scopes  BY <1>1, DeadScopes
<1> QED  BY <1>1, <1>2, <1>3 DEF Wasm!Skip

\* Before the first instruction a path holds the arguments, and zeros.
LEMMA InitMeans ==
  ASSUME Init, ~FirstFunction
  PROVE  Wasm!Init
<1>0. /\ NumLocals \in Nat /\ NumParams \in 0 .. NumLocals /\ NumParams <= Len(ParamRegs)
      /\ ParamRegs \in Seq(Regs \ Reserved) /\ 0 \in Values
  BY ControlFlowAssumption, RegsAssumption DEF Init, Code!Init
<1>1. PICK v \in [1 .. NumParams -> Values] :
        regs = [r \in Regs |-> IF \E i \in 1 .. NumParams : ParamRegs[i] = r
                               THEN v[CHOOSE i \in 1 .. NumParams : ParamRegs[i] = r] ELSE Junk]
  BY DEF Init, Code!Init, Code!Junk, Junk
<1>2. stack = EntryStack(NumLocals, NumParams, ParamRegs)
  BY DEF Init, Code!Init, Code!EntrySlot, Code!RegSlot, Code!ConstSlot, Code!NoReg,
         RegSlot, ConstSlot, NoReg, EntryStack
<1>3. Ctx.stack = stack /\ Ctx.regs = regs  BY DEF Ctx, Code!Ctx
<1>4. DOMAIN stack = 1 .. NumLocals  BY <1>2 DEF EntryStack
<1>5. ASSUME NEW i \in 1 .. NumLocals PROVE ValueAt(Ctx, i) \in Values
  <2>1. CASE i <= NumParams
    <3> DEFINE r == ParamRegs[i]
               j == CHOOSE j \in 1 .. NumParams : ParamRegs[j] = r
    <3>1. r \in Regs /\ i \in 1 .. NumParams  BY <1>0, <2>1
    <3>2. j \in 1 .. NumParams  BY <3>1
    <3>3. regs[r] = v[j]  BY <1>1, <3>1
    <3>4. stack[i] = RegSlot(r)  BY <1>2, <2>1 DEF EntryStack
    <3> HIDE DEF r, j
    <3>5. ValueAt(Ctx, i) = regs[r]  BY <1>3, <3>4 DEF ValueAt, RegSlot
    <3> QED  BY <3>2, <3>3, <3>5
  <2>2. CASE ~(i <= NumParams)
    <3>1. stack[i] = ConstSlot(0)  BY <1>2, <2>2 DEF EntryStack
    <3>2. ValueAt(Ctx, i) = 0  BY <1>3, <3>1 DEF ValueAt, ConstSlot
    <3> QED  BY <1>0, <3>2
  <2> QED  BY <2>1, <2>2
<1> DEFINE b == [type |-> "block", arity |-> Arity, base |-> NumLocals, valid |-> NumLocals,
                 reach |-> "Reachable", reached |-> FALSE,
                 label |-> FreshState, else |-> FreshState]
<1>6. control = <<b>> /\ effect = [kind |-> "none", args |-> <<>>]  BY DEF Init, Code!Init
<1>7. b.type = "block" /\ b.arity = Arity /\ b.base = NumLocals /\ Reachable(b) /\ ~b.reached
  BY DEF Reachable
<1> HIDE DEF b
<1>8. Live /\ Path \in [1 .. NumLocals -> Values]
  <2>1. Live  BY <1>6, <1>7 DEF Live, Current
  <2>2. [i \in 1 .. NumLocals |-> ValueAt(Ctx, i)] \in [1 .. NumLocals -> Values]  BY <1>5
  <2> QED  BY <1>3, <1>4, <2>1, <2>2 DEF Path, Frame0
<1>9. Scopes = <<[Wasm!Block("block", Arity) EXCEPT !.base = NumLocals]>>
  <2> DEFINE w == Wasm!Block("block", Arity)
             l == Len(Path)
             e == Scope(b)
  <2>1. w = ScopeOf("block", Arity, l, {}, {})  BY DEF Wasm!Block, ScopeOf
  <2>2. e = ScopeOf("block", Arity, NumLocals, {}, {})
    <3>1. ExitOf(b) = {} /\ ArmOf(b) = {}  BY <1>7 DEF ExitOf, ArmOf
    <3> QED  BY <1>7, <3>1, ScopeShape
  <2> HIDE DEF w, l, e
  <2>3. Based(w, NumLocals) = e  BY <2>1, <2>2, ScopeRewritten
  <2>4. Scopes = <<e>>
    <3>1. Scopes = [i \in 1 .. 1 |-> e]  BY <1>6 DEF Scopes, e
    <3> QED  BY <3>1
  <2> QED  BY <2>3, <2>4 DEF Based, w
<1>10. Wasm!Body!Init  BY <1>6, <1>8 DEF Wasm!Body!Init, Wasm!Body!Effect
<1> QED  BY <1>8, <1>9, <1>10 DEF Wasm!Init, Live

\* Every instruction does to the paths what it means.
LEMMA NextMeans ==
  ASSUME IInv, ~UnreachableInElse, Next
  PROVE  Wasm!Next
<1>1. ASSUME \/ \E v \in Immediates : I32Const(v)
             \/ \E v \in Values : LoadValue(v)
             \/ \E x \in 1 .. NumLocals : GetLocal(x) \/ SetLocal(x)
             \/ Drop
      PROVE  Wasm!Next
  BY <1>1, StraightMeans DEF Wasm!Next
<1>2. ASSUME NEW arity \in {0, 1}, OpenBlock(arity) \/ OpenLoop(arity) \/ OpenIf(arity)
      PROVE  Wasm!Next
  BY <1>2, OpenBlockMeans, OpenLoopMeans, OpenIfMeans DEF Wasm!Next
<1>3. CASE Else  BY <1>3, ElseMeans DEF Wasm!Next
<1>4. CASE End  BY <1>4, EndMeans DEF Wasm!Next
<1>5. CASE EndFunction  BY <1>5, EndFunctionMeans DEF Wasm!Next
<1>6. CASE Return  BY <1>6, ReturnMeans DEF Wasm!Next
<1>7. CASE Unreachable  BY <1>7, UnreachableMeans DEF Wasm!Next
<1>8. CASE DropNoResult  BY <1>8, DropNoResultMeans DEF Wasm!Next
<1>9. ASSUME NEW d \in Labels, Br(d) PROVE Wasm!Next
  BY <1>9, BrMeans DEF Wasm!Next
<1>10. ASSUME NEW d \in Labels, BrIf(d) PROVE Wasm!Next
  BY <1>10, BrIfMeans DEF Wasm!Next
<1>11. ASSUME NEW D \in SUBSET Labels, D # {}, NEW table \in BOOLEAN, BrTable(D, table)
       PROVE  Wasm!Next
  BY <1>11, BrTableMeans DEF Wasm!Next
<1>12. ASSUME NEW d \in Labels, BrTable({d}, FALSE) PROVE Wasm!Next
  <2> DEFINE D == {d}
             table == FALSE
  <2>1. D \in SUBSET Labels /\ D # {} /\ table \in BOOLEAN /\ BrTable(D, table)
    BY <1>12
  <2> HIDE DEF D, table
  <2> QED  BY <1>11, <2>1
<1>13. ASSUME NEW D \in (SUBSET Labels) \ {{}}, BrTable(D, TRUE) PROVE Wasm!Next
  <2> DEFINE table == TRUE
  <2>1. BrTable(D, table)  BY <1>13
  <2>2. D \in SUBSET Labels /\ D # {} /\ table \in BOOLEAN  OBVIOUS
  <2> HIDE DEF table
  <2> QED  BY <1>11, <2>1, <2>2
<1> QED
  BY <1>1, <1>2, <1>3, <1>4, <1>5, <1>6, <1>7, <1>8, <1>9, <1>10, <1>12, <1>13 DEF Next

LEMMA StutterMeans ==
  ASSUME UNCHANGED vars
  PROVE  UNCHANGED Wasm!vars
<1>1. Code!vars' = Code!vars /\ control' = control  BY DEF vars
<1>2. stack' = stack /\ regs' = regs /\ mem' = mem /\ effect' = effect
  BY <1>1 DEF Code!vars, Code!cache
<1>3. Ctx' = Ctx  BY <1>1 DEF Ctx, Code!Ctx, Code!vars, Code!cache
<1>4. Live' = Live  BY <1>1 DEF Live, Current
<1>5. Path' = Path  BY <1>3, <1>4 DEF Path, Frame0, ValueAt
<1>6. Scopes' = Scopes  BY <1>1 DEF Scopes, Scope, Frame0, ValueAt
<1> QED  BY <1>2, <1>4, <1>5, <1>6 DEF Wasm!vars

\* Every path through the code of a function computes what the structured WebAssembly
\* code means, wherever the compiler keeps the values and whatever merges it inserts:
\* jumps leave the results and drop what lies in between, both arms of an if and every
\* way to the end of a block bring there what the code after it reads, and a loop
\* starts again with the frame it began with.  The hypotheses are the two places where
\* the code goes wrong: the first function, and unreachable in an else arm.
THEOREM PathsImplementWasm ==
  ASSUME ~FirstFunction, ~UnreachableInElse
  PROVE  Spec => ImplementsWasm
<1>1. Init => Wasm!Init  BY InitMeans
<1>2. IInv /\ [Next]_vars => [Wasm!Next]_(Wasm!vars)
  <2> SUFFICES ASSUME IInv, [Next]_vars PROVE [Wasm!Next]_(Wasm!vars)
    OBVIOUS
  <2>1. CASE Next  BY <2>1, NextMeans
  <2>2. CASE UNCHANGED vars  BY <2>2, StutterMeans
  <2> QED  BY <2>1, <2>2
<1>3. Spec => []IInv  BY Inductive
<1> QED  BY <1>1, <1>2, <1>3, PTL DEF Spec, ImplementsWasm, Wasm!Spec

=============================================================================
