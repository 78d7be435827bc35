------------------------- MODULE RegisterCacheProofs -------------------------
(***************************************************************************)
(* Lemmas about the operators of RegisterCache: each returns a well-formed *)
(* context and keeps the use counts exact.                                 *)
(***************************************************************************)
EXTENDS RegisterCache, FiniteSetTheorems, SequenceTheorems, TLAPS

\* The use counts and the used set say what the stack says.
Exact(c) ==
  \A r \in Regs : /\ c.count[r] = Cardinality(Holders(c, r))
                  /\ r \in c.used <=> (r \in Reserved \/ c.count[r] > 0)

\* No slot lives in a reserved register.
Homes(c) == \A i \in DOMAIN c.stack : c.stack[i].reg \notin Reserved

\* The frame reaches every slot that lives in it.
Covered(c) == \A i \in DOMAIN c.stack : c.stack[i].loc = "stack" => i <= c.spills

Good(c) == c \in Context /\ Exact(c) /\ Homes(c) /\ Covered(c)

-----------------------------------------------------------------------------

\* A nonempty set of register codes has a least member.
LEMMA LeastExists ==
  ASSUME NEW S \in SUBSET Nat, S # {}
  PROVE  \E x \in S : \A y \in S : x <= y
<1> DEFINE T == {0 .. n : n \in S}
           R == StrictSubsetOrdering(Nat)
<1>1. T \subseteq FiniteSubsetsOf(Nat)
  <2> SUFFICES ASSUME NEW n \in S PROVE 0 .. n \in FiniteSubsetsOf(Nat)
    OBVIOUS
  <2> QED  BY FS_Interval DEF FiniteSubsetsOf
<1>2. PICK t \in T : \A u \in T : ~(<<u, t>> \in R)
  <2>1. T # {}  OBVIOUS
  <2>2. IsWellFoundedOn(R, FiniteSubsetsOf(Nat))  BY FS_StrictSubsetOrderingWellFounded
  <2> HIDE DEF T, R
  <2> QED  BY <1>1, <2>1, <2>2, WFMin
<1>3. PICK x \in S : t = 0 .. x  OBVIOUS
<1>4. ASSUME NEW y \in S PROVE x <= y
  <2>1. ~(<<0 .. y, 0 .. x>> \in R)  BY <1>2, <1>3
  <2>2. ~(0 .. y \subseteq 0 .. x /\ 0 .. y # 0 .. x)  BY <2>1 DEF StrictSubsetOrdering
  <2>3. CASE y < x
    <3>1. 0 .. y \subseteq 0 .. x  BY <2>3
    <3>2. x \in 0 .. x /\ x \notin 0 .. y  BY <2>3
    <3> QED  BY <3>1, <3>2, <2>2
  <2> QED  BY <2>3
<1> QED  BY <1>4

\* get_first_reg_set returns a member of the list, and the least one.
LEMMA FirstOfIsLeast ==
  ASSUME NEW S \in SUBSET Nat, S # {}
  PROVE  FirstOf(S) \in S /\ \A q \in S : FirstOf(S) <= q
BY LeastExists DEF FirstOf

-----------------------------------------------------------------------------
(* Slots and contexts. *)

\* The three kinds of slots that the make_slot functions build.
LEMMA SlotShape ==
  ASSUME NEW s \in Slot
  PROVE  /\ s.loc \in {"stack", "reg", "const"}
         /\ s.reg \in Regs \cup {NoReg} /\ s.val \in Values
         /\ s.loc = "reg" => s.reg \in Regs /\ s = RegSlot(s.reg)
         /\ s.loc # "reg" => s.reg = NoReg
BY RegsAssumption DEF Slot, StackSlot, RegSlot, ConstSlot, NoReg

LEMMA SlotsAreSlots ==
  /\ StackSlot \in Slot
  /\ \A r \in Regs : RegSlot(r) \in Slot
  /\ \A v \in Values : ConstSlot(v) \in Slot
BY DEF Slot

\* The fields of a context.
LEMMA ContextShape ==
  ASSUME NEW c \in Context
  PROVE  /\ c.stack \in Seq(Slot) /\ DOMAIN c.stack = 1 .. Len(c.stack) /\ Len(c.stack) \in Nat
         /\ \A i \in DOMAIN c.stack : c.stack[i] \in Slot
         /\ c.used \subseteq Regs /\ c.count \in [Regs -> Nat] /\ c.last \subseteq Regs
         /\ c.spills \in Nat /\ c.ok \in BOOLEAN
         /\ c.regs \in [Regs -> Values \cup {Junk}] /\ c.mem \in [Frame -> Values \cup {Junk}]
BY DEF Context

\* A register has finitely many holders.
LEMMA HoldersFinite ==
  ASSUME NEW c \in Context, NEW r
  PROVE  /\ Holders(c, r) \subseteq 1 .. Len(c.stack)
         /\ IsFiniteSet(Holders(c, r)) /\ Cardinality(Holders(c, r)) \in Nat
<1>1. Holders(c, r) \subseteq 1 .. Len(c.stack)  BY ContextShape DEF Holders
<1>2. IsFiniteSet(1 .. Len(c.stack))  BY ContextShape, FS_Interval
<1> QED  BY <1>1, <1>2, FS_Subset, FS_CardinalityType

\* Handlers that leave the cache alone keep a context good.
LEMMA SameCache ==
  ASSUME NEW c, Good(c), NEW d \in Context,
         d.stack = c.stack, d.used = c.used, d.count = c.count, d.spills = c.spills
  PROVE  Good(d)
BY DEF Good, Exact, Homes, Covered, Holders

\* A slot gives its register back: dec_used and the loss of one holder.
LEMMA Release ==
  ASSUME NEW c, Good(c), NEW d \in Context, NEW i \in DOMAIN c.stack, c.stack[i].loc = "reg",
         d.count = DecUsed(c, c.stack[i].reg).count,
         d.used = DecUsed(c, c.stack[i].reg).used,
         \A q \in Regs : Holders(d, q) = Holders(c, q) \ {i}
  PROVE  Exact(d)
<1> DEFINE r == c.stack[i].reg
<1>0. c \in Context /\ Exact(c) /\ r \in Regs /\ c.count \in [Regs -> Nat] /\ c.used \subseteq Regs
  BY ContextShape, SlotShape DEF Good
<1>1. i \in Holders(c, r)  BY DEF Holders
<1>2. \A q \in Regs : q # r => i \notin Holders(c, q)  BY DEF Holders
<1>3. c.count[r] = Cardinality(Holders(c, r)) /\ Cardinality(Holders(c, r)) > 0
  BY <1>0, <1>1, HoldersFinite, FS_EmptySet DEF Exact
<1>4. r \in c.used /\ c.count[r] > 0  BY <1>0, <1>3 DEF Exact
<1>5. /\ d.count = [c.count EXCEPT ![r] = @ - 1]
      /\ d.used = IF c.count[r] = 1 THEN c.used \ {r} ELSE c.used
  BY <1>0, <1>4 DEF DecUsed, Context
<1>6. Cardinality(Holders(d, r)) = Cardinality(Holders(c, r)) - 1
  BY <1>0, <1>1, HoldersFinite, FS_RemoveElement
<1>7. \A q \in Regs : q # r => Holders(d, q) = Holders(c, q)  BY <1>2
<1>8. r \notin Reserved  BY DEF Good, Homes
<1> QED  BY <1>0, <1>3, <1>5, <1>6, <1>7, <1>8 DEF Exact

\* A slot takes a register that may be handed out: inc_used and one holder more.
LEMMA Acquire ==
  ASSUME NEW c, Good(c), NEW d \in Context, NEW i, NEW r \in Regs,
         d.count = [c.count EXCEPT ![r] = @ + 1], d.used = c.used \cup {r},
         i \notin Holders(c, r),
         Holders(d, r) = Holders(c, r) \cup {i},
         \A q \in Regs : q # r => Holders(d, q) = Holders(c, q)
  PROVE  Exact(d)
<1>0. c \in Context /\ Exact(c) /\ c.count \in [Regs -> Nat]
  BY ContextShape DEF Good
<1>1. Cardinality(Holders(d, r)) = Cardinality(Holders(c, r)) + 1
  BY <1>0, HoldersFinite, FS_AddElement
<1>2. ASSUME NEW q \in Regs
      PROVE  /\ d.count[q] = Cardinality(Holders(d, q))
             /\ q \in d.used <=> (q \in Reserved \/ d.count[q] > 0)
  <2>1. CASE q = r
    <3>1. d.count[q] = c.count[r] + 1 /\ q \in d.used  BY <1>0, <2>1
    <3>2. c.count[r] = Cardinality(Holders(c, r))  BY <1>0 DEF Exact
    <3>3. d.count[q] = Cardinality(Holders(d, q))  BY <1>1, <2>1, <3>1, <3>2
    <3>4. d.count[q] > 0  BY <1>0, <3>1
    <3> QED  BY <3>1, <3>3, <3>4
  <2>2. CASE q # r
    <3>1. d.count[q] = c.count[q] /\ (q \in d.used <=> q \in c.used)  BY <1>0, <2>2
    <3>2. Holders(d, q) = Holders(c, q)  BY <2>2
    <3> QED  BY <1>0, <3>1, <3>2 DEF Exact
  <2> QED  BY <2>1, <2>2
<1> QED  BY <1>2 DEF Exact

-----------------------------------------------------------------------------
(* Pushing and popping. *)

\* push_stack adds one slot on top.
LEMMA Pushed ==
  ASSUME NEW c \in Context, NEW s \in Slot
  PROVE  /\ Push(c, s) \in Context
         /\ Len(Push(c, s).stack) = Len(c.stack) + 1
         /\ DOMAIN Push(c, s).stack = 1 .. Len(c.stack) + 1
         /\ \A i \in 1 .. Len(c.stack) : Push(c, s).stack[i] = c.stack[i]
         /\ Push(c, s).stack[Len(c.stack) + 1] = s
         /\ Push(c, s).used = c.used /\ Push(c, s).count = c.count
         /\ Push(c, s).spills = c.spills
<1> DEFINE t == Append(c.stack, s)
<1>1. c.stack \in Seq(Slot) /\ Len(c.stack) \in Nat  BY ContextShape
<1>2. /\ t \in Seq(Slot) /\ Len(t) = Len(c.stack) + 1
      /\ \A i \in 1 .. Len(c.stack) : t[i] = c.stack[i]
      /\ t[Len(c.stack) + 1] = s
  BY <1>1, AppendProperties
<1>3. DOMAIN t = 1 .. Len(c.stack) + 1  BY <1>2, LenProperties
<1> HIDE DEF t
<1>4. Push(c, s) = [c EXCEPT !.stack = t]  BY DEF Push, t
<1> QED  BY <1>2, <1>3, <1>4 DEF Context

\* inc_used touches the count of one register.
LEMMA IncUsedShape ==
  ASSUME NEW c \in Context, NEW r \in Regs
  PROVE  /\ IncUsed(c, r) \in Context
         /\ IncUsed(c, r).stack = c.stack /\ IncUsed(c, r).spills = c.spills
         /\ IncUsed(c, r).count = [c.count EXCEPT ![r] = @ + 1]
         /\ IncUsed(c, r).used = c.used \cup {r}
<1> DEFINE m == [c.count EXCEPT ![r] = @ + 1]
           u == c.used \cup {r}
<1>1. c.count \in [Regs -> Nat] /\ c.used \subseteq Regs  BY ContextShape
<1>2. m \in [Regs -> Nat] /\ u \subseteq Regs  BY <1>1
<1>3. IncUsed(c, r) = [c EXCEPT !.used = u, !.count = m]  BY DEF IncUsed
<1> HIDE DEF m, u
<1>4. /\ [c EXCEPT !.used = u, !.count = m] \in Context
      /\ [c EXCEPT !.used = u, !.count = m].stack = c.stack
      /\ [c EXCEPT !.used = u, !.count = m].spills = c.spills
      /\ [c EXCEPT !.used = u, !.count = m].count = m
      /\ [c EXCEPT !.used = u, !.count = m].used = u
  BY <1>2 DEF Context
<1> QED  BY <1>3, <1>4 DEF m, u

\* push_register of a register that may be handed out.
LEMMA PushRegisterGood ==
  ASSUME NEW c, Good(c), NEW r \in Regs \ Reserved
  PROVE  Good(PushRegister(c, r)) /\ Len(PushRegister(c, r).stack) = Len(c.stack) + 1
<1> DEFINE b == IncUsed(c, r)
           d == PushRegister(c, r)
           n == Len(c.stack) + 1
<1>0. c \in Context /\ Homes(c) /\ Covered(c) /\ Len(c.stack) \in Nat
  BY ContextShape DEF Good
<1>1. b \in Context /\ b.stack = c.stack /\ b.spills = c.spills
      /\ b.count = [c.count EXCEPT ![r] = @ + 1] /\ b.used = c.used \cup {r}
  BY <1>0, IncUsedShape
<1>2. RegSlot(r) \in Slot /\ RegSlot(r).loc = "reg" /\ RegSlot(r).reg = r
  BY SlotsAreSlots DEF RegSlot
<1>3. /\ d \in Context /\ Len(d.stack) = n /\ DOMAIN d.stack = 1 .. n
      /\ \A i \in 1 .. Len(c.stack) : d.stack[i] = c.stack[i]
      /\ d.stack[n] = RegSlot(r)
      /\ d.used = b.used /\ d.count = b.count /\ d.spills = c.spills
  <2> HIDE DEF b
  <2>1. /\ Push(b, RegSlot(r)) \in Context /\ Len(Push(b, RegSlot(r)).stack) = n
        /\ DOMAIN Push(b, RegSlot(r)).stack = 1 .. n
    BY <1>1, <1>2, Pushed
  <2>2. /\ \A i \in 1 .. Len(c.stack) : Push(b, RegSlot(r)).stack[i] = c.stack[i]
        /\ Push(b, RegSlot(r)).stack[n] = RegSlot(r)
    BY <1>1, <1>2, Pushed
  <2>3. /\ Push(b, RegSlot(r)).used = b.used /\ Push(b, RegSlot(r)).count = b.count
        /\ Push(b, RegSlot(r)).spills = c.spills
    BY <1>1, <1>2, Pushed
  <2> QED  BY <2>1, <2>2, <2>3 DEF PushRegister, b
<1>4. DOMAIN c.stack = 1 .. Len(c.stack)  BY <1>0, ContextShape
<1> HIDE DEF b, d
<1>5. Holders(d, r) = Holders(c, r) \cup {n}
  BY <1>0, <1>2, <1>3, <1>4 DEF Holders, n
<1>6. \A q \in Regs : q # r => Holders(d, q) = Holders(c, q)
  BY <1>0, <1>2, <1>3, <1>4 DEF Holders, n
<1>7. n \notin Holders(c, r)  BY <1>0, <1>4 DEF Holders, n
<1>8. Exact(d)  BY <1>1, <1>3, <1>5, <1>6, <1>7, Acquire
<1>9. Homes(d)  BY <1>0, <1>2, <1>3, <1>4 DEF Homes, n
<1>10. Covered(d)  BY <1>0, <1>2, <1>3, <1>4 DEF Covered, n
<1> QED  BY <1>3, <1>8, <1>9, <1>10 DEF Good, d, n

\* push_const takes no register.
LEMMA PushConstGood ==
  ASSUME NEW c, Good(c), NEW v \in Values
  PROVE  Good(PushConst(c, v)) /\ Len(PushConst(c, v).stack) = Len(c.stack) + 1
<1> DEFINE d == PushConst(c, v)
           n == Len(c.stack) + 1
<1>0. c \in Context /\ Exact(c) /\ Homes(c) /\ Covered(c) /\ Len(c.stack) \in Nat
      /\ DOMAIN c.stack = 1 .. Len(c.stack)
  BY ContextShape DEF Good
<1>2. ConstSlot(v) \in Slot /\ ConstSlot(v).loc = "const" /\ ConstSlot(v).reg = NoReg
  BY SlotsAreSlots DEF ConstSlot
<1>3. /\ d \in Context /\ Len(d.stack) = n /\ DOMAIN d.stack = 1 .. n
      /\ \A i \in 1 .. Len(c.stack) : d.stack[i] = c.stack[i]
      /\ d.stack[n] = ConstSlot(v)
      /\ d.used = c.used /\ d.count = c.count /\ d.spills = c.spills
  BY <1>0, <1>2, Pushed DEF PushConst
<1> HIDE DEF d
<1>4. \A q \in Regs : Holders(d, q) = Holders(c, q)
  BY <1>0, <1>2, <1>3 DEF Holders, n
<1>5. Exact(d)  BY <1>0, <1>3, <1>4 DEF Exact
<1>6. NoReg \notin Reserved  BY RegsAssumption DEF NoReg
<1>7. Homes(d)  BY <1>0, <1>2, <1>3, <1>6 DEF Homes, n
<1>8. Covered(d)  BY <1>0, <1>2, <1>3 DEF Covered, n
<1> QED  BY <1>3, <1>5, <1>7, <1>8 DEF Good, d, n

\* pop_stack removes the slot on top and nothing else.
LEMMA Popped ==
  ASSUME NEW c \in Context, Len(c.stack) > 0
  PROVE  /\ Pop(c) \in Context
         /\ Len(Pop(c).stack) = Len(c.stack) - 1
         /\ DOMAIN Pop(c).stack = 1 .. Len(c.stack) - 1
         /\ \A i \in 1 .. Len(c.stack) - 1 : Pop(c).stack[i] = c.stack[i]
         /\ Pop(c).used = c.used /\ Pop(c).count = c.count /\ Pop(c).spills = c.spills
         /\ Pop(c).regs = c.regs /\ Pop(c).mem = c.mem /\ Pop(c).ok = c.ok
<1> DEFINE t == SubSeq(c.stack, 1, Len(c.stack) - 1)
<1>1. c.stack \in Seq(Slot) /\ Len(c.stack) \in Nat /\ \A i \in 1 .. Len(c.stack) : c.stack[i] \in Slot
  BY ContextShape
<1>2. /\ t \in Seq(Slot) /\ Len(t) = Len(c.stack) - 1
      /\ \A i \in 1 .. Len(c.stack) - 1 : t[i] = c.stack[i]
  BY <1>1, SubSeqProperties
<1>3. DOMAIN t = 1 .. Len(c.stack) - 1  BY <1>2, LenProperties
<1> HIDE DEF t
<1>4. Pop(c) = [c EXCEPT !.stack = t]  BY DEF Pop, t
<1> QED  BY <1>2, <1>3, <1>4 DEF Context

\* dec_used of a register that a slot holds takes its normal path.
LEMMA DecUsedShape ==
  ASSUME NEW c, Good(c), NEW i \in DOMAIN c.stack, c.stack[i].loc = "reg"
  PROVE  /\ c.stack[i].reg \in Regs \ Reserved
         /\ DecUsed(c, c.stack[i].reg) \in Context
         /\ DecUsed(c, c.stack[i].reg).stack = c.stack
         /\ DecUsed(c, c.stack[i].reg).spills = c.spills
         /\ DecUsed(c, c.stack[i].reg).ok = c.ok
<1> DEFINE r == c.stack[i].reg
           n == [c.count EXCEPT ![r] = @ - 1]
           u == IF c.count[r] = 1 THEN c.used \ {r} ELSE c.used
<1>0. c \in Context /\ Exact(c) /\ r \in Regs /\ r \notin Reserved
  BY ContextShape, SlotShape DEF Good, Homes
<1>1. i \in Holders(c, r)  BY DEF Holders
<1>2. c.count[r] = Cardinality(Holders(c, r)) /\ Cardinality(Holders(c, r)) > 0
  BY <1>0, <1>1, HoldersFinite, FS_EmptySet DEF Exact
<1>3. r \in c.used /\ c.count[r] > 0  BY <1>0, <1>2 DEF Exact
<1>4. c.count \in [Regs -> Nat] /\ c.count[r] \in Nat /\ c.used \subseteq Regs
  BY <1>0, ContextShape
<1>5. n \in [Regs -> Nat] /\ u \subseteq Regs
  <2> HIDE DEF r
  <2>1. c.count[r] - 1 \in Nat  BY <1>3, <1>4
  <2> QED  BY <1>4, <2>1
<1>6. DecUsed(c, r) = [c EXCEPT !.count = n, !.used = u]  BY <1>3 DEF DecUsed
<1> HIDE DEF r, n, u
<1>7. [c EXCEPT !.count = n, !.used = u] \in Context  BY <1>0, <1>5 DEF Context
<1> QED  BY <1>0, <1>6, <1>7 DEF Context, r

-----------------------------------------------------------------------------
(* Spilling. *)

\* d has the slots of c, some of them stored in the frame.
KeptSlots(c, d) ==
  /\ Len(d.stack) = Len(c.stack) /\ DOMAIN d.stack = DOMAIN c.stack
  /\ \A i \in DOMAIN c.stack : d.stack[i] = c.stack[i] \/ d.stack[i] = StackSlot

\* A nonempty set of slots has a topmost one.
LEMMA TopmostExists ==
  ASSUME NEW n \in Nat, NEW I \in SUBSET (1 .. n), I # {}
  PROVE  \E i \in I : \A j \in I : j <= i
<1> DEFINE S == {n - i : i \in I}
<1>1. S \subseteq Nat /\ S # {}
  <2>1. \A i \in I : i \in Int /\ i <= n /\ n - i \in Nat  OBVIOUS
  <2> QED  BY <2>1
<1>2. PICK x \in S : \A y \in S : x <= y
  <2> HIDE DEF S
  <2> QED  BY <1>1, LeastExists
<1>3. PICK i \in I : x = n - i  OBVIOUS
<1>4. \A j \in I : n - i <= n - j  BY <1>2, <1>3
<1> QED  BY <1>4

\* A slot holds a value, or junk.
LEMMA ValueAtTyped ==
  ASSUME NEW c \in Context, Len(c.stack) <= MaxHeight, NEW i \in DOMAIN c.stack
  PROVE  ValueAt(c, i) \in Values \cup {Junk}
<1>1. c.stack[i] \in Slot /\ i \in 1 .. Len(c.stack) /\ Len(c.stack) \in Nat  BY ContextShape
<1>2. i \in Frame  BY <1>1, RegsAssumption DEF Frame
<1> QED  BY <1>1, <1>2, ContextShape, SlotShape DEF ValueAt

\* A Spill of the slots I touches those slots only, and the frame reaches them.
LEMMA StoredSlots ==
  ASSUME NEW c \in Context, NEW I \in SUBSET (DOMAIN c.stack), Len(c.stack) <= MaxHeight
  PROVE  /\ StoreSlots(c, I) \in Context
         /\ KeptSlots(c, StoreSlots(c, I))
         /\ \A i \in DOMAIN c.stack :
              StoreSlots(c, I).stack[i] = IF i \in I THEN StackSlot ELSE c.stack[i]
         /\ StoreSlots(c, I).used = c.used /\ StoreSlots(c, I).count = c.count
         /\ StoreSlots(c, I).spills >= c.spills
         /\ \A i \in I : i <= StoreSlots(c, I).spills
<1> DEFINE t == [i \in DOMAIN c.stack |-> IF i \in I THEN StackSlot ELSE c.stack[i]]
           m == [i \in Frame |-> IF i \in I THEN ValueAt(c, i) ELSE c.mem[i]]
           u == IF I = {} THEN c.spills
                ELSE Larger(c.spills, CHOOSE i \in I : \A j \in I : j <= i)
<1>1. /\ c.stack \in Seq(Slot) /\ DOMAIN c.stack = 1 .. Len(c.stack) /\ Len(c.stack) \in Nat
      /\ \A i \in DOMAIN c.stack : c.stack[i] \in Slot
      /\ c.spills \in Nat
      /\ c.regs \in [Regs -> Values \cup {Junk}] /\ c.mem \in [Frame -> Values \cup {Junk}]
  BY ContextShape
<1>2. t \in Seq(Slot) /\ Len(t) = Len(c.stack) /\ DOMAIN t = DOMAIN c.stack
  <2>1. \A i \in 1 .. Len(c.stack) : t[i] \in Slot  BY <1>1, SlotsAreSlots
  <2>2. t \in [1 .. Len(c.stack) -> Slot]  BY <1>1, <2>1
  <2> QED  BY <1>1, <2>2, SeqDef, LenProperties
<1>3. m \in [Frame -> Values \cup {Junk}]
  <2>1. ASSUME NEW i \in Frame PROVE (IF i \in I THEN ValueAt(c, i) ELSE c.mem[i]) \in Values \cup {Junk}
    <3>1. CASE i \in I
      <4>2. ValueAt(c, i) \in Values \cup {Junk}  BY <3>1, ValueAtTyped
      <4> QED  BY <3>1, <4>2
    <3> QED  BY <1>1, <3>1
  <2> QED  BY <2>1
<1>4. u \in Nat /\ u >= c.spills /\ \A i \in I : i <= u
  <2>1. CASE I # {}
    <3> DEFINE x == CHOOSE i \in I : \A j \in I : j <= i
    <3>0. I \in SUBSET (1 .. Len(c.stack))  BY <1>1
    <3>1. x \in I /\ \A j \in I : j <= x  BY <1>1, <2>1, <3>0, TopmostExists
    <3>2. x \in Nat /\ \A j \in I : j \in Nat  BY <1>1, <3>1
    <3> HIDE DEF x
    <3>3. u = Larger(c.spills, x)  BY <2>1 DEF x
    <3> HIDE DEF u
    <3>4. (c.spills < x => u = x) /\ (~(c.spills < x) => u = c.spills)  BY <3>3 DEF Larger
    <3> QED  BY <1>1, <3>1, <3>2, <3>4
  <2>2. CASE I = {}
    <3>1. u = c.spills  BY <2>2
    <3> HIDE DEF u
    <3> QED  BY <1>1, <2>2, <3>1
  <2> HIDE DEF u
  <2> QED  BY <2>1, <2>2
<1>5. \A i \in DOMAIN c.stack : t[i] = IF i \in I THEN StackSlot ELSE c.stack[i]  OBVIOUS
<1>6. StoreSlots(c, I) = [c EXCEPT !.mem = m, !.stack = t, !.spills = u]
  BY DEF StoreSlots
<1> HIDE DEF t, m, u
<1>7. [c EXCEPT !.mem = m, !.stack = t, !.spills = u] \in Context
  BY <1>2, <1>3, <1>4 DEF Context
<1> QED  BY <1>2, <1>4, <1>5, <1>6, <1>7 DEF Context, KeptSlots

LEMMA StoredMem ==
  ASSUME NEW c \in Context, NEW I
  PROVE  StoreSlots(c, I).mem = [i \in Frame |-> IF i \in I THEN ValueAt(c, i) ELSE c.mem[i]]
<1> DEFINE w == [i \in Frame |-> IF i \in I THEN ValueAt(c, i) ELSE c.mem[i]]
           e == StoreSlots(c, I)
<1>1. e = [c EXCEPT !.mem = w, !.stack = e.stack, !.spills = e.spills]
  BY DEF StoreSlots, Context
<1> HIDE DEF w, e
<1>2. [c EXCEPT !.mem = w, !.stack = e.stack, !.spills = e.spills].mem = w
  BY DEF Context
<1> QED  BY <1>1, <1>2 DEF w, e

\* The slots that stay keep their registers.
LEMMA StoredHolders ==
  ASSUME NEW c \in Context, NEW I \in SUBSET (DOMAIN c.stack), Len(c.stack) <= MaxHeight,
         Homes(c), Covered(c)
  PROVE  /\ Homes(StoreSlots(c, I)) /\ Covered(StoreSlots(c, I))
         /\ \A q : Holders(StoreSlots(c, I), q) = Holders(c, q) \ I
<1> DEFINE d == StoreSlots(c, I)
<1>1. /\ d \in Context /\ DOMAIN d.stack = DOMAIN c.stack
      /\ \A i \in DOMAIN c.stack : d.stack[i] = IF i \in I THEN StackSlot ELSE c.stack[i]
      /\ d.spills >= c.spills /\ \A i \in I : i <= d.spills
  BY StoredSlots DEF KeptSlots
<1>2. c.spills \in Nat /\ d.spills \in Nat /\ DOMAIN c.stack \subseteq Nat  BY <1>1, ContextShape
<1>3. StackSlot.loc = "stack" /\ StackSlot.reg = NoReg /\ NoReg \notin Reserved
  BY RegsAssumption DEF StackSlot, NoReg
<1> HIDE DEF d
<1>4. Homes(d)  BY <1>1, <1>3 DEF Homes
<1>5. Covered(d)
  <2> SUFFICES ASSUME NEW i \in DOMAIN d.stack, d.stack[i].loc = "stack" PROVE i <= d.spills
    BY DEF Covered
  <2>1. CASE i \in I  BY <1>1, <2>1
  <2>2. CASE i \notin I
    <3>1. i <= c.spills  BY <1>1, <2>2 DEF Covered
    <3> QED  BY <1>1, <1>2, <3>1
  <2> QED  BY <2>1, <2>2
<1>6. \A q : Holders(d, q) = Holders(c, q) \ I  BY <1>1, <1>3 DEF Holders
<1> QED  BY <1>4, <1>5, <1>6 DEF d

\* The walk from the top down finds every slot in the register.
LEMMA EveryHolderFound ==
  ASSUME NEW c \in Context, Exact(c), NEW r \in Regs
  PROVE  TopHolders(c, r) = Holders(c, r)
<1>1. IsFiniteSet(Holders(c, r)) /\ c.count[r] = Cardinality(Holders(c, r))
      /\ \A i \in Holders(c, r) : i \in Nat
  BY HoldersFinite DEF Exact
<1> SUFFICES ASSUME NEW i \in Holders(c, r)
             PROVE  Cardinality({j \in Holders(c, r) : j > i}) < c.count[r]
  BY DEF TopHolders
<1> DEFINE A == {j \in Holders(c, r) : j > i}
<1>2. A \subseteq Holders(c, r) /\ i \notin A  BY <1>1
<1>3. A # Holders(c, r)  BY <1>2
<1> HIDE DEF A
<1>4. /\ Cardinality(A) <= Cardinality(Holders(c, r))
      /\ Cardinality(A) # Cardinality(Holders(c, r))
      /\ IsFiniteSet(A)
  BY <1>1, <1>2, <1>3, FS_Subset
<1>5. Cardinality(A) \in Nat /\ Cardinality(Holders(c, r)) \in Nat
  BY <1>1, <1>4, FS_CardinalityType
<1> QED  BY <1>1, <1>4, <1>5 DEF A

\* spill_register frees the register: the walk from the top finds every holder.
LEMMA SpillRegisterGood ==
  ASSUME NEW c, Good(c), Len(c.stack) <= MaxHeight, NEW r \in Regs
  PROVE  Good(SpillRegister(c, r)) /\ KeptSlots(c, SpillRegister(c, r))
<1>0. c \in Context /\ Exact(c) /\ Homes(c) /\ Covered(c)  BY DEF Good
<1>1. CASE c.count[r] = 0
  BY <1>1 DEF SpillRegister, KeptSlots
<1>2. CASE c.count[r] # 0
  <2> DEFINE I == TopHolders(c, r)
             e == StoreSlots(c, I)
             d == SpillRegister(c, r)
  <2>1. Holders(c, r) \subseteq 1 .. Len(c.stack) /\ Holders(c, r) \subseteq DOMAIN c.stack
        /\ IsFiniteSet(Holders(c, r)) /\ c.count[r] = Cardinality(Holders(c, r))
    BY <1>0, HoldersFinite DEF Exact, Holders
  <2>2. I = Holders(c, r)  BY <1>0, EveryHolderFound
  <2>3. /\ e \in Context /\ KeptSlots(c, e) /\ Homes(e) /\ Covered(e)
        /\ e.used = c.used /\ e.count = c.count
        /\ \A q : Holders(e, q) = Holders(c, q) \ Holders(c, r)
    BY <1>0, <2>1, <2>2, StoredSlots, StoredHolders
  <2>4. d = ClearUsed(e, r)  BY <1>2 DEF SpillRegister
  <2> HIDE DEF e, d, I
  <2>5. /\ d \in Context /\ d.stack = e.stack /\ d.spills = e.spills
        /\ d.used = c.used \ {r} /\ d.count = [c.count EXCEPT ![r] = 0]
    <3> DEFINE n == [c.count EXCEPT ![r] = 0]
               u == c.used \ {r}
    <3>1. n \in [Regs -> Nat] /\ u \subseteq Regs  BY <1>0, ContextShape
    <3>2. d = [e EXCEPT !.count = n, !.used = u]  BY <2>3, <2>4 DEF ClearUsed
    <3> HIDE DEF n, u
    <3>3. d \in Context /\ d.stack = e.stack /\ d.spills = e.spills /\ d.used = u /\ d.count = n
      BY <2>3, <3>1, <3>2 DEF Context
    <3> QED  BY <3>3 DEF n, u
  <2>6. \A q : Holders(d, q) = Holders(c, q) \ Holders(c, r)  BY <2>3, <2>5 DEF Holders
  <2>7. \A q : q # r => Holders(c, q) \cap Holders(c, r) = {}  BY DEF Holders
  <2>8. Holders(c, r) # {}  BY <1>2, <2>1, FS_EmptySet
  <2>9. r \notin Reserved  BY <1>0, <2>8 DEF Homes, Holders
  <2>10. ASSUME NEW q \in Regs
         PROVE  /\ d.count[q] = Cardinality(Holders(d, q))
                /\ q \in d.used <=> (q \in Reserved \/ d.count[q] > 0)
    <3>1. CASE q = r
      <4>1. Holders(d, q) = {}  BY <2>6, <3>1
      <4>2. d.count[q] = 0 /\ q \notin d.used  BY <1>0, <2>5, <3>1, ContextShape
      <4> QED  BY <2>9, <3>1, <4>1, <4>2, FS_EmptySet
    <3>2. CASE q # r
      <4>1. Holders(d, q) = Holders(c, q)  BY <2>6, <2>7, <3>2
      <4>2. d.count[q] = c.count[q] /\ (q \in d.used <=> q \in c.used)
        BY <1>0, <2>5, <3>2, ContextShape
      <4> QED  BY <1>0, <4>1, <4>2 DEF Exact
    <3> QED  BY <3>1, <3>2
  <2>11. Exact(d)  BY <2>10 DEF Exact
  <2>12. Homes(d) /\ Covered(d) /\ KeptSlots(c, d)  BY <2>3, <2>5 DEF Homes, Covered, KeptSlots
  <2> QED  BY <2>5, <2>11, <2>12 DEF Good, d
<1> QED  BY <1>1, <1>2

\* spill_register stores one value in every slot of the register.
LEMMA SpillRegisterShape ==
  ASSUME NEW c, Good(c), Len(c.stack) <= MaxHeight, NEW r \in Regs
  PROVE  /\ c.spills <= SpillRegister(c, r).spills
         /\ \A i \in DOMAIN c.stack :
              SpillRegister(c, r).stack[i] = IF i \in Holders(c, r) THEN StackSlot ELSE c.stack[i]
         /\ \A i \in Frame :
              SpillRegister(c, r).mem[i] = IF i \in Holders(c, r) THEN c.regs[r] ELSE c.mem[i]
<1>0. c \in Context /\ Exact(c) /\ Holders(c, r) \subseteq DOMAIN c.stack
  BY DEF Good, Holders
<1>1. CASE c.count[r] = 0
  <2>1. IsFiniteSet(Holders(c, r)) /\ Cardinality(Holders(c, r)) = 0
    BY <1>0, <1>1, HoldersFinite DEF Exact
  <2>2. Holders(c, r) = {}  BY <2>1, FS_EmptySet
  <2>3. SpillRegister(c, r) = c  BY <1>1 DEF SpillRegister
  <2> QED  BY <1>0, <2>2, <2>3, ContextShape
<1>2. CASE c.count[r] # 0
  <2> DEFINE H == Holders(c, r)
             e == StoreSlots(c, H)
  <2>1. SpillRegister(c, r) = ClearUsed(e, r)
    BY <1>0, <1>2, EveryHolderFound DEF SpillRegister
  <2>2. /\ e \in Context /\ e.spills >= c.spills
        /\ \A i \in DOMAIN c.stack : e.stack[i] = IF i \in H THEN StackSlot ELSE c.stack[i]
    BY <1>0, StoredSlots
  <2>3. e.mem = [i \in Frame |-> IF i \in H THEN ValueAt(c, i) ELSE c.mem[i]]
    BY <1>0, StoredMem
  <2> HIDE DEF e
  <2>4. ClearUsed(e, r).stack = e.stack /\ ClearUsed(e, r).mem = e.mem
        /\ ClearUsed(e, r).spills = e.spills
    BY <2>2 DEF ClearUsed, Context
  <2>5. \A i \in H : ValueAt(c, i) = c.regs[r]  BY DEF ValueAt, Holders
  <2>6. c.spills \in Nat /\ e.spills \in Nat  BY <1>0, <2>2, ContextShape
  <2> QED  BY <2>1, <2>2, <2>3, <2>4, <2>5, <2>6
<1> QED  BY <1>1, <1>2

-----------------------------------------------------------------------------
(* Choosing a register. *)

\* Some register is neither reserved nor pinned.
Choice(pinned) == Regs \ (pinned \cup Reserved) # {}

\* get_next_spill_reg returns a register that may be spilled.
LEMMA NextSpillRegAllowed ==
  ASSUME NEW c, NEW pinned, Choice(pinned)
  PROVE  NextSpillReg(c, pinned) \in Regs \ (pinned \cup Reserved)
<1> DEFINE fresh == Unpinned(pinned) \ c.last
           S == IF fresh = {} THEN Unpinned(pinned) ELSE fresh
<1>1. S # {} /\ S \subseteq Unpinned(pinned) /\ S \in SUBSET Nat
  BY RegsAssumption DEF Choice, Unpinned
<1>2. NextSpillReg(c, pinned) = FirstOf(S)  BY DEF NextSpillReg
<1> HIDE DEF S
<1>3. FirstOf(S) \in S  BY <1>1, FirstOfIsLeast
<1> QED  BY <1>1, <1>2, <1>3 DEF Unpinned

\* The round-robin memory of spilled registers is not part of the cache.
LEMMA MarkSpilledGood ==
  ASSUME NEW c, Good(c), NEW pinned, Choice(pinned)
  PROVE  Good(MarkSpilled(c, pinned)) /\ MarkSpilled(c, pinned).stack = c.stack
<1> DEFINE l == {NextSpillReg(c, pinned)} \cup (IF Unpinned(pinned) \subseteq c.last THEN {} ELSE c.last)
           o == c.ok /\ Unpinned(pinned) # {} /\ Unpinned(pinned) \subseteq c.used
           d == MarkSpilled(c, pinned)
<1>1. c \in Context /\ c.last \subseteq Regs /\ c.ok \in BOOLEAN  BY ContextShape DEF Good
<1>2. l \subseteq Regs /\ o \in BOOLEAN  BY <1>1, NextSpillRegAllowed
<1>3. d = [c EXCEPT !.last = l, !.ok = o]  BY DEF MarkSpilled
<1> HIDE DEF l, o, d
<1>4. /\ d \in Context /\ d.stack = c.stack /\ d.used = c.used /\ d.count = c.count
      /\ d.spills = c.spills
  BY <1>1, <1>2, <1>3 DEF Context
<1> QED  BY <1>4, SameCache DEF d

\* Recording a failed assert changes nothing else.
LEMMA AssertGood ==
  ASSUME NEW c, Good(c), NEW P \in BOOLEAN
  PROVE  Good(Assert(c, P)) /\ Assert(c, P).stack = c.stack /\ Assert(c, P).used = c.used
<1> DEFINE o == c.ok /\ P
           d == Assert(c, P)
<1>1. c \in Context /\ o \in BOOLEAN  BY ContextShape DEF Good
<1>2. d = [c EXCEPT !.ok = o]  BY DEF Assert
<1> HIDE DEF o, d
<1>3. /\ d \in Context /\ d.stack = c.stack /\ d.used = c.used /\ d.count = c.count
      /\ d.spills = c.spills
  BY <1>1, <1>2 DEF Context
<1> QED  BY <1>3, SameCache DEF d

\* get_unused_register returns a register the handler may write: not reserved
\* and not pinned, spilling the values of another one when all are taken.
LEMMA GetUnusedRegisterGood ==
  ASSUME NEW c, Good(c), Len(c.stack) <= MaxHeight, NEW pinned, Choice(pinned)
  PROVE  /\ Good(GetUnusedRegister(c, pinned).c) /\ KeptSlots(c, GetUnusedRegister(c, pinned).c)
         /\ GetUnusedRegister(c, pinned).reg \in Regs \ (pinned \cup Reserved)
<1> DEFINE available == (Regs \ c.used) \ pinned
           r == NextSpillReg(c, pinned)
           m == MarkSpilled(c, pinned)
<1>0. c \in Context /\ Exact(c)  BY DEF Good
<1>1. CASE available # {}
  <2>1. available \in SUBSET Nat  BY RegsAssumption
  <2>2. FirstOf(available) \in available  BY <1>1, <2>1, FirstOfIsLeast
  <2>3. GetUnusedRegister(c, pinned) = With(c, FirstOf(available))
    BY <1>1 DEF GetUnusedRegister
  <2>4. \A q \in available : q \in Regs \ (pinned \cup Reserved)  BY <1>0 DEF Exact
  <2> HIDE DEF available
  <2> QED  BY <2>2, <2>3, <2>4 DEF With, KeptSlots
<1>2. CASE available = {}
  <2>1. Unpinned(pinned) # {}  BY DEF Choice, Unpinned
  <2>2. GetUnusedRegister(c, pinned) = With(SpillRegister(m, r), r)
    BY <1>2, <2>1 DEF GetUnusedRegister, SpillOneRegister
  <2>3. r \in Regs \ (pinned \cup Reserved)  BY NextSpillRegAllowed
  <2>4. Good(m) /\ m.stack = c.stack  BY MarkSpilledGood
  <2> HIDE DEF m, r
  <2>5. Good(SpillRegister(m, r)) /\ KeptSlots(m, SpillRegister(m, r))
    BY <2>3, <2>4, SpillRegisterGood
  <2> QED  BY <2>2, <2>3, <2>4, <2>5 DEF With, KeptSlots
<1> QED  BY <1>1, <1>2

\* get_unused_register_with_class without registers to try first.
LEMMA GetUnusedGood ==
  ASSUME NEW c, Good(c), Len(c.stack) <= MaxHeight, NEW pinned, Choice(pinned)
  PROVE  /\ Good(GetUnused(c, {}, pinned).c) /\ KeptSlots(c, GetUnused(c, {}, pinned).c)
         /\ GetUnused(c, {}, pinned).reg \in Regs \ (pinned \cup Reserved)
<1> DEFINE P == \A r \in {} : (\A q \in {} \ c.used : r <= q) => Consistent(c, r)
           d == Assert(c, P)
<1>1. P \in BOOLEAN  OBVIOUS
<1>2. GetUnused(c, {}, pinned) = GetUnusedRegister(d, pinned)  BY DEF GetUnused
<1> HIDE DEF P
<1>3. Good(d) /\ d.stack = c.stack  BY <1>1, AssertGood
<1> HIDE DEF d
<1>4. /\ Good(GetUnusedRegister(d, pinned).c) /\ KeptSlots(d, GetUnusedRegister(d, pinned).c)
      /\ GetUnusedRegister(d, pinned).reg \in Regs \ (pinned \cup Reserved)
  BY <1>3, GetUnusedRegisterGood
<1> QED  BY <1>2, <1>3, <1>4 DEF KeptSlots

\* With registers to try first, nothing being pinned.
LEMMA GetUnusedFirstGood ==
  ASSUME NEW c, Good(c), Len(c.stack) <= MaxHeight, Choice({}),
         NEW first \in SUBSET (Regs \ Reserved)
  PROVE  /\ Good(GetUnused(c, first, {}).c) /\ KeptSlots(c, GetUnused(c, first, {}).c)
         /\ GetUnused(c, first, {}).reg \in Regs \ Reserved
<1> DEFINE free == first \ c.used
           P == \A r \in first : (\A q \in free : r <= q) => Consistent(c, r)
           d == Assert(c, P)
<1>1. P \in BOOLEAN  OBVIOUS
<1>2. GetUnused(c, first, {}) = IF free # {} THEN With(d, FirstOf(free))
                                ELSE GetUnusedRegister(d, {})
  BY DEF GetUnused
<1>3. free \in SUBSET Nat /\ free \subseteq Regs \ Reserved  BY RegsAssumption
<1> HIDE DEF P, free
<1>4. Good(d) /\ d.stack = c.stack  BY <1>1, AssertGood
<1> HIDE DEF d
<1>5. CASE free # {}
  <2>1. FirstOf(free) \in free  BY <1>3, <1>5, FirstOfIsLeast
  <2>2. GetUnused(c, first, {}).c = d /\ GetUnused(c, first, {}).reg = FirstOf(free)
    BY <1>2, <1>5 DEF With
  <2>3. KeptSlots(c, d)  BY <1>4 DEF KeptSlots
  <2> QED  BY <1>3, <1>4, <2>1, <2>2, <2>3
<1>6. CASE free = {}
  <2>1. /\ Good(GetUnusedRegister(d, {}).c) /\ KeptSlots(d, GetUnusedRegister(d, {}).c)
        /\ GetUnusedRegister(d, {}).reg \in Regs \ Reserved
    BY <1>4, GetUnusedRegisterGood
  <2> QED  BY <1>2, <1>4, <1>6, <2>1 DEF KeptSlots
<1> QED  BY <1>5, <1>6

-----------------------------------------------------------------------------
(* Popping into a register. *)

\* Popping a slot without a register.
LEMMA PopPlainGood ==
  ASSUME NEW c, Good(c), Len(c.stack) > 0, Top(c).loc # "reg"
  PROVE  Good(Pop(c))
<1> DEFINE d == Pop(c)
           n == Len(c.stack)
<1>0. /\ c \in Context /\ Exact(c) /\ Homes(c) /\ Covered(c) /\ n \in Nat
      /\ DOMAIN c.stack = 1 .. n /\ c.stack[n].loc # "reg"
  BY ContextShape DEF Good, Top
<1>1. /\ d \in Context /\ DOMAIN d.stack = 1 .. n - 1
      /\ \A i \in 1 .. n - 1 : d.stack[i] = c.stack[i]
      /\ d.used = c.used /\ d.count = c.count /\ d.spills = c.spills
  BY <1>0, Popped
<1> HIDE DEF d, n
<1>2. \A q : Holders(d, q) = Holders(c, q)  BY <1>0, <1>1 DEF Holders
<1>3. Exact(d)  BY <1>0, <1>1, <1>2 DEF Exact
<1>4. Homes(d) /\ Covered(d)  BY <1>0, <1>1 DEF Homes, Covered
<1> QED  BY <1>1, <1>3, <1>4 DEF Good, d

\* Popping a register slot and giving the register back: whatever the order.
LEMMA PopHeldGood ==
  ASSUME NEW c, Good(c), Len(c.stack) > 0, Top(c).loc = "reg",
         NEW d \in Context, d.stack = Pop(c).stack, d.spills = c.spills,
         d.count = DecUsed(c, Top(c).reg).count, d.used = DecUsed(c, Top(c).reg).used
  PROVE  Good(d)
<1> DEFINE n == Len(c.stack)
           e == Pop(c)
<1>0. /\ c \in Context /\ Homes(c) /\ Covered(c) /\ n \in Nat /\ n > 0
      /\ DOMAIN c.stack = 1 .. n /\ n \in DOMAIN c.stack /\ c.stack[n].loc = "reg"
  BY ContextShape DEF Good, Top
<1>1. DOMAIN d.stack = 1 .. n - 1 /\ \A i \in 1 .. n - 1 : d.stack[i] = c.stack[i]
  BY <1>0, Popped
<1>2. /\ d.count = DecUsed(c, c.stack[n].reg).count
      /\ d.used = DecUsed(c, c.stack[n].reg).used
  BY DEF Top
<1> HIDE DEF n
<1>3. \A q \in Regs : Holders(d, q) = Holders(c, q) \ {n}  BY <1>0, <1>1 DEF Holders
<1>4. Exact(d)  BY <1>0, <1>2, <1>3, Release
<1>5. Homes(d) /\ Covered(d)
  <2>1. \A i \in DOMAIN d.stack : i \in DOMAIN c.stack /\ d.stack[i] = c.stack[i]
    BY <1>0, <1>1
  <2> QED  BY <1>0, <2>1 DEF Homes, Covered
<1> QED  BY <1>4, <1>5 DEF Good

\* dec_used after the pop, as pop_to_register does it.
LEMMA DecUsedOfPop ==
  ASSUME NEW c, Good(c), Len(c.stack) > 0, Top(c).loc = "reg"
  PROVE  /\ DecUsed(Pop(c), Top(c).reg) \in Context
         /\ DecUsed(Pop(c), Top(c).reg).stack = Pop(c).stack
         /\ DecUsed(Pop(c), Top(c).reg).spills = c.spills
         /\ DecUsed(Pop(c), Top(c).reg).count = DecUsed(c, Top(c).reg).count
         /\ DecUsed(Pop(c), Top(c).reg).used = DecUsed(c, Top(c).reg).used
         /\ Top(c).reg \in Regs \ Reserved
<1> DEFINE r == Top(c).reg
           n == [c.count EXCEPT ![r] = @ - 1]
           u == IF c.count[r] = 1 THEN c.used \ {r} ELSE c.used
           e == Pop(c)
<1>0. c \in Context /\ Len(c.stack) \in DOMAIN c.stack  BY ContextShape DEF Good
<1>1. r \in Regs \ Reserved  BY <1>0, DecUsedShape DEF Top
<1>2. Len(c.stack) \in Holders(c, r)  BY <1>0 DEF Holders, Top
<1>3. c.count[r] = Cardinality(Holders(c, r)) /\ Cardinality(Holders(c, r)) > 0
  BY <1>0, <1>1, <1>2, HoldersFinite, FS_EmptySet DEF Exact, Good
<1>4. r \in c.used /\ c.count[r] > 0  BY <1>1, <1>3 DEF Good, Exact
<1>5. c.count \in [Regs -> Nat] /\ c.count[r] \in Nat /\ c.used \subseteq Regs
  BY <1>0, <1>1, ContextShape
<1>6. n \in [Regs -> Nat] /\ u \subseteq Regs
  <2> HIDE DEF r
  <2>1. c.count[r] - 1 \in Nat  BY <1>4, <1>5
  <2> QED  BY <1>5, <2>1
<1>7. e \in Context /\ e.used = c.used /\ e.count = c.count /\ e.spills = c.spills
  BY <1>0, Popped
<1> HIDE DEF e, r
<1>8. /\ DecUsed(c, r) = [c EXCEPT !.count = n, !.used = u]
      /\ DecUsed(e, r) = [e EXCEPT !.count = n, !.used = u]
  BY <1>4, <1>7 DEF DecUsed
<1> HIDE DEF n, u
<1>9. /\ [e EXCEPT !.count = n, !.used = u] \in Context
      /\ [e EXCEPT !.count = n, !.used = u].stack = e.stack
      /\ [e EXCEPT !.count = n, !.used = u].spills = e.spills
      /\ [e EXCEPT !.count = n, !.used = u].count = n
      /\ [e EXCEPT !.count = n, !.used = u].used = u
  BY <1>6, <1>7 DEF Context
<1>10. [c EXCEPT !.count = n, !.used = u].count = n /\ [c EXCEPT !.count = n, !.used = u].used = u
  BY <1>0, <1>6 DEF Context
<1> QED  BY <1>1, <1>7, <1>8, <1>9, <1>10 DEF e, r

\* Writing a register is not the cache's business.
Same(c, d) == /\ d \in Context
              /\ d.stack = c.stack /\ d.used = c.used /\ d.count = c.count
              /\ d.spills = c.spills

LEMMA SetRegSame ==
  ASSUME NEW c \in Context, NEW r, NEW v \in Values \cup {Junk}
  PROVE  Same(c, SetReg(c, r, v))
<1> DEFINE g == [c.regs EXCEPT ![r] = v]
<1>1. c.regs \in [Regs -> Values \cup {Junk}]  BY ContextShape
<1>2. g \in [Regs -> Values \cup {Junk}]  BY <1>1
<1>3. SetReg(c, r, v) = [c EXCEPT !.regs = g]  BY DEF SetReg
<1> HIDE DEF g
<1> QED  BY <1>2, <1>3 DEF Same, Context

LEMMA AssertSame ==
  ASSUME NEW c \in Context, NEW P \in BOOLEAN
  PROVE  Same(c, Assert(c, P))
<1> DEFINE o == c.ok /\ P
<1>1. o \in BOOLEAN  BY ContextShape
<1>2. Assert(c, P) = [c EXCEPT !.ok = o]  BY DEF Assert
<1> HIDE DEF o
<1> QED  BY <1>1, <1>2 DEF Same, Context

\* Move, whatever its registers.
LEMMA MoveSame ==
  ASSUME NEW c \in Context, NEW dst \in Regs, NEW src \in Regs
  PROVE  Same(c, Move(c, dst, src))
<1>1. c.regs[src] \in Values \cup {Junk}  BY ContextShape
<1>2. Same(c, SetReg(c, dst, c.regs[src]))  BY <1>1, SetRegSame
<1>3. Same(SetReg(c, dst, c.regs[src]), Move(c, dst, src))
  BY <1>2, AssertSame DEF Move, Same
<1> QED  BY <1>2, <1>3 DEF Same

LEMMA FillSame ==
  ASSUME NEW c \in Context, NEW r \in Regs, NEW i \in Frame
  PROVE  Same(c, Fill(c, r, i))
<1>1. c.mem[i] \in Values \cup {Junk}  BY ContextShape
<1> QED  BY <1>1, SetRegSame DEF Fill

\* pop_to_register: one slot less, and a register that is not reserved.
LEMMA PopToRegisterGood ==
  ASSUME NEW c, Good(c), Len(c.stack) > 0, Len(c.stack) <= MaxHeight,
         NEW pinned, Choice(pinned)
  PROVE  /\ Good(PopToRegister(c, pinned).c)
         /\ Len(PopToRegister(c, pinned).c.stack) = Len(c.stack) - 1
         /\ PopToRegister(c, pinned).reg \in Regs \ Reserved
<1> DEFINE e == Pop(c)
           new == GetUnused(e, {}, pinned)
           n == Len(c.stack)
<1>0. /\ c \in Context /\ n \in 1 .. MaxHeight /\ n \in Frame /\ n \in DOMAIN c.stack
      /\ Top(c) \in Slot /\ e \in Context /\ Len(e.stack) = n - 1
      /\ Len(e.stack) <= MaxHeight
  BY RegsAssumption, ContextShape, Popped DEF Good, Top, Frame
<1>1. CASE Top(c).loc = "reg"
  <2> DEFINE d == DecUsed(e, Top(c).reg)
  <2>1. PopToRegister(c, pinned) = With(d, Top(c).reg)  BY <1>1 DEF PopToRegister
  <2>2. Good(d) /\ d.stack = e.stack /\ Top(c).reg \in Regs \ Reserved
    BY <1>1, DecUsedOfPop, PopHeldGood
  <2> HIDE DEF d
  <2> QED  BY <1>0, <2>1, <2>2 DEF With
<1>2. CASE Top(c).loc # "reg"
  <2>1. Good(e)  BY <1>2, PopPlainGood
  <2>2. Good(new.c) /\ KeptSlots(e, new.c) /\ new.reg \in Regs \ (pinned \cup Reserved)
    BY <1>0, <2>1, GetUnusedGood
  <2>3. new.reg # NoReg  BY <2>2, RegsAssumption DEF NoReg
  <2>4. Top(c).val \in Values  BY <1>0, SlotShape
  <2> HIDE DEF new, n
  <2>5. \/ PopToRegister(c, pinned) = With(LoadConstant(new.c, new.reg, Top(c).val), new.reg)
        \/ PopToRegister(c, pinned) = With(Fill(new.c, new.reg, n), new.reg)
    BY <1>2, <2>3 DEF PopToRegister, Height, n, new
  <2>6. /\ Same(new.c, LoadConstant(new.c, new.reg, Top(c).val))
        /\ Same(new.c, Fill(new.c, new.reg, n))
    BY <1>0, <2>2, <2>4, SetRegSame, FillSame DEF Good, LoadConstant
  <2>7. PICK d : Same(new.c, d) /\ PopToRegister(c, pinned) = With(d, new.reg)
    BY <2>5, <2>6
  <2>8. Good(d)  BY <2>2, <2>7, SameCache DEF Same
  <2> QED  BY <1>0, <2>2, <2>7, <2>8 DEF With, Same, KeptSlots, n
<1> QED  BY <1>1, <1>2

-----------------------------------------------------------------------------
(* Overwriting a slot. *)

LEMMA SetSlotShape ==
  ASSUME NEW c \in Context, NEW i \in DOMAIN c.stack, NEW s \in Slot
  PROVE  /\ SetSlot(c, i, s) \in Context
         /\ DOMAIN SetSlot(c, i, s).stack = DOMAIN c.stack
         /\ Len(SetSlot(c, i, s).stack) = Len(c.stack)
         /\ SetSlot(c, i, s).stack[i] = s
         /\ \A j \in DOMAIN c.stack : j # i => SetSlot(c, i, s).stack[j] = c.stack[j]
         /\ SetSlot(c, i, s).used = c.used /\ SetSlot(c, i, s).count = c.count
         /\ SetSlot(c, i, s).spills = c.spills
<1> DEFINE t == [c.stack EXCEPT ![i] = s]
<1>1. /\ c.stack \in Seq(Slot) /\ DOMAIN c.stack = 1 .. Len(c.stack) /\ Len(c.stack) \in Nat
      /\ \A j \in DOMAIN c.stack : c.stack[j] \in Slot
  BY ContextShape
<1>2. t \in [1 .. Len(c.stack) -> Slot]  BY <1>1
<1>3. t \in Seq(Slot) /\ Len(t) = Len(c.stack) /\ DOMAIN t = DOMAIN c.stack
  BY <1>1, <1>2, SeqDef, LenProperties
<1>4. t[i] = s /\ \A j \in DOMAIN c.stack : j # i => t[j] = c.stack[j]  BY <1>1
<1>5. SetSlot(c, i, s) = [c EXCEPT !.stack = t]  BY DEF SetSlot
<1> HIDE DEF t
<1>6. /\ [c EXCEPT !.stack = t] \in Context /\ [c EXCEPT !.stack = t].stack = t
      /\ [c EXCEPT !.stack = t].used = c.used /\ [c EXCEPT !.stack = t].count = c.count
      /\ [c EXCEPT !.stack = t].spills = c.spills
  BY <1>3 DEF Context
<1> QED  BY <1>3, <1>4, <1>5, <1>6

\* A slot that gives up its register, if it has one, for a constant or the frame.
Vacate(c, i, s) == SetSlot(IF c.stack[i].loc = "reg" THEN DecUsed(c, c.stack[i].reg) ELSE c, i, s)

LEMMA VacateGood ==
  ASSUME NEW c, Good(c), NEW i \in DOMAIN c.stack, NEW s \in Slot, s.loc # "reg",
         s.loc = "stack" => i <= c.spills
  PROVE  /\ Good(Vacate(c, i, s)) /\ Len(Vacate(c, i, s).stack) = Len(c.stack)
         /\ DOMAIN Vacate(c, i, s).stack = DOMAIN c.stack /\ Vacate(c, i, s).stack[i] = s
         /\ \A j \in DOMAIN c.stack : j # i => Vacate(c, i, s).stack[j] = c.stack[j]
         /\ Vacate(c, i, s).spills = c.spills
<1> DEFINE f == IF c.stack[i].loc = "reg" THEN DecUsed(c, c.stack[i].reg) ELSE c
           d == Vacate(c, i, s)
<1>0. c \in Context /\ Exact(c) /\ Homes(c) /\ Covered(c)  BY DEF Good
<1>1. f \in Context /\ f.stack = c.stack /\ f.spills = c.spills  BY <1>0, DecUsedShape
<1>2. d = SetSlot(f, i, s)  BY DEF Vacate
<1> HIDE DEF f, d
<1>3. /\ d \in Context /\ Len(d.stack) = Len(c.stack) /\ DOMAIN d.stack = DOMAIN c.stack
      /\ d.stack[i] = s /\ \A j \in DOMAIN c.stack : j # i => d.stack[j] = c.stack[j]
      /\ d.used = f.used /\ d.count = f.count /\ d.spills = c.spills
  BY <1>1, <1>2, SetSlotShape
<1>4. s.reg \notin Reserved  BY SlotShape, RegsAssumption DEF NoReg
<1>5. \A q \in Regs : Holders(d, q) = Holders(c, q) \ {i}  BY <1>3 DEF Holders
<1>6. Exact(d)
  <2>1. CASE c.stack[i].loc = "reg"
    <3>1. d.count = DecUsed(c, c.stack[i].reg).count /\ d.used = DecUsed(c, c.stack[i].reg).used
      BY <1>3, <2>1 DEF f
    <3> QED  BY <1>3, <1>5, <2>1, <3>1, Release
  <2>2. CASE c.stack[i].loc # "reg"
    <3>1. d.count = c.count /\ d.used = c.used  BY <1>3, <2>2 DEF f
    <3>2. \A q \in Regs : Holders(d, q) = Holders(c, q)  BY <1>5, <2>2 DEF Holders
    <3> QED  BY <1>0, <3>1, <3>2 DEF Exact
  <2> QED  BY <2>1, <2>2
<1>7. Homes(d) /\ Covered(d)  BY <1>0, <1>3, <1>4 DEF Homes, Covered
<1> QED  BY <1>3, <1>6, <1>7 DEF Good, d

\* A slot without a register takes one.
LEMMA OccupyGood ==
  ASSUME NEW c, Good(c), NEW i \in DOMAIN c.stack, c.stack[i].loc # "reg",
         NEW r \in Regs \ Reserved, NEW d \in Context,
         d.count = IncUsed(c, r).count, d.used = IncUsed(c, r).used, d.spills = c.spills,
         DOMAIN d.stack = DOMAIN c.stack, d.stack[i] = RegSlot(r),
         \A j \in DOMAIN c.stack : j # i => d.stack[j] = c.stack[j]
  PROVE  Good(d)
<1>0. c \in Context /\ Homes(c) /\ Covered(c)  BY DEF Good
<1>1. RegSlot(r).loc = "reg" /\ RegSlot(r).reg = r  BY DEF RegSlot
<1>2. Holders(d, r) = Holders(c, r) \cup {i} /\ i \notin Holders(c, r)  BY <1>1 DEF Holders
<1>3. \A q \in Regs : q # r => Holders(d, q) = Holders(c, q)  BY <1>1 DEF Holders
<1>4. d.count = [c.count EXCEPT ![r] = @ + 1] /\ d.used = c.used \cup {r}
  BY <1>0, IncUsedShape
<1>5. Exact(d)  BY <1>2, <1>3, <1>4, Acquire
<1>6. Homes(d) /\ Covered(d)  BY <1>0, <1>1 DEF Homes, Covered
<1> QED  BY <1>5, <1>6 DEF Good

\* The top slot hands its register down to a slot without one, and is popped.
LEMMA HandDownGood ==
  ASSUME NEW c, Good(c), Len(c.stack) > 0, Top(c).loc = "reg",
         NEW i \in 1 .. Len(c.stack) - 1, c.stack[i].loc # "reg", NEW d \in Context,
         d.count = c.count, d.used = c.used, d.spills = c.spills,
         DOMAIN d.stack = 1 .. Len(c.stack) - 1, d.stack[i] = Top(c),
         \A j \in 1 .. Len(c.stack) - 1 : j # i => d.stack[j] = c.stack[j]
  PROVE  Good(d)
<1> DEFINE n == Len(c.stack)
           r == Top(c).reg
<1>0. /\ c \in Context /\ Exact(c) /\ Homes(c) /\ Covered(c) /\ n \in Nat /\ n > 0
      /\ DOMAIN c.stack = 1 .. n /\ c.stack[n] = Top(c)
  BY ContextShape DEF Good, Top
<1> HIDE DEF n
<1>1. n \in Holders(c, r) /\ i \notin Holders(c, r)  BY <1>0 DEF Holders
<1>a. /\ \A j : j \in DOMAIN d.stack <=> j \in DOMAIN c.stack /\ j # n
      /\ \A j \in DOMAIN d.stack : j # i => d.stack[j] = c.stack[j]
      /\ i \in DOMAIN d.stack /\ d.stack[i] = c.stack[n] /\ i # n
  <2>1. /\ DOMAIN d.stack = 1 .. n - 1 /\ i \in 1 .. n - 1
        /\ \A j \in 1 .. n - 1 : j # i => d.stack[j] = c.stack[j]
    BY DEF n
  <2>2. /\ n \in Nat /\ n > 0 /\ DOMAIN c.stack = 1 .. n /\ d.stack[i] = c.stack[n]
    BY <1>0
  <2>3. \A j : j \in 1 .. n - 1 <=> j \in 1 .. n /\ j # n  BY <2>2
  <2> QED  BY <2>1, <2>2, <2>3
<1>b. n \in DOMAIN c.stack /\ c.stack[n].loc = "reg" /\ c.stack[n].reg = r  BY <1>0
<1> HIDE DEF r
<1>2. Holders(d, r) = (Holders(c, r) \ {n}) \cup {i}  BY <1>a, <1>b DEF Holders
<1>3. \A q \in Regs : q # r => Holders(d, q) = Holders(c, q)
  <2> SUFFICES ASSUME NEW q \in Regs, q # r, NEW j
               PROVE  j \in Holders(d, q) <=> j \in Holders(c, q)
    BY DEF Holders
  <2>1. CASE j \in {i, n}  BY <1>a, <1>b, <2>1 DEF Holders
  <2>2. CASE j \notin {i, n}  BY <1>a, <2>2 DEF Holders
  <2> QED  BY <2>1, <2>2
<1>4. Cardinality(Holders(d, r)) = Cardinality(Holders(c, r))
  <2> DEFINE S == Holders(c, r)
  <2>1. IsFiniteSet(S) /\ Cardinality(S) \in Nat  BY <1>0, HoldersFinite
  <2> HIDE DEF S
  <2>2. n \in S /\ i \notin S  BY <1>1 DEF S
  <2>3. IsFiniteSet(S \ {n}) /\ Cardinality(S \ {n}) = Cardinality(S) - 1
    BY <2>1, <2>2, FS_RemoveElement
  <2>4. Cardinality((S \ {n}) \cup {i}) = Cardinality(S \ {n}) + 1
    BY <2>2, <2>3, FS_AddElement
  <2> QED  BY <1>2, <2>1, <2>3, <2>4 DEF S
<1>5. Exact(d)
  <2> SUFFICES ASSUME NEW q \in Regs
               PROVE  Cardinality(Holders(d, q)) = Cardinality(Holders(c, q))
    BY <1>0 DEF Exact
  <2> QED  BY <1>3, <1>4
<1>6. ASSUME NEW j \in DOMAIN d.stack
      PROVE  d.stack[j].reg \notin Reserved /\ (d.stack[j].loc = "stack" => j <= d.spills)
  <2>1. CASE j = i  BY <1>0, <2>1 DEF Homes
  <2>2. CASE j # i
    <3>1. d.stack[j] = c.stack[j] /\ j \in DOMAIN c.stack  BY <1>0, <2>2 DEF n
    <3> QED  BY <1>0, <3>1 DEF Homes, Covered
  <2> QED  BY <2>1, <2>2
<1>7. Homes(d) /\ Covered(d)  BY <1>6 DEF Homes, Covered
<1> QED  BY <1>5, <1>7 DEF Good

-----------------------------------------------------------------------------
(* Asserts.  With exact counts those of the allocator hold. *)

\* Operators that assert nothing.
LEMMA FieldsOk ==
  ASSUME NEW c \in Context, NEW a, NEW b, NEW d
  PROVE  /\ [c EXCEPT !.used = a, !.count = b].ok = c.ok
         /\ [c EXCEPT !.count = a, !.used = b].ok = c.ok
         /\ [c EXCEPT !.stack = a].ok = c.ok /\ [c EXCEPT !.regs = a].ok = c.ok
         /\ [c EXCEPT !.mem = a, !.stack = b, !.spills = d].ok = c.ok
         /\ [c EXCEPT !.stack = a, !.regs = b].ok = c.ok
BY DEF Context

LEMMA IncUsedOk ==
  ASSUME NEW c \in Context, NEW r
  PROVE  IncUsed(c, r).ok = c.ok
<1> DEFINE m == [c.count EXCEPT ![r] = @ + 1]
           u == c.used \cup {r}
<1>1. IncUsed(c, r) = [c EXCEPT !.used = u, !.count = m]  BY DEF IncUsed
<1> HIDE DEF m, u
<1> QED  BY <1>1, FieldsOk

LEMMA ClearUsedOk ==
  ASSUME NEW c \in Context, NEW r
  PROVE  ClearUsed(c, r).ok = c.ok
<1> DEFINE m == [c.count EXCEPT ![r] = 0]
           u == c.used \ {r}
<1>1. ClearUsed(c, r) = [c EXCEPT !.count = m, !.used = u]  BY DEF ClearUsed
<1> HIDE DEF m, u
<1> QED  BY <1>1, FieldsOk

LEMMA PushOk ==
  ASSUME NEW c \in Context, NEW s
  PROVE  Push(c, s).ok = c.ok
<1> DEFINE t == Append(c.stack, s)
<1>1. Push(c, s) = [c EXCEPT !.stack = t]  BY DEF Push
<1> HIDE DEF t
<1> QED  BY <1>1, FieldsOk

LEMMA PushRegisterOk ==
  ASSUME NEW c \in Context, NEW r \in Regs
  PROVE  PushRegister(c, r).ok = c.ok
<1> DEFINE b == IncUsed(c, r)
<1>1. b \in Context /\ b.ok = c.ok  BY IncUsedShape, IncUsedOk
<1> HIDE DEF b
<1>2. Push(b, RegSlot(r)).ok = c.ok  BY <1>1, PushOk
<1> QED  BY <1>2 DEF PushRegister, b

LEMMA SetSlotOk ==
  ASSUME NEW c \in Context, NEW i, NEW s
  PROVE  SetSlot(c, i, s).ok = c.ok
<1> DEFINE t == [c.stack EXCEPT ![i] = s]
<1>1. SetSlot(c, i, s) = [c EXCEPT !.stack = t]  BY DEF SetSlot
<1> HIDE DEF t
<1> QED  BY <1>1, FieldsOk

LEMMA SetRegOk ==
  ASSUME NEW c \in Context, NEW r, NEW v
  PROVE  SetReg(c, r, v).ok = c.ok
<1> DEFINE g == [c.regs EXCEPT ![r] = v]
<1>1. SetReg(c, r, v) = [c EXCEPT !.regs = g]  BY DEF SetReg
<1> HIDE DEF g
<1> QED  BY <1>1, FieldsOk

LEMMA AssertOk ==
  ASSUME NEW c \in Context, NEW P
  PROVE  P => Assert(c, P).ok = c.ok
<1> SUFFICES ASSUME P PROVE Assert(c, P).ok = c.ok
  OBVIOUS
<1> DEFINE o == c.ok /\ P
<1>1. Assert(c, P) = [c EXCEPT !.ok = o]  BY DEF Assert
<1>2. c.ok \in BOOLEAN  BY ContextShape
<1>3. o = c.ok  BY <1>2
<1> HIDE DEF o
<1>4. [c EXCEPT !.ok = o].ok = o  BY DEF Context
<1> QED  BY <1>1, <1>3, <1>4

LEMMA MoveOk ==
  ASSUME NEW c \in Context, NEW dst \in Regs, NEW src \in Regs, dst # src
  PROVE  Move(c, dst, src).ok = c.ok
<1>1. c.regs[src] \in Values \cup {Junk}  BY ContextShape
<1> DEFINE d == SetReg(c, dst, c.regs[src])
<1>2. d \in Context /\ d.ok = c.ok  BY <1>1, SetRegSame, SetRegOk DEF Same
<1> HIDE DEF d
<1>3. Assert(d, dst # src).ok = c.ok  BY <1>2, AssertOk
<1> QED  BY <1>3 DEF Move, d

LEMMA StoreSlotsOk ==
  ASSUME NEW c \in Context, NEW I
  PROVE  StoreSlots(c, I).ok = c.ok
<1> DEFINE t == [i \in DOMAIN c.stack |-> IF i \in I THEN StackSlot ELSE c.stack[i]]
           m == [i \in Frame |-> IF i \in I THEN ValueAt(c, i) ELSE c.mem[i]]
           u == IF I = {} THEN c.spills
                ELSE Larger(c.spills, CHOOSE i \in I : \A j \in I : j <= i)
<1>1. StoreSlots(c, I) = [c EXCEPT !.mem = m, !.stack = t, !.spills = u]
  BY DEF StoreSlots
<1> HIDE DEF t, m, u
<1> QED  BY <1>1, FieldsOk

LEMMA SpillRegisterOk ==
  ASSUME NEW c \in Context, Len(c.stack) <= MaxHeight, NEW r
  PROVE  SpillRegister(c, r).ok = c.ok
<1>1. TopHolders(c, r) \in SUBSET DOMAIN c.stack  BY DEF TopHolders, Holders
<1>2. StoreSlots(c, TopHolders(c, r)) \in Context  BY <1>1, StoredSlots
<1> QED  BY <1>2, StoreSlotsOk, ClearUsedOk DEF SpillRegister

\* A register is asked to be spilled only when all that may be are in use.
LEMMA GetUnusedRegisterOk ==
  ASSUME NEW c, Good(c), Len(c.stack) <= MaxHeight, NEW pinned, Choice(pinned)
  PROVE  GetUnusedRegister(c, pinned).c.ok = c.ok
<1> DEFINE available == (Regs \ c.used) \ pinned
           r == NextSpillReg(c, pinned)
           m == MarkSpilled(c, pinned)
           l == {r} \cup (IF Unpinned(pinned) \subseteq c.last THEN {} ELSE c.last)
           o == c.ok /\ Unpinned(pinned) # {} /\ Unpinned(pinned) \subseteq c.used
<1>0. c \in Context /\ c.ok \in BOOLEAN  BY ContextShape DEF Good
<1>1. CASE available # {}
  BY <1>1 DEF GetUnusedRegister, With
<1>2. CASE available = {}
  <2>1. Unpinned(pinned) # {} /\ Unpinned(pinned) \subseteq c.used
    BY <1>2 DEF Choice, Unpinned
  <2>2. GetUnusedRegister(c, pinned).c = SpillRegister(m, r)
    BY <1>2, <2>1 DEF GetUnusedRegister, SpillOneRegister, With
  <2>3. Good(m) /\ m.stack = c.stack  BY MarkSpilledGood
  <2>4. m.ok = c.ok
    <3>1. m = [c EXCEPT !.last = l, !.ok = o]  BY DEF MarkSpilled
    <3>2. o = c.ok  BY <1>0, <2>1
    <3> HIDE DEF l, o, m
    <3>3. [c EXCEPT !.last = l, !.ok = o].ok = o  BY <1>0 DEF Context
    <3> QED  BY <3>1, <3>2, <3>3
  <2> HIDE DEF m, r
  <2> QED  BY <2>2, <2>3, <2>4, SpillRegisterOk DEF Good
<1> QED  BY <1>1, <1>2

\* is_used finds used set and use count in agreement.
LEMMA GetUnusedOk ==
  ASSUME NEW c, Good(c), Len(c.stack) <= MaxHeight, NEW pinned, Choice(pinned),
         NEW first \in SUBSET (Regs \ Reserved)
  PROVE  GetUnused(c, first, pinned).c.ok = c.ok
<1> DEFINE free == first \ c.used
           P == \A r \in first : (\A q \in free : r <= q) => Consistent(c, r)
           d == Assert(c, P)
<1>0. c \in Context /\ Exact(c)  BY DEF Good
<1>1. P
  <2> SUFFICES ASSUME NEW r \in first PROVE Consistent(c, r)
    OBVIOUS
  <2>1. r \in Regs /\ r \notin Reserved /\ c.count[r] \in Nat  BY <1>0, ContextShape
  <2>2. r \in c.used <=> c.count[r] > 0  BY <1>0, <2>1 DEF Exact
  <2> QED  BY <2>1, <2>2 DEF Consistent
<1>2. GetUnused(c, first, pinned) = IF free # {} THEN With(d, FirstOf(free))
                                    ELSE GetUnusedRegister(d, pinned)
  BY DEF GetUnused
<1>3. P \in BOOLEAN  OBVIOUS
<1> HIDE DEF P, free
<1>4. Good(d) /\ d.stack = c.stack /\ d.ok = c.ok  BY <1>0, <1>1, <1>3, AssertGood, AssertOk
<1> HIDE DEF d
<1>5. GetUnusedRegister(d, pinned).c.ok = c.ok  BY <1>4, GetUnusedRegisterOk
<1> QED  BY <1>2, <1>4, <1>5 DEF With

LEMMA DecUsedOfPopOk ==
  ASSUME NEW c, Good(c), Len(c.stack) > 0, Top(c).loc = "reg"
  PROVE  DecUsed(Pop(c), Top(c).reg).ok = c.ok
<1> DEFINE r == Top(c).reg
           e == Pop(c)
           n == [e.count EXCEPT ![r] = @ - 1]
           u == IF e.count[r] = 1 THEN e.used \ {r} ELSE e.used
<1>0. c \in Context /\ Len(c.stack) \in DOMAIN c.stack  BY ContextShape DEF Good
<1>1. r \in Regs  BY <1>0, DecUsedShape DEF Top
<1>2. Len(c.stack) \in Holders(c, r)  BY <1>0 DEF Holders, Top
<1>3. c.count[r] = Cardinality(Holders(c, r)) /\ Cardinality(Holders(c, r)) > 0
  BY <1>0, <1>1, <1>2, HoldersFinite, FS_EmptySet DEF Exact, Good
<1>4. r \in c.used /\ c.count[r] > 0  BY <1>1, <1>3 DEF Good, Exact
<1>5. e \in Context /\ e.used = c.used /\ e.count = c.count /\ e.ok = c.ok
  BY <1>0, Popped
<1> HIDE DEF e, r
<1>6. DecUsed(e, r) = [e EXCEPT !.count = n, !.used = u]  BY <1>4, <1>5 DEF DecUsed
<1> HIDE DEF n, u
<1> QED  BY <1>5, <1>6, FieldsOk DEF e, r

LEMMA DecUsedShrinks ==
  ASSUME NEW c \in Context, NEW r
  PROVE  DecUsed(c, r).used \subseteq c.used
<1> DEFINE n == [c.count EXCEPT ![r] = @ - 1]
           u == IF c.count[r] = 1 THEN c.used \ {r} ELSE c.used
           o == c.ok /\ FALSE
<1>1. DecUsed(c, r) = IF r \in c.used /\ c.count[r] > 0
                      THEN [c EXCEPT !.count = n, !.used = u] ELSE [c EXCEPT !.ok = o]
  BY DEF DecUsed, Assert
<1>2. u \subseteq c.used  OBVIOUS
<1> HIDE DEF n, u, o
<1>3. [c EXCEPT !.count = n, !.used = u].used = u /\ [c EXCEPT !.ok = o].used = c.used
  BY DEF Context
<1> QED  BY <1>1, <1>2, <1>3

\* pop_to_register: the register of the slot, or a free one that is loaded.
LEMMA PoppedFromRegister ==
  ASSUME NEW c, NEW pinned, Top(c).loc = "reg"
  PROVE  PopToRegister(c, pinned).c = DecUsed(Pop(c), Top(c).reg)
BY DEF PopToRegister, With

LEMMA PoppedFromFrame ==
  ASSUME NEW c, NEW pinned, Top(c).loc # "reg", GetUnused(Pop(c), {}, pinned).reg # NoReg
  PROVE  LET u == GetUnused(Pop(c), {}, pinned)
         IN  /\ PopToRegister(c, pinned).reg = u.reg
             /\ \/ PopToRegister(c, pinned).c = LoadConstant(u.c, u.reg, Top(c).val)
                \/ PopToRegister(c, pinned).c = Fill(u.c, u.reg, Height(c))
BY DEF PopToRegister, With

LEMMA PopToRegisterOk ==
  ASSUME NEW c, Good(c), Len(c.stack) > 0, Len(c.stack) <= MaxHeight,
         NEW pinned, Choice(pinned)
  PROVE  PopToRegister(c, pinned).c.ok = c.ok
<1> DEFINE e == Pop(c)
           new == GetUnused(e, {}, pinned)
<1>0. /\ c \in Context /\ Len(c.stack) \in Nat /\ e \in Context
      /\ Len(e.stack) <= MaxHeight /\ e.ok = c.ok
  BY RegsAssumption, ContextShape, Popped DEF Good
<1>1. CASE Top(c).loc = "reg"
  BY <1>1, DecUsedOfPopOk DEF PopToRegister, With
<1>2. CASE Top(c).loc # "reg"
  <2>1. Good(e)  BY <1>2, PopPlainGood
  <2>2. Good(new.c) /\ new.reg \in Regs \ (pinned \cup Reserved)
    BY <1>0, <2>1, GetUnusedGood
  <2>3. new.reg # NoReg /\ new.c \in Context  BY <2>2, RegsAssumption DEF NoReg, Good
  <2>4. new.c.ok = c.ok  BY <1>0, <2>1, GetUnusedOk
  <2> HIDE DEF new
  <2>5. \/ PopToRegister(c, pinned) = With(LoadConstant(new.c, new.reg, Top(c).val), new.reg)
        \/ PopToRegister(c, pinned) = With(Fill(new.c, new.reg, Len(c.stack)), new.reg)
    BY <1>2, <2>3 DEF PopToRegister, Height, new
  <2> QED  BY <2>3, <2>4, <2>5, SetRegOk DEF LoadConstant, Fill, With
<1> QED  BY <1>1, <1>2

-----------------------------------------------------------------------------
(* The handlers that straight-line code and structured code share. *)

\* A cache within the bound, as every handler finds it.
Fits(c) == Good(c) /\ Len(c.stack) <= MaxHeight

LEMMA FitsShape ==
  ASSUME NEW c, Fits(c)
  PROVE  /\ c \in Context /\ Good(c) /\ Len(c.stack) \in Nat /\ Len(c.stack) <= MaxHeight
         /\ MaxHeight \in Nat /\ DOMAIN c.stack = 1 .. Len(c.stack)
         /\ c.regs \in [Regs -> Values \cup {Junk}] /\ c.ok \in BOOLEAN
BY ContextShape, RegsAssumption DEF Fits, Good

LEMMA SameTransitive ==
  ASSUME NEW c, NEW d, NEW e, Same(c, d), Same(d, e)
  PROVE  Same(c, e)
BY DEF Same

\* A register for a value that is about to be computed.
LEMMA UnusedFits ==
  ASSUME NEW c, Fits(c), Choice({})
  PROVE  /\ Fits(GetUnused(c, {}, {}).c)
         /\ Len(GetUnused(c, {}, {}).c.stack) = Len(c.stack)
         /\ GetUnused(c, {}, {}).reg \in Regs \ Reserved /\ GetUnused(c, {}, {}).reg \in Regs
         /\ GetUnused(c, {}, {}).c.ok = c.ok
<1>1. Good(c) /\ Len(c.stack) <= MaxHeight  BY DEF Fits
<1>2. /\ Good(GetUnused(c, {}, {}).c) /\ KeptSlots(c, GetUnused(c, {}, {}).c)
      /\ GetUnused(c, {}, {}).reg \in Regs \ Reserved
  BY <1>1, GetUnusedGood
<1>3. {} \in SUBSET (Regs \ Reserved)  OBVIOUS
<1>4. GetUnused(c, {}, {}).c.ok = c.ok  BY <1>1, <1>3, GetUnusedOk
<1> QED  BY <1>1, <1>2, <1>4 DEF KeptSlots, Fits

\* A value computed by an instruction sequence that leaves the cache alone is
\* pushed in its register.
LEMMA PushSameGood ==
  ASSUME NEW c, Good(c), NEW d, Same(c, d), NEW r \in Regs \ Reserved
  PROVE  Good(PushRegister(d, r)) /\ Len(PushRegister(d, r).stack) = Len(c.stack) + 1
<1>1. Good(d) /\ d.stack = c.stack  BY SameCache DEF Same
<1> QED  BY <1>1, PushRegisterGood

\* A large constant or a global.
LEMMA LoadedValueGood ==
  ASSUME NEW c, Fits(c), Choice({}), NEW v \in Values
  PROVE  /\ Good(LoadedValue(c, v)) /\ Len(LoadedValue(c, v).stack) = Len(c.stack) + 1
         /\ LoadedValue(c, v).ok = c.ok
<1> DEFINE d == GetUnused(c, {}, {})
           e == SetReg(d.c, d.reg, v)
<1>1. /\ Fits(d.c) /\ Len(d.c.stack) = Len(c.stack) /\ d.reg \in Regs \ Reserved
      /\ d.c.ok = c.ok
  BY UnusedFits
<1> HIDE DEF d
<1>2. Good(d.c) /\ d.c \in Context  BY <1>1, FitsShape
<1>3. Same(d.c, e) /\ e \in Context /\ e.ok = c.ok
  BY <1>1, <1>2, SetRegSame, SetRegOk DEF Same
<1> HIDE DEF e
<1>4. Good(PushRegister(e, d.reg)) /\ Len(PushRegister(e, d.reg).stack) = Len(c.stack) + 1
  BY <1>1, <1>2, <1>3, PushSameGood
<1>5. PushRegister(e, d.reg).ok = c.ok  BY <1>1, <1>3, PushRegisterOk
<1> QED  BY <1>4, <1>5 DEF LoadedValue, d, e

\* get_local: a second slot in the register of the local, its constant, or a
\* register filled from the frame.
LEMMA CopyLocalGood ==
  ASSUME NEW c, Fits(c), Choice({}), NEW x \in DOMAIN c.stack
  PROVE  /\ Good(CopyLocal(c, x)) /\ Len(CopyLocal(c, x).stack) = Len(c.stack) + 1
         /\ CopyLocal(c, x).ok = c.ok
<1> DEFINE d == GetUnused(c, {}, {})
           e == Fill(d.c, d.reg, x)
<1>0. /\ c \in Context /\ Good(c) /\ Len(c.stack) \in Nat /\ Len(c.stack) <= MaxHeight
      /\ MaxHeight \in Nat /\ DOMAIN c.stack = 1 .. Len(c.stack)
  BY FitsShape
<1>1. x \in Frame  BY <1>0 DEF Frame
<1>2. c.stack[x] \in Slot /\ c.stack[x].reg \notin Reserved
  BY <1>0, ContextShape DEF Good, Homes
<1>3. /\ Fits(d.c) /\ Len(d.c.stack) = Len(c.stack) /\ d.reg \in Regs \ Reserved
      /\ d.c.ok = c.ok
  BY UnusedFits
<1> HIDE DEF d
<1>4. CASE c.stack[x].loc = "reg"
  <2>1. c.stack[x].reg \in Regs \ Reserved  BY <1>2, <1>4, SlotShape
  <2>2. /\ Good(PushRegister(c, c.stack[x].reg))
        /\ Len(PushRegister(c, c.stack[x].reg).stack) = Len(c.stack) + 1
        /\ PushRegister(c, c.stack[x].reg).ok = c.ok
    BY <1>0, <2>1, PushRegisterGood, PushRegisterOk
  <2> QED  BY <1>4, <2>2 DEF CopyLocal
<1>5. CASE c.stack[x].loc = "const"
  <2>1. c.stack[x].val \in Values  BY <1>2, SlotShape
  <2>2. /\ Good(PushConst(c, c.stack[x].val))
        /\ Len(PushConst(c, c.stack[x].val).stack) = Len(c.stack) + 1
        /\ PushConst(c, c.stack[x].val).ok = c.ok
    BY <1>0, <2>1, PushConstGood, PushOk DEF PushConst
  <2> QED  BY <1>5, <2>2 DEF CopyLocal
<1>6. CASE c.stack[x].loc \notin {"reg", "const"}
  <2>1. Good(d.c) /\ d.c \in Context  BY <1>3, FitsShape
  <2>2. Same(d.c, e) /\ e \in Context /\ e.ok = c.ok
    BY <1>1, <1>3, <2>1, FillSame, SetRegOk DEF Same, Fill
  <2> HIDE DEF e
  <2>3. Good(PushRegister(e, d.reg)) /\ Len(PushRegister(e, d.reg).stack) = Len(c.stack) + 1
    BY <1>3, <2>1, <2>2, PushSameGood
  <2>4. PushRegister(e, d.reg).ok = c.ok  BY <1>3, <2>2, PushRegisterOk
  <2> QED  BY <1>6, <2>3, <2>4 DEF CopyLocal, d, e
<1> QED  BY <1>4, <1>5, <1>6

\* Giving up the register of a slot takes the normal path of dec_used.
LEMMA FreedOk ==
  ASSUME NEW c, Good(c), NEW i \in DOMAIN c.stack
  PROVE  /\ (IF c.stack[i].loc = "reg" THEN DecUsed(c, c.stack[i].reg) ELSE c) \in Context
         /\ (IF c.stack[i].loc = "reg" THEN DecUsed(c, c.stack[i].reg) ELSE c).stack = c.stack
         /\ (IF c.stack[i].loc = "reg" THEN DecUsed(c, c.stack[i].reg) ELSE c).ok = c.ok
<1>1. CASE c.stack[i].loc = "reg"  BY <1>1, DecUsedShape
<1>2. CASE c.stack[i].loc # "reg"  BY <1>2 DEF Good
<1> QED  BY <1>1, <1>2

\* drop gives up the register of the slot on top.
LEMMA DropTopGood ==
  ASSUME NEW c, Good(c), Len(c.stack) > 0
  PROVE  /\ Good(DropTop(c)) /\ Len(DropTop(c).stack) = Len(c.stack) - 1
         /\ DropTop(c).ok = c.ok
<1> DEFINE e == IF Top(c).loc = "reg" THEN DecUsed(c, Top(c).reg) ELSE c
<1>0. /\ c \in Context /\ Good(c) /\ Len(c.stack) \in Nat /\ Len(c.stack) > 0
  BY ContextShape DEF Good
<1>1. Len(c.stack) \in DOMAIN c.stack  BY <1>0, ContextShape
<1>2. e \in Context /\ e.stack = c.stack /\ e.spills = c.spills /\ e.ok = c.ok
  BY <1>0, <1>1, DecUsedShape DEF Top
<1>3. DropTop(c) = Pop(e)  BY DEF DropTop
<1> HIDE DEF e
<1>4. /\ Pop(e) \in Context /\ Len(Pop(e).stack) = Len(c.stack) - 1
      /\ Pop(e).used = e.used /\ Pop(e).count = e.count /\ Pop(e).spills = c.spills
      /\ Pop(e).ok = c.ok
  BY <1>0, <1>2, Popped
<1>5. Pop(e).stack = Pop(c).stack  BY <1>0, <1>2 DEF Pop, Context
<1>6. Good(Pop(e))
  <2>1. CASE Top(c).loc = "reg"
    <3>1. e = DecUsed(c, Top(c).reg)  BY <2>1 DEF e
    <3> QED  BY <1>0, <1>4, <1>5, <2>1, <3>1, PopHeldGood
  <2>2. CASE Top(c).loc # "reg"
    <3>1. e = c  BY <2>2 DEF e
    <3> QED  BY <1>0, <2>2, <3>1, PopPlainGood
  <2> QED  BY <2>1, <2>2
<1> QED  BY <1>3, <1>4, <1>6

\* What set_local works on: a local below an operand.
LEMMA LocalBelowTop ==
  ASSUME NEW c, Fits(c), NEW x \in 1 .. Len(c.stack) - 1
  PROVE  /\ c \in Context /\ Good(c) /\ Len(c.stack) \in Nat /\ Len(c.stack) > 0
         /\ DOMAIN c.stack = 1 .. Len(c.stack) /\ Len(c.stack) \in DOMAIN c.stack
         /\ Top(c) = c.stack[Len(c.stack)] /\ Top(c) \in Slot
         /\ x \in DOMAIN c.stack /\ x \in 1 .. Len(c.stack) - 1 /\ x # Len(c.stack) /\ x \in Nat
         /\ x < Len(c.stack)
         /\ Len(c.stack) \in Frame /\ Len(c.stack) <= MaxHeight
<1>1. /\ c \in Context /\ Good(c) /\ Len(c.stack) \in Nat /\ Len(c.stack) > 0
      /\ Len(c.stack) <= MaxHeight /\ MaxHeight \in Nat
  BY FitsShape
<1>2. DOMAIN c.stack = 1 .. Len(c.stack) /\ Len(c.stack) \in DOMAIN c.stack
  BY <1>1, ContextShape
<1>3. Top(c) = c.stack[Len(c.stack)] /\ Top(c) \in Slot  BY <1>1, <1>2, ContextShape DEF Top
<1> QED  BY <1>1, <1>2, <1>3 DEF Frame

\* set_local_from_stack_slot keeps the operand on top where it is, in the frame.
LEMMA SetFromFrameGood ==
  ASSUME NEW c, Fits(c), Choice({}), NEW x \in 1 .. Len(c.stack) - 1,
          Top(c).loc = "stack"
  PROVE  /\ Good(SetFromFrame(c, x)) /\ Len(SetFromFrame(c, x).stack) = Len(c.stack)
         /\ SetFromFrame(c, x).stack[Len(c.stack)].loc = "stack"
<1> DEFINE slot  == c.stack[x]
           freed == IF slot.loc = "reg" THEN SetSlot(DecUsed(c, slot.reg), x, StackSlot) ELSE c
           d     == GetUnused(freed, {}, {})
           f     == Fill(d.c, d.reg, Height(c))
           e     == SetSlot(IncUsed(f, d.reg), x, RegSlot(d.reg))
           n     == Len(c.stack)
<1>0. /\ c \in Context /\ Good(c) /\ n \in Frame /\ n <= MaxHeight /\ n \in Nat
      /\ x \in DOMAIN c.stack /\ n \in DOMAIN c.stack /\ x # n /\ x < n /\ x \in Nat
      /\ c.stack[n].loc = "stack"
  BY LocalBelowTop
<1>1. CASE slot.loc = "reg" /\ c.count[slot.reg] = 1
  <2>1. SetFromFrame(c, x) = Fill(c, slot.reg, n)  BY <1>1 DEF SetFromFrame, Height
  <2>2. slot.reg \in Regs  BY <1>0, <1>1, ContextShape, SlotShape
  <2>3. Same(c, Fill(c, slot.reg, n))  BY <1>0, <2>2, FillSame
  <2>4. Good(Fill(c, slot.reg, n))  BY <1>0, <2>3, SameCache DEF Same
  <2> QED  BY <1>0, <2>1, <2>3, <2>4 DEF Same
<1>2. CASE ~(slot.loc = "reg" /\ c.count[slot.reg] = 1)
  <2>1. SetFromFrame(c, x) = e  BY <1>2 DEF SetFromFrame
  <2>2. /\ Good(freed) /\ Len(freed.stack) = n /\ DOMAIN freed.stack = DOMAIN c.stack
        /\ freed.stack[n] = c.stack[n] /\ freed.stack[x].loc # "reg"
    <3>1. StackSlot \in Slot /\ StackSlot.loc = "stack"  BY SlotsAreSlots DEF StackSlot
    <3>2. n <= c.spills /\ c.spills \in Nat  BY <1>0, ContextShape DEF Good, Covered
    <3>3. x <= c.spills  BY <1>0, <3>2
    <3>4. CASE slot.loc = "reg"
      <4>1. freed = Vacate(c, x, StackSlot)  BY <3>4 DEF Vacate
      <4> HIDE DEF freed
      <4> QED  BY <1>0, <3>1, <3>3, <4>1, VacateGood
    <3>5. CASE slot.loc # "reg"
      <4>1. freed = c  BY <3>5
      <4> QED  BY <1>0, <3>5, <4>1
    <3> QED  BY <3>4, <3>5
  <2> HIDE DEF freed, n
  <2>3. Good(d.c) /\ KeptSlots(freed, d.c) /\ d.reg \in Regs \ Reserved
    BY <1>0, <2>2, GetUnusedGood
  <2> HIDE DEF d
  <2>4. Same(d.c, f)  BY <1>0, <2>3, FillSame DEF Good, Height, n
  <2>5. Good(f) /\ f.stack = d.c.stack /\ f \in Context
    BY <2>3, <2>4, SameCache DEF Same
  <2> HIDE DEF f
  <2>6. StackSlot.loc = "stack"  BY DEF StackSlot
  <2>7. /\ DOMAIN f.stack = DOMAIN c.stack /\ Len(f.stack) = n /\ f.stack[x].loc # "reg"
        /\ f.stack[n].loc = "stack"
    BY <1>0, <2>2, <2>3, <2>5, <2>6 DEF KeptSlots
  <2> DEFINE g == IncUsed(f, d.reg)
  <2>8. g \in Context /\ g.stack = f.stack /\ g.spills = f.spills
    BY <2>3, <2>5, IncUsedShape
  <2>9. RegSlot(d.reg) \in Slot  BY <2>3, SlotsAreSlots
  <2>10. e = SetSlot(g, x, RegSlot(d.reg))  OBVIOUS
  <2> HIDE DEF g, e
  <2>11. /\ e \in Context /\ DOMAIN e.stack = DOMAIN f.stack /\ Len(e.stack) = n
         /\ e.stack[x] = RegSlot(d.reg)
         /\ \A j \in DOMAIN f.stack : j # x => e.stack[j] = f.stack[j]
         /\ e.used = g.used /\ e.count = g.count /\ e.spills = f.spills
    BY <1>0, <2>7, <2>8, <2>9, <2>10, SetSlotShape
  <2>12. Good(e)  BY <1>0, <2>3, <2>5, <2>7, <2>11, OccupyGood DEF g
  <2>13. e.stack[n].loc = "stack"  BY <1>0, <2>7, <2>11
  <2> QED  BY <2>1, <2>11, <2>12, <2>13 DEF n
<1> QED  BY <1>1, <1>2

\* The local gives up its register before it takes the value from the frame.
LEMMA FreedForFrame ==
  ASSUME NEW c, Fits(c), NEW x \in 1 .. Len(c.stack) - 1, Top(c).loc = "stack"
  PROVE  LET slot  == c.stack[x]
             freed == IF slot.loc = "reg" THEN SetSlot(DecUsed(c, slot.reg), x, StackSlot) ELSE c
         IN  Good(freed) /\ Len(freed.stack) = Len(c.stack) /\ freed.ok = c.ok
<1> DEFINE slot  == c.stack[x]
           freed == IF slot.loc = "reg" THEN SetSlot(DecUsed(c, slot.reg), x, StackSlot) ELSE c
           n     == Len(c.stack)
<1>0. /\ c \in Context /\ Good(c) /\ n \in Nat /\ x \in DOMAIN c.stack /\ n \in DOMAIN c.stack
      /\ x < n /\ x \in Nat /\ c.stack[n].loc = "stack"
  BY LocalBelowTop
<1>1. StackSlot \in Slot /\ StackSlot.loc = "stack"  BY SlotsAreSlots DEF StackSlot
<1>2. n <= c.spills /\ c.spills \in Nat  BY <1>0, ContextShape DEF Good, Covered
<1>3. x <= c.spills  BY <1>0, <1>2
<1>4. CASE slot.loc = "reg"
  <2>1. freed = Vacate(c, x, StackSlot)  BY <1>4 DEF Vacate
  <2>2. freed.ok = c.ok  BY <1>0, <1>4, DecUsedShape, SetSlotOk
  <2> HIDE DEF freed
  <2>3. Good(freed) /\ Len(freed.stack) = n  BY <1>0, <1>1, <1>3, <2>1, VacateGood
  <2> QED  BY <2>2, <2>3 DEF freed
<1>5. CASE slot.loc # "reg"
  <2>1. freed = c  BY <1>5
  <2> HIDE DEF freed
  <2>2. Good(freed) /\ Len(freed.stack) = n /\ freed.ok = c.ok  BY <1>0, <2>1
  <2> QED  BY <2>2 DEF freed
<1> QED  BY <1>4, <1>5

LEMMA SetFromFrameOk ==
  ASSUME NEW c, Fits(c), Choice({}), NEW x \in 1 .. Len(c.stack) - 1,
          Top(c).loc = "stack"
  PROVE  SetFromFrame(c, x).ok = c.ok /\ SetFromFrame(c, x) \in Context
<1> DEFINE slot  == c.stack[x]
           freed == IF slot.loc = "reg" THEN SetSlot(DecUsed(c, slot.reg), x, StackSlot) ELSE c
           d     == GetUnused(freed, {}, {})
           f     == Fill(d.c, d.reg, Height(c))
           g     == IncUsed(f, d.reg)
           e     == SetSlot(g, x, RegSlot(d.reg))
           n     == Len(c.stack)
<1>0. /\ c \in Context /\ Good(c) /\ n \in Frame /\ n <= MaxHeight /\ n \in Nat
      /\ x \in DOMAIN c.stack /\ n \in DOMAIN c.stack /\ x # n /\ x < n /\ x \in Nat
      /\ c.stack[n].loc = "stack"
  BY LocalBelowTop
<1>1. SetFromFrame(c, x) \in Context  BY SetFromFrameGood DEF Good
<1>2. CASE slot.loc = "reg" /\ c.count[slot.reg] = 1
  <2>1. SetFromFrame(c, x) = Fill(c, slot.reg, n)  BY <1>2 DEF SetFromFrame, Height
  <2> QED  BY <1>0, <1>1, <2>1, SetRegOk DEF Fill
<1>3. CASE ~(slot.loc = "reg" /\ c.count[slot.reg] = 1)
  <2>1. SetFromFrame(c, x) = e  BY <1>3 DEF SetFromFrame
  <2>2. Good(freed) /\ Len(freed.stack) = n /\ freed.ok = c.ok  BY FreedForFrame DEF n
  <2> HIDE DEF freed, n
  <2>3. Good(d.c) /\ d.reg \in Regs \ Reserved /\ d.c.ok = c.ok
    <3>1. Len(freed.stack) <= MaxHeight  BY <1>0, <2>2
    <3>2. Good(d.c) /\ d.reg \in Regs \ Reserved  BY <2>2, <3>1, GetUnusedGood
    <3>3. {} \in SUBSET (Regs \ Reserved)  OBVIOUS
    <3>4. d.c.ok = freed.ok  BY <2>2, <3>1, <3>3, GetUnusedOk
    <3> QED  BY <2>2, <3>2, <3>4
  <2> HIDE DEF d
  <2>4. f \in Context /\ f.ok = c.ok
    BY <1>0, <2>3, FillSame, SetRegOk DEF Good, Height, n, Same, Fill
  <2> HIDE DEF f
  <2>5. g \in Context /\ g.ok = c.ok  BY <2>3, <2>4, IncUsedShape, IncUsedOk
  <2> HIDE DEF g
  <2>6. e.ok = c.ok  BY <2>5, SetSlotOk
  <2> QED  BY <1>1, <2>1, <2>6
<1> QED  BY <1>2, <1>3

\* local.set and local.tee.
LEMMA SetLocalGood ==
  ASSUME NEW c, Fits(c), Choice({}), NEW x \in 1 .. Len(c.stack) - 1,
         NEW isTee \in BOOLEAN
  PROVE  /\ Good(SetLocalImpl(c, x, isTee))
         /\ Len(SetLocalImpl(c, x, isTee).stack) = Len(c.stack) - (IF isTee THEN 0 ELSE 1)
<1> DEFINE src   == Top(c)
           n     == Len(c.stack)
           zero  == Vacate(c, x, ConstSlot(0))
           moved == Vacate(c, x, src)
<1>0. /\ n = Len(c.stack) /\ c \in Context /\ Good(c) /\ n \in Nat /\ n > 0 /\ n <= MaxHeight
      /\ DOMAIN c.stack = 1 .. n /\ n \in DOMAIN c.stack /\ src = c.stack[n] /\ src \in Slot
      /\ x \in DOMAIN c.stack /\ x \in 1 .. n - 1 /\ x # n
  BY LocalBelowTop
<1>8. c \in Context /\ Good(c) /\ x \in DOMAIN c.stack /\ src \in Slot  BY <1>0
<1>1. src.loc \in {"stack", "reg", "const"}  BY <1>0, SlotShape
<1>9. zero = Vacate(c, x, ConstSlot(0)) /\ moved = Vacate(c, x, src)  OBVIOUS
<1> HIDE DEF n, src, zero, moved
<1>2. CASE src.loc = "stack"
  <2> DEFINE f == SetFromFrame(c, x)
  <2>1. Good(f) /\ Len(f.stack) = n /\ f.stack[n].loc = "stack"
    BY <1>2, SetFromFrameGood DEF n, src
  <2>2. SetLocalImpl(c, x, isTee) = IF isTee THEN f ELSE Pop(f)
    BY <1>2 DEF SetLocalImpl, src
  <2> HIDE DEF f
  <2>3. Top(f).loc # "reg"  BY <2>1 DEF Top
  <2>4. Good(Pop(f)) /\ Len(Pop(f).stack) = n - 1
    BY <1>0, <2>1, <2>3, PopPlainGood, Popped DEF Good
  <2> QED  BY <1>0, <2>1, <2>2, <2>4 DEF n
<1>3. CASE src.loc = "const"
  <2>1. /\ Good(moved) /\ Len(moved.stack) = n /\ DOMAIN moved.stack = DOMAIN c.stack
        /\ moved.stack[n] = c.stack[n]
    <3>1. src.loc # "reg" /\ src.loc # "stack" /\ moved = Vacate(c, x, src)  BY <1>3, <1>9
    <3>2. /\ Good(moved) /\ Len(moved.stack) = Len(c.stack) /\ DOMAIN moved.stack = DOMAIN c.stack
          /\ \A j \in DOMAIN c.stack : j # x => moved.stack[j] = c.stack[j]
      BY <1>8, <3>1, VacateGood
    <3> QED  BY <1>0, <3>2
  <2>2. SetLocalImpl(c, x, isTee) = IF isTee THEN moved ELSE Pop(moved)
    BY <1>9, <1>3 DEF SetLocalImpl, Vacate, src
  <2>3. Top(moved).loc # "reg"  BY <1>0, <1>3, <2>1 DEF Top
  <2>4. Good(Pop(moved)) /\ Len(Pop(moved).stack) = n - 1
    BY <1>0, <2>1, <2>3, PopPlainGood, Popped DEF Good
  <2> QED  BY <1>0, <2>1, <2>2, <2>4 DEF n
<1>4. CASE src.loc = "reg"
  <2> DEFINE r == src.reg
             f == IF c.stack[x].loc = "reg" THEN DecUsed(c, c.stack[x].reg) ELSE c
  <2>1. r \in Regs \ Reserved /\ src = RegSlot(r)
    BY <1>0, <1>4, SlotShape DEF Good, Homes
  <2>2. /\ ConstSlot(0) \in Slot /\ ConstSlot(0).loc = "const" /\ ConstSlot(0).loc # "reg"
        /\ ConstSlot(0).loc # "stack"
    BY RegsAssumption, SlotsAreSlots DEF ConstSlot
  <2>3. /\ Good(zero) /\ Len(zero.stack) = Len(c.stack) /\ DOMAIN zero.stack = DOMAIN c.stack
        /\ zero.stack[x] = ConstSlot(0)
        /\ \A j \in DOMAIN c.stack : j # x => zero.stack[j] = c.stack[j]
        /\ zero.spills = c.spills
    BY <1>8, <1>9, <2>2, VacateGood
  <2>4. f \in Context /\ f.stack = c.stack /\ f.spills = c.spills  BY <1>0, DecUsedShape
  <2>5. moved = SetSlot(f, x, src) /\ zero = SetSlot(f, x, ConstSlot(0))  BY <1>9 DEF Vacate
  <2> HIDE DEF f
  <2>6. zero.used = f.used /\ zero.count = f.count  BY <1>8, <2>2, <2>4, <2>5, SetSlotShape
  <2>7. /\ moved \in Context /\ DOMAIN moved.stack = DOMAIN c.stack
        /\ Len(moved.stack) = Len(c.stack)
        /\ moved.stack[x] = src
        /\ \A j \in DOMAIN c.stack : j # x => moved.stack[j] = c.stack[j]
        /\ moved.used = f.used /\ moved.count = f.count /\ moved.spills = c.spills
    BY <1>8, <2>4, <2>5, SetSlotShape
  <2>8. CASE isTee
    <3> DEFINE d == IncUsed(moved, r)
    <3>1. SetLocalImpl(c, x, isTee) = d
      BY <1>4, <2>5, <2>8 DEF SetLocalImpl, src, f
    <3>2. /\ d \in Context /\ d.stack = moved.stack /\ d.spills = moved.spills
          /\ d.count = IncUsed(zero, r).count /\ d.used = IncUsed(zero, r).used
      <4>1. moved \in Context /\ zero \in Context /\ r \in Regs /\ moved.used = zero.used
            /\ moved.count = zero.count
        BY <2>1, <2>3, <2>6, <2>7 DEF Good
      <4> HIDE DEF r
      <4>2. /\ d \in Context /\ d.stack = moved.stack /\ d.spills = moved.spills
            /\ d.count = [moved.count EXCEPT ![r] = @ + 1] /\ d.used = moved.used \cup {r}
        BY <4>1, IncUsedShape
      <4>3. /\ IncUsed(zero, r).count = [zero.count EXCEPT ![r] = @ + 1]
            /\ IncUsed(zero, r).used = zero.used \cup {r}
        BY <4>1, IncUsedShape
      <4> HIDE DEF d
      <4> QED  BY <4>1, <4>2, <4>3
    <3> HIDE DEF d
    <3>3. Good(d)
      <4>1. d.stack[x] = RegSlot(r) /\ x \in DOMAIN zero.stack /\ zero.stack[x].loc # "reg"
        BY <1>0, <2>1, <2>2, <2>3, <2>7, <3>2
      <4>2. DOMAIN d.stack = DOMAIN zero.stack /\ d.spills = zero.spills
        BY <2>3, <2>7, <3>2
      <4>3. \A j \in DOMAIN zero.stack : j # x => d.stack[j] = zero.stack[j]
        BY <2>3, <2>7, <3>2
      <4> QED  BY <2>1, <2>3, <3>2, <4>1, <4>2, <4>3, OccupyGood
    <3>4. d.stack = moved.stack /\ Len(d.stack) = Len(c.stack)  BY <2>7, <3>2
    <3>5. Len(c.stack) - (IF isTee THEN 0 ELSE 1) = Len(c.stack)  BY <1>0, <2>8
    <3> QED  BY <3>1, <3>3, <3>4, <3>5
  <2>9. CASE ~isTee
    <3> DEFINE d == Pop(moved)
    <3>1. SetLocalImpl(c, x, isTee) = d
      BY <1>4, <2>5, <2>9 DEF SetLocalImpl, src, f
    <3>2. /\ d \in Context /\ Len(d.stack) = n - 1 /\ DOMAIN d.stack = 1 .. n - 1
          /\ \A j \in 1 .. n - 1 : d.stack[j] = moved.stack[j]
          /\ d.used = zero.used /\ d.count = zero.count /\ d.spills = zero.spills
      BY <1>0, <2>3, <2>6, <2>7, Popped
    <3> HIDE DEF d
    <3>3. Top(zero) = src  BY <1>0, <2>3 DEF Top
    <3>4. d.stack[x] = Top(zero)  BY <1>0, <2>7, <3>2, <3>3
    <3>5. ASSUME NEW j \in 1 .. n - 1, j # x PROVE d.stack[j] = zero.stack[j]
      <4>1. j \in DOMAIN c.stack  BY <1>0
      <4>2. moved.stack[j] = c.stack[j] /\ zero.stack[j] = c.stack[j]  BY <2>3, <2>7, <3>5, <4>1
      <4> QED  BY <3>2, <4>2
    <3>6. Len(zero.stack) = n /\ n > 0 /\ x \in 1 .. n - 1  BY <1>0, <2>3
    <3>7. zero.stack[x].loc # "reg" /\ Top(zero).loc = "reg"  BY <1>4, <2>2, <2>3, <3>3
    <3>8. Good(d)
      BY <2>3, <3>2, <3>4, <3>5, <3>6, <3>7, HandDownGood
    <3> QED  BY <1>0, <2>9, <3>1, <3>2, <3>8 DEF n
  <2> QED  BY <2>8, <2>9
<1> QED  BY <1>1, <1>2, <1>3, <1>4

LEMMA SetLocalOk ==
  ASSUME NEW c, Fits(c), Choice({}), NEW x \in 1 .. Len(c.stack) - 1,
         NEW isTee \in BOOLEAN
  PROVE  SetLocalImpl(c, x, isTee).ok = c.ok
<1> DEFINE src   == Top(c)
           n     == Len(c.stack)
           freed == IF c.stack[x].loc = "reg" THEN DecUsed(c, c.stack[x].reg) ELSE c
           moved == SetSlot(freed, x, src)
           set   == IF src.loc = "stack" THEN SetFromFrame(c, x)
                    ELSE IF src.loc = "reg" /\ isTee THEN IncUsed(moved, src.reg)
                    ELSE moved
<1>0. /\ n = Len(c.stack) /\ c \in Context /\ Good(c) /\ n \in Nat /\ n > 0 /\ n <= MaxHeight
      /\ DOMAIN c.stack = 1 .. n /\ n \in DOMAIN c.stack /\ src = c.stack[n] /\ src \in Slot
      /\ x \in DOMAIN c.stack
  BY LocalBelowTop
<1>1. SetLocalImpl(c, x, isTee) = IF isTee THEN set ELSE Pop(set)
  BY DEF SetLocalImpl
<1>2. freed \in Context /\ freed.stack = c.stack /\ freed.ok = c.ok  BY <1>0, FreedOk
<1> HIDE DEF freed
<1>3. moved \in Context /\ moved.ok = c.ok /\ Len(moved.stack) = n
  <2>1. src \in Slot /\ x \in DOMAIN freed.stack  BY <1>0, <1>2
  <2> HIDE DEF src
  <2>2. moved \in Context /\ Len(moved.stack) = Len(freed.stack)
    BY <1>2, <2>1, SetSlotShape
  <2>3. moved.ok = freed.ok  BY <1>2, SetSlotOk
  <2> HIDE DEF moved
  <2> QED  BY <1>0, <1>2, <2>2, <2>3
<1> HIDE DEF moved
<1>4. set \in Context /\ set.ok = c.ok /\ Len(set.stack) = n
  <2>1. CASE src.loc = "stack"
    BY <2>1, SetFromFrameOk, SetFromFrameGood
  <2>2. CASE src.loc = "reg" /\ isTee
    <3>1. src.reg \in Regs  BY <1>0, <2>2, SlotShape
    <3>2. IncUsed(moved, src.reg) \in Context /\ IncUsed(moved, src.reg).stack = moved.stack
          /\ IncUsed(moved, src.reg).ok = moved.ok
      BY <1>3, <3>1, IncUsedShape, IncUsedOk
    <3>3. set = IncUsed(moved, src.reg)  BY <2>2
    <3> QED  BY <1>3, <3>2, <3>3
  <2>3. CASE src.loc # "stack" /\ ~(src.loc = "reg" /\ isTee)
    <3>1. set = moved  BY <2>3
    <3> QED  BY <1>3, <3>1
  <2> QED  BY <2>1, <2>2, <2>3
<1> HIDE DEF set
<1> QED  BY <1>0, <1>1, <1>4, Popped

\* spill_locals leaves every register the operands it still holds.
LEMMA SpillLocalsGood ==
  ASSUME NEW c, Fits(c), NEW n \in 0 .. Len(c.stack)
  PROVE  Good(SpillLocals(c, n)) /\ Len(SpillLocals(c, n).stack) = Len(c.stack)
<1> DEFINE locals  == 1 .. n
           held(r) == Cardinality(Holders(c, r) \cap locals)
           I == {i \in locals : c.stack[i].loc # "stack"}
           stored == StoreSlots(c, I)
           m == [r \in Regs |-> IF held(r) <= c.count[r] THEN c.count[r] - held(r) ELSE 0]
           u == {r \in c.used : held(r) = 0 \/ c.count[r] > held(r)}
           o == c.ok /\ \A r \in Regs : held(r) > 0 => r \in c.used /\ c.count[r] >= held(r)
           d == [stored EXCEPT !.count = m, !.used = u, !.ok = o]
<1>0. /\ c \in Context /\ Good(c) /\ Exact(c) /\ Homes(c) /\ Covered(c)
      /\ Len(c.stack) \in Nat /\ Len(c.stack) <= MaxHeight /\ n \in Nat
  BY FitsShape DEF Good
<1>1. SpillLocals(c, n) = d  BY DEF SpillLocals
<1>2. locals \subseteq DOMAIN c.stack  BY <1>0, ContextShape
<1>3. I \subseteq DOMAIN c.stack  BY <1>2
<1>4. \A q : Holders(c, q) \ I = Holders(c, q) \ locals  BY DEF Holders
<1>5. ASSUME NEW q \in Regs
      PROVE  /\ held(q) \in Nat /\ c.count[q] \in Nat /\ held(q) <= c.count[q]
             /\ Cardinality(Holders(c, q) \ locals) = c.count[q] - held(q)
  <2> DEFINE H == Holders(c, q)
             k == held(q)
  <2>1. IsFiniteSet(H) /\ Cardinality(H) \in Nat /\ c.count[q] = Cardinality(H)
    BY <1>0, HoldersFinite DEF Exact
  <2>2. k = Cardinality(H \cap locals)  OBVIOUS
  <2> HIDE DEF H, k, locals
  <2>3. IsFiniteSet(H \cap locals) /\ Cardinality(H \cap locals) <= Cardinality(H)
    BY <2>1, FS_Intersection
  <2>4. Cardinality(H \cap locals) \in Nat  BY <2>3, FS_CardinalityType
  <2>5. Cardinality(H \ locals) = Cardinality(H) - Cardinality(H \cap locals)
    BY <2>1, FS_Difference
  <2>6. k \in Nat /\ k <= c.count[q] /\ Cardinality(H \ locals) = c.count[q] - k
    BY <2>1, <2>2, <2>3, <2>4, <2>5
  <2> QED  BY <2>1, <2>6 DEF H, k
<1>6. /\ stored \in Context /\ Len(stored.stack) = Len(c.stack)
      /\ Homes(stored) /\ Covered(stored) /\ \A q : Holders(stored, q) = Holders(c, q) \ I
  BY <1>0, <1>3, StoredSlots, StoredHolders DEF KeptSlots
<1> HIDE DEF I, stored, held
<1>7. m \in [Regs -> Nat] /\ \A q \in Regs : m[q] = c.count[q] - held(q)
  <2>1. ASSUME NEW q \in Regs
        PROVE  held(q) \in Nat /\ c.count[q] \in Nat /\ held(q) <= c.count[q]
               /\ c.count[q] - held(q) \in Nat
    <3>1. held(q) \in Nat /\ c.count[q] \in Nat /\ held(q) <= c.count[q]  BY <1>5
    <3> QED  BY <3>1
  <2> QED  BY <2>1
<1>8. u \subseteq Regs  BY <1>0, ContextShape
<1>9. o \in BOOLEAN  BY <1>0, ContextShape
<1>10. ASSUME NEW q \in Regs PROVE q \in u <=> (q \in Reserved \/ m[q] > 0)
  <2>1. q \in c.used <=> (q \in Reserved \/ c.count[q] > 0)  BY <1>0 DEF Exact
  <2>2. q \in Reserved => held(q) = 0
    <3> SUFFICES ASSUME q \in Reserved PROVE held(q) = 0  OBVIOUS
    <3>1. Holders(c, q) = {}  BY <1>0 DEF Homes, Holders
    <3>2. Holders(c, q) \cap locals = {}  BY <3>1
    <3> HIDE DEF locals
    <3> QED  BY <3>2, FS_EmptySet DEF held
  <2>3. m[q] = c.count[q] - held(q)  BY <1>7
  <2> HIDE DEF m
  <2>4. q \in u <=> q \in c.used /\ (held(q) = 0 \/ c.count[q] > held(q))  OBVIOUS
  <2>5. held(q) \in Nat /\ c.count[q] \in Nat /\ held(q) <= c.count[q]  BY <1>5
  <2> HIDE DEF u
  <2> QED  BY <2>1, <2>2, <2>3, <2>4, <2>5
<1> HIDE DEF m, u, o
<1>11. /\ d \in Context /\ d.stack = stored.stack /\ d.spills = stored.spills
       /\ d.count = m /\ d.used = u
  BY <1>6, <1>7, <1>8, <1>9 DEF Context
<1> HIDE DEF d
<1>12. \A q : Holders(d, q) = Holders(c, q) \ locals
  <2>1. \A q : Holders(d, q) = Holders(stored, q)  BY <1>11 DEF Holders
  <2> QED  BY <1>4, <1>6, <2>1
<1>13. Exact(d)  BY <1>5, <1>7, <1>10, <1>11, <1>12 DEF Exact
<1>14. Homes(d) /\ Covered(d)  BY <1>6, <1>11 DEF Homes, Covered
<1> QED  BY <1>0, <1>1, <1>6, <1>11, <1>13, <1>14 DEF Good

\* spill_locals frees no register more often than its locals hold it.
LEMMA SpillLocalsOk ==
  ASSUME NEW c, Fits(c), NEW n \in 0 .. Len(c.stack)
  PROVE  SpillLocals(c, n).ok = c.ok
<1> DEFINE locals  == 1 .. n
           held(r) == Cardinality(Holders(c, r) \cap locals)
           I == {i \in locals : c.stack[i].loc # "stack"}
           stored == StoreSlots(c, I)
           m == [r \in Regs |-> IF held(r) <= c.count[r] THEN c.count[r] - held(r) ELSE 0]
           u == {r \in c.used : held(r) = 0 \/ c.count[r] > held(r)}
           P == \A r \in Regs : held(r) > 0 => r \in c.used /\ c.count[r] >= held(r)
           o == c.ok /\ P
<1>0. /\ c \in Context /\ Good(c) /\ Exact(c) /\ c.ok \in BOOLEAN
      /\ Len(c.stack) \in Nat /\ Len(c.stack) <= MaxHeight /\ n \in Nat
  BY FitsShape DEF Good
<1>1. SpillLocals(c, n) = [stored EXCEPT !.count = m, !.used = u, !.ok = o]
  BY DEF SpillLocals
<1>2. P
  <2> SUFFICES ASSUME NEW q \in Regs, held(q) > 0
               PROVE  q \in c.used /\ c.count[q] >= held(q)
    OBVIOUS
  <2> DEFINE H == Holders(c, q)
             k == held(q)
  <2>1. IsFiniteSet(H) /\ Cardinality(H) \in Nat /\ c.count[q] = Cardinality(H)
    BY <1>0, HoldersFinite DEF Exact
  <2>2. q \in c.used <=> (q \in Reserved \/ c.count[q] > 0)  BY <1>0 DEF Exact
  <2>3. k = Cardinality(H \cap locals) /\ k > 0  OBVIOUS
  <2> HIDE DEF H, k, locals
  <2>4. IsFiniteSet(H \cap locals) /\ Cardinality(H \cap locals) <= Cardinality(H)
    BY <2>1, FS_Intersection
  <2>5. k \in Nat  BY <2>3, <2>4, FS_CardinalityType
  <2>6. q \in c.used /\ c.count[q] >= k  BY <2>1, <2>2, <2>3, <2>4, <2>5
  <2> QED  BY <2>6 DEF k
<1>3. stored \in Context
  <2>1. I \subseteq DOMAIN c.stack  BY <1>0, ContextShape
  <2> HIDE DEF I
  <2> QED  BY <1>0, <2>1, StoredSlots
<1>4. o = c.ok  BY <1>0, <1>2
<1> HIDE DEF stored, m, u, o
<1>5. [stored EXCEPT !.count = m, !.used = u, !.ok = o].ok = o  BY <1>3 DEF Context
<1> QED  BY <1>1, <1>4, <1>5

-----------------------------------------------------------------------------
(* Between two handlers, and before the first. *)

\* What a handler leaves: the contents that nobody may read are forgotten.
Settled(c) == [c EXCEPT !.regs = LiveRegs(c), !.mem = LiveMem(c)]

LEMMA SettledSame ==
  ASSUME NEW c \in Context
  PROVE  /\ Same(c, Settled(c)) /\ Settled(c).ok = c.ok /\ Settled(c).last = c.last
         /\ Settled(c).regs = LiveRegs(c) /\ Settled(c).mem = LiveMem(c)
         /\ Settled(c) = [stack |-> c.stack, used |-> c.used, count |-> c.count,
                          last |-> c.last, spills |-> c.spills, ok |-> c.ok,
                          regs |-> LiveRegs(c), mem |-> LiveMem(c)]
<1> DEFINE g == LiveRegs(c)
           w == LiveMem(c)
<1>1. g \in [Regs -> Values \cup {Junk}] /\ w \in [Frame -> Values \cup {Junk}]
  BY ContextShape DEF LiveRegs, LiveMem
<1>2. Settled(c) = [c EXCEPT !.regs = g, !.mem = w]  BY DEF Settled
<1> HIDE DEF g, w
<1>3. [c EXCEPT !.regs = g, !.mem = w] \in Context  BY <1>1 DEF Context
<1>4. /\ [c EXCEPT !.regs = g, !.mem = w].stack = c.stack
      /\ [c EXCEPT !.regs = g, !.mem = w].used = c.used
      /\ [c EXCEPT !.regs = g, !.mem = w].count = c.count
      /\ [c EXCEPT !.regs = g, !.mem = w].spills = c.spills
      /\ [c EXCEPT !.regs = g, !.mem = w].ok = c.ok
      /\ [c EXCEPT !.regs = g, !.mem = w].last = c.last
      /\ [c EXCEPT !.regs = g, !.mem = w].regs = g
      /\ [c EXCEPT !.regs = g, !.mem = w].mem = w
  BY DEF Context
<1>5. [c EXCEPT !.regs = g, !.mem = w] =
        [stack |-> c.stack, used |-> c.used, count |-> c.count, last |-> c.last,
         spills |-> c.spills, ok |-> c.ok, regs |-> g, mem |-> w]
  <2>1. \A d \in Context : d = [stack |-> d.stack, used |-> d.used, count |-> d.count,
                                last |-> d.last, spills |-> d.spills, ok |-> d.ok,
                                regs |-> d.regs, mem |-> d.mem]
    BY DEF Context
  <2> QED  BY <1>3, <1>4, <2>1
<1> QED  BY <1>2, <1>3, <1>4, <1>5 DEF Same, g, w

\* process_parameters and the locals set to zero: k parameters, n locals.
EntryStack(n, k, params) ==
  [i \in 1 .. n |-> IF i <= k THEN RegSlot(params[i]) ELSE ConstSlot(0)]

EntryCache(n, k, params, v) ==
  [stack |-> EntryStack(n, k, params),
   used  |-> Reserved \cup {params[i] : i \in 1 .. k},
   count |-> [r \in Regs |-> Cardinality({i \in 1 .. k : params[i] = r})],
   last  |-> {}, spills |-> 0, ok |-> TRUE,
   regs  |-> [r \in Regs |-> IF \E i \in 1 .. k : params[i] = r
                             THEN v[CHOOSE i \in 1 .. k : params[i] = r] ELSE Junk],
   mem   |-> [i \in Frame |-> Junk]]

LEMMA EntryStackShape ==
  ASSUME NEW n \in Nat, NEW k \in 0 .. n, NEW params \in Seq(Regs \ Reserved), k <= Len(params)
  PROVE  /\ EntryStack(n, k, params) \in Seq(Slot) /\ Len(EntryStack(n, k, params)) = n
         /\ \A i \in 1 .. k : params[i] \in Regs \ Reserved
         /\ \A i \in 1 .. n :
              /\ EntryStack(n, k, params)[i].loc # "stack"
              /\ EntryStack(n, k, params)[i].loc = "reg" <=> i \in 1 .. k
              /\ i \in 1 .. k => EntryStack(n, k, params)[i].reg = params[i]
              /\ i \notin 1 .. k => EntryStack(n, k, params)[i].reg = NoReg
<1>1. \A i \in 1 .. k : params[i] \in Regs \ Reserved  BY ElementOfSeq
<1>2. \A i \in 1 .. n : EntryStack(n, k, params)[i] =
                          IF i \in 1 .. k THEN RegSlot(params[i]) ELSE ConstSlot(0)
  BY DEF EntryStack
<1>3. \A i \in 1 .. n : EntryStack(n, k, params)[i] \in Slot
  BY <1>1, <1>2, SlotsAreSlots, RegsAssumption
<1>4. EntryStack(n, k, params) \in [1 .. n -> Slot]  BY <1>3 DEF EntryStack
<1>5. EntryStack(n, k, params) \in Seq(Slot) /\ Len(EntryStack(n, k, params)) = n
  BY <1>4, SeqDef, LenProperties
<1> QED  BY <1>1, <1>2, <1>5 DEF RegSlot, ConstSlot

LEMMA EntryGood ==
  ASSUME NEW n \in Nat, NEW k \in 0 .. n, NEW params \in Seq(Regs \ Reserved), k <= Len(params),
         NEW v \in [1 .. k -> Values]
  PROVE  /\ Good(EntryCache(n, k, params, v)) /\ Len(EntryCache(n, k, params, v).stack) = n
         /\ EntryCache(n, k, params, v).ok
<1> DEFINE P == 1 .. k
           c == EntryCache(n, k, params, v)
           st == EntryStack(n, k, params)
           g == [r \in Regs |-> IF \E i \in P : params[i] = r
                                THEN v[CHOOSE i \in P : params[i] = r] ELSE Junk]
           m == [r \in Regs |-> Cardinality({i \in P : params[i] = r})]
<1>1. /\ st \in Seq(Slot) /\ Len(st) = n /\ DOMAIN st = 1 .. n
      /\ \A i \in P : params[i] \in Regs \ Reserved
      /\ \A i \in 1 .. n : /\ st[i].loc # "stack"
                           /\ st[i].loc = "reg" <=> i \in P
                           /\ i \in P => st[i].reg = params[i]
                           /\ i \notin P => st[i].reg = NoReg
  BY EntryStackShape
<1>2. \A q : IsFiniteSet({i \in P : params[i] = q})
  <2>1. IsFiniteSet(P)  BY FS_Interval
  <2> TAKE q
  <2>2. {i \in P : params[i] = q} \subseteq P  OBVIOUS
  <2> HIDE DEF P
  <2> QED  BY <2>1, <2>2, FS_Subset
<1>3. m \in [Regs -> Nat]  BY <1>2, FS_CardinalityType
<1>4. g \in [Regs -> Values \cup {Junk}]
  <2>1. ASSUME NEW r \in Regs, \E i \in P : params[i] = r
        PROVE  v[CHOOSE i \in P : params[i] = r] \in Values
    <3>1. (CHOOSE i \in P : params[i] = r) \in P  BY <2>1
    <3> QED  BY <3>1
  <2> HIDE DEF P
  <2> QED  BY <2>1
<1>5. [i \in Frame |-> Junk] \in [Frame -> Values \cup {Junk}]  OBVIOUS
<1>6. Reserved \cup {params[i] : i \in P} \subseteq Regs  BY <1>1, RegsAssumption
<1>7. c \in Context /\ c.stack = st /\ c.count = m /\ c.ok
      /\ c.used = Reserved \cup {params[i] : i \in P}
  <2>1. c = [stack |-> st, used |-> Reserved \cup {params[i] : i \in P}, count |-> m,
             last |-> {}, spills |-> 0, ok |-> TRUE, regs |-> g, mem |-> [i \in Frame |-> Junk]]
    BY DEF EntryCache
  <2> HIDE DEF c, st, m, g, P
  <2> QED  BY <1>1, <1>3, <1>4, <1>5, <1>6, <2>1 DEF Context
<1> HIDE DEF c, st, g
<1>8. \A q : Holders(c, q) = {i \in P : params[i] = q}  BY <1>1, <1>7 DEF Holders
<1>9. Exact(c)
  <2> SUFFICES ASSUME NEW q \in Regs
               PROVE  /\ c.count[q] = Cardinality(Holders(c, q))
                      /\ q \in c.used <=> (q \in Reserved \/ c.count[q] > 0)
    BY DEF Exact
  <2>1. c.count[q] = Cardinality({i \in P : params[i] = q}) /\ c.count[q] \in Nat
    BY <1>3, <1>7
  <2>2. c.count[q] = 0 <=> {i \in P : params[i] = q} = {}  BY <1>2, <2>1, FS_EmptySet
  <2>3. c.count[q] > 0 <=> \E i \in P : params[i] = q  BY <2>1, <2>2
  <2> QED  BY <1>7, <1>8, <2>1, <2>3
<1>10. Homes(c) /\ Covered(c)
  <2>1. NoReg \notin Reserved  BY RegsAssumption DEF NoReg
  <2>2. \A i \in 1 .. n : st[i].reg \notin Reserved  BY <1>1, <2>1
  <2>3. DOMAIN c.stack = 1 .. n /\ c.stack = st  BY <1>1, <1>7
  <2> QED  BY <1>1, <2>2, <2>3 DEF Homes, Covered
<1>11. Good(c) /\ Len(c.stack) = n /\ c.ok  BY <1>1, <1>7, <1>9, <1>10 DEF Good
<1> QED  BY <1>11 DEF c

-----------------------------------------------------------------------------
(* What the parts of a handler leave of the machine. *)

LEMMA AssertMem ==
  ASSUME NEW c \in Context, NEW P
  PROVE  /\ Assert(c, P).stack = c.stack /\ Assert(c, P).mem = c.mem
         /\ Assert(c, P).spills = c.spills /\ Assert(c, P).regs = c.regs
BY DEF Assert, Context

LEMMA MarkSpilledMem ==
  ASSUME NEW c \in Context, NEW pinned
  PROVE  /\ MarkSpilled(c, pinned).stack = c.stack /\ MarkSpilled(c, pinned).mem = c.mem
         /\ MarkSpilled(c, pinned).spills = c.spills /\ MarkSpilled(c, pinned).regs = c.regs
         /\ MarkSpilled(c, pinned).used = c.used /\ MarkSpilled(c, pinned).count = c.count
BY DEF MarkSpilled, Context

LEMMA SetRegMem ==
  ASSUME NEW c \in Context, NEW r, NEW v
  PROVE  /\ SetReg(c, r, v).stack = c.stack /\ SetReg(c, r, v).mem = c.mem
         /\ SetReg(c, r, v).spills = c.spills /\ SetReg(c, r, v).used = c.used
         /\ \A q \in Regs : SetReg(c, r, v).regs[q] = IF q = r THEN v ELSE c.regs[q]
<1>1. SetReg(c, r, v).regs = [c.regs EXCEPT ![r] = v]  BY DEF SetReg, Context
<1>2. \A q \in Regs : [c.regs EXCEPT ![r] = v][q] = IF q = r THEN v ELSE c.regs[q]
  BY DEF Context
<1>3. \A q \in Regs : SetReg(c, r, v).regs[q] = IF q = r THEN v ELSE c.regs[q]
  BY <1>1, <1>2
<1> QED  BY <1>3 DEF SetReg, Context

LEMMA DecUsedMem ==
  ASSUME NEW c \in Context, NEW r
  PROVE  /\ DecUsed(c, r).stack = c.stack /\ DecUsed(c, r).mem = c.mem
         /\ DecUsed(c, r).spills = c.spills /\ DecUsed(c, r).regs = c.regs
BY DEF DecUsed, Assert, Context

LEMMA IncUsedMem ==
  ASSUME NEW c \in Context, NEW r
  PROVE  IncUsed(c, r).mem = c.mem /\ IncUsed(c, r).regs = c.regs
BY DEF IncUsed, Context

LEMMA PushMem ==
  ASSUME NEW c \in Context, NEW s
  PROVE  Push(c, s).mem = c.mem /\ Push(c, s).regs = c.regs
BY DEF Push, Context

LEMMA SetSlotMem ==
  ASSUME NEW c \in Context, NEW i, NEW s
  PROVE  SetSlot(c, i, s).mem = c.mem /\ SetSlot(c, i, s).regs = c.regs
BY DEF SetSlot, Context

LEMMA ClearUsedMem ==
  ASSUME NEW c \in Context, NEW r
  PROVE  /\ ClearUsed(c, r).stack = c.stack /\ ClearUsed(c, r).mem = c.mem
         /\ ClearUsed(c, r).regs = c.regs /\ ClearUsed(c, r).used = c.used \ {r}
BY DEF ClearUsed, Context

LEMMA StoredRegs ==
  ASSUME NEW c \in Context, NEW I
  PROVE  StoreSlots(c, I).regs = c.regs
BY DEF StoreSlots, Context

-----------------------------------------------------------------------------
(* Values: what every slot holds when the code emitted so far has run. *)

\* The slots I hold what they held.
Intact(c, d, I) == \A i \in I : ValueAt(d, i) = ValueAt(c, i)

\* No slot of I lives in a register of S.
Clear(c, S, I) == \A i \in I : c.stack[i].loc = "reg" => c.stack[i].reg \notin S

LEMMA IntactTransitive ==
  ASSUME NEW c, NEW d, NEW e, NEW I, Intact(c, d, I), Intact(d, e, I)
  PROVE  Intact(c, e, I)
BY DEF Intact

LEMMA IntactFewer ==
  ASSUME NEW c, NEW d, NEW I, Intact(c, d, I), NEW J \in SUBSET I
  PROVE  Intact(c, d, J)
BY DEF Intact

\* Slots that stay where they are hold what they held, if nobody writes there.
LEMMA IntactWhere ==
  ASSUME NEW c, NEW d, NEW I,
         \A i \in I : /\ d.stack[i] = c.stack[i]
                      /\ c.stack[i].loc = "reg" => d.regs[c.stack[i].reg] = c.regs[c.stack[i].reg]
                      /\ c.stack[i].loc = "stack" => d.mem[i] = c.mem[i]
                      /\ c.stack[i].loc \in {"stack", "reg", "const"}
  PROVE  Intact(c, d, I)
<1> SUFFICES ASSUME NEW i \in I PROVE ValueAt(d, i) = ValueAt(c, i)
  BY DEF Intact
<1> DEFINE s == c.stack[i]
<1>1. /\ d.stack[i] = s /\ c.stack[i] = s
      /\ s.loc = "reg" => d.regs[s.reg] = c.regs[s.reg]
      /\ s.loc = "stack" => d.mem[i] = c.mem[i]
      /\ s.loc \in {"stack", "reg", "const"}
  OBVIOUS
<1> HIDE DEF s
<1> QED  BY <1>1 DEF ValueAt

\* A register that is not used holds no slot.
LEMMA UnusedClear ==
  ASSUME NEW c, Good(c), NEW S \in SUBSET Regs, S \cap c.used \subseteq Reserved
  PROVE  Clear(c, S, DOMAIN c.stack)
<1> SUFFICES ASSUME NEW i \in DOMAIN c.stack, c.stack[i].loc = "reg", c.stack[i].reg \in S
             PROVE  FALSE
  BY DEF Clear
<1> DEFINE r == c.stack[i].reg
<1>1. r \in Regs /\ r \notin Reserved /\ c \in Context  BY DEF Good, Homes
<1>2. r \notin c.used  BY <1>1
<1>3. c.count[r] = 0
  <2>1. c.count[r] \in Nat /\ ~(c.count[r] > 0)  BY <1>1, <1>2, ContextShape DEF Good, Exact
  <2> QED  BY <2>1
<1>4. Cardinality(Holders(c, r)) = 0  BY <1>1, <1>3 DEF Good, Exact
<1>5. Holders(c, r) = {}  BY <1>1, <1>4, HoldersFinite, FS_EmptySet
<1>6. i \in Holders(c, r)  BY DEF Holders
<1> QED  BY <1>5, <1>6

\* Writing a register harms the slots that live there only.
LEMMA SetRegIntact ==
  ASSUME NEW c \in Context, NEW r \in Regs, NEW v, NEW I \in SUBSET (DOMAIN c.stack),
         Clear(c, {r}, I)
  PROVE  Intact(c, SetReg(c, r, v), I)
<1>1. /\ SetReg(c, r, v).stack = c.stack /\ SetReg(c, r, v).mem = c.mem
      /\ \A q \in Regs : SetReg(c, r, v).regs[q] = IF q = r THEN v ELSE c.regs[q]
  BY SetRegMem
<1>2. \A i \in I : /\ c.stack[i].loc = "reg" => c.stack[i].reg \in Regs /\ c.stack[i].reg # r
                  /\ c.stack[i].loc \in {"stack", "reg", "const"}
  <2> TAKE i \in I
  <2>1. c.stack[i] \in Slot  BY ContextShape
  <2> QED  BY <2>1, SlotShape DEF Clear
<1> QED  BY <1>1, <1>2, IntactWhere

\* A spill stores what the register held, and frees it.
LEMMA SpillIntact ==
  ASSUME NEW c, Fits(c), NEW r \in Regs \ Reserved
  PROVE  /\ Intact(c, SpillRegister(c, r), DOMAIN c.stack)
         /\ SpillRegister(c, r).regs = c.regs /\ SpillRegister(c, r).used = c.used \ {r}
         /\ \A i \in Frame : i \notin DOMAIN c.stack => SpillRegister(c, r).mem[i] = c.mem[i]
<1> DEFINE d == SpillRegister(c, r)
           H == Holders(c, r)
<1>0. /\ Good(c) /\ c \in Context /\ DOMAIN c.stack = 1 .. Len(c.stack) /\ Len(c.stack) \in Nat
      /\ Len(c.stack) <= MaxHeight /\ MaxHeight \in Nat
  BY FitsShape
<1>1. /\ \A i \in DOMAIN c.stack : d.stack[i] = IF i \in H THEN StackSlot ELSE c.stack[i]
      /\ \A i \in Frame : d.mem[i] = IF i \in H THEN c.regs[r] ELSE c.mem[i]
  BY <1>0, SpillRegisterShape
<1>2. d.regs = c.regs /\ d.used = c.used \ {r}
  <2>1. CASE c.count[r] = 0
    <3>1. r \notin c.used  BY <1>0, <2>1, ContextShape DEF Good, Exact
    <3> QED  BY <2>1, <3>1 DEF SpillRegister
  <2>2. CASE c.count[r] # 0
    <3> DEFINE e == StoreSlots(c, TopHolders(c, r))
    <3>1. TopHolders(c, r) \subseteq DOMAIN c.stack  BY DEF TopHolders, Holders
    <3>2. e \in Context /\ e.regs = c.regs /\ e.used = c.used
      BY <1>0, <3>1, StoredSlots, StoredRegs
    <3>3. d = ClearUsed(e, r)  BY <2>2 DEF SpillRegister
    <3> HIDE DEF e, d
    <3> QED  BY <3>2, <3>3, ClearUsedMem
  <2> QED  BY <2>1, <2>2
<1>3. ASSUME NEW i \in DOMAIN c.stack
      PROVE  ValueAt(d, i) = ValueAt(c, i)
  <2>1. i \in Frame  BY <1>0 DEF Frame
  <2>2. StackSlot.loc = "stack"  BY DEF StackSlot
  <2>3. CASE i \in H
    <3>1. c.stack[i].loc = "reg" /\ c.stack[i].reg = r  BY <2>3 DEF Holders
    <3>2. d.stack[i] = StackSlot /\ d.mem[i] = c.regs[r]  BY <1>1, <2>1, <2>3
    <3> HIDE DEF d
    <3>3. ValueAt(d, i) = d.mem[i]  BY <2>2, <3>2 DEF ValueAt
    <3>4. ValueAt(c, i) = c.regs[r]  BY <3>1 DEF ValueAt
    <3> QED  BY <3>2, <3>3, <3>4
  <2>4. CASE i \notin H
    <3>1. d.stack[i] = c.stack[i] /\ d.mem[i] = c.mem[i]  BY <1>1, <2>1, <2>4
    <3> HIDE DEF d
    <3> QED  BY <1>2, <3>1 DEF ValueAt
  <2> QED  BY <2>3, <2>4
<1>4. \A i \in Frame : i \notin DOMAIN c.stack => d.mem[i] = c.mem[i]  BY <1>1 DEF Holders
<1> QED  BY <1>2, <1>3, <1>4 DEF Intact

\* A register is given out: it holds nothing, and nothing else happens but a spill.
Vacant(c, pinned, u) ==
  /\ Intact(c, u.c, DOMAIN c.stack) /\ u.c.regs = c.regs
  /\ \A i \in Frame : i \notin DOMAIN c.stack => u.c.mem[i] = c.mem[i]
  /\ u.reg \notin pinned /\ u.reg \notin u.c.used /\ u.c.used \subseteq c.used

LEMMA UnusedRegisterVacant ==
  ASSUME NEW c, Fits(c), NEW pinned, Choice(pinned)
  PROVE  Vacant(c, pinned, GetUnusedRegister(c, pinned))
<1> DEFINE m == MarkSpilled(c, pinned)
           r == NextSpillReg(c, pinned)
           available == (Regs \ c.used) \ pinned
           u == GetUnusedRegister(c, pinned)
<1> SUFFICES Vacant(c, pinned, u)  OBVIOUS
<1>0. c \in Context /\ Good(c) /\ Len(c.stack) <= MaxHeight  BY FitsShape
<1>1. /\ Good(m) /\ m \in Context /\ m.stack = c.stack /\ m.mem = c.mem
      /\ m.regs = c.regs /\ m.used = c.used
  BY <1>0, MarkSpilledGood, MarkSpilledMem DEF Good
<1>2. r \in Regs \ Reserved /\ r \notin pinned  BY NextSpillRegAllowed
<1>3. CASE available # {}
  <2>1. available \in SUBSET Nat  BY RegsAssumption
  <2>2. u.c = c /\ u.reg = FirstOf(available)  BY <1>3 DEF GetUnusedRegister, With
  <2>3. u.reg \in available  BY <1>3, <2>1, <2>2, FirstOfIsLeast
  <2> HIDE DEF u
  <2> QED  BY <2>2, <2>3 DEF Vacant, Intact
<1>4. CASE available = {}
  <2>1. Unpinned(pinned) # {}  BY DEF Choice, Unpinned
  <2>2. u.c = SpillRegister(m, r) /\ u.reg = r
    BY <1>4, <2>1 DEF GetUnusedRegister, SpillOneRegister, With
  <2> HIDE DEF u, m, r
  <2>3. Fits(m)  BY <1>0, <1>1 DEF Fits
  <2>4. /\ Intact(m, u.c, DOMAIN m.stack) /\ u.c.regs = m.regs /\ u.c.used = m.used \ {r}
        /\ \A i \in Frame : i \notin DOMAIN m.stack => u.c.mem[i] = m.mem[i]
    BY <1>2, <2>2, <2>3, SpillIntact
  <2>5. Intact(c, m, DOMAIN c.stack)  BY <1>1 DEF Intact, ValueAt
  <2>6. Intact(c, u.c, DOMAIN c.stack)  BY <1>1, <2>4, <2>5, IntactTransitive
  <2> QED  BY <1>1, <1>2, <2>2, <2>4, <2>6 DEF Vacant
<1> QED  BY <1>3, <1>4

LEMMA UnusedVacant ==
  ASSUME NEW c, Fits(c), NEW pinned, Choice(pinned)
  PROVE  Vacant(c, pinned, GetUnused(c, {}, pinned))
<1> DEFINE P == \A q \in {} : (\A x \in {} \ c.used : q <= x) => Consistent(c, q)
           a == Assert(c, P)
<1>0. c \in Context /\ Good(c) /\ Len(c.stack) <= MaxHeight  BY FitsShape
<1>1. GetUnused(c, {}, pinned) = GetUnusedRegister(a, pinned)  BY DEF GetUnused
<1>2. P \in BOOLEAN  OBVIOUS
<1> HIDE DEF P
<1>3. a \in Context /\ Good(a) /\ a.stack = c.stack /\ a.mem = c.mem /\ a.regs = c.regs
  BY <1>0, <1>2, AssertGood, AssertMem DEF Good
<1> HIDE DEF a
<1>4. Vacant(a, pinned, GetUnusedRegister(a, pinned))
  <2>1. Fits(a)  BY <1>0, <1>3 DEF Fits
  <2> QED  BY <2>1, UnusedRegisterVacant
<1>5. Intact(c, a, DOMAIN c.stack)  BY <1>3 DEF Intact, ValueAt
<1>6. a.used = c.used  BY <1>0, <1>2, AssertGood DEF a
<1> QED  BY <1>1, <1>3, <1>4, <1>5, <1>6, IntactTransitive DEF Vacant

\* The same when some registers are tried first.
LEMMA UnusedFirstVacant ==
  ASSUME NEW c, Fits(c), Choice({}), NEW first \in SUBSET (Regs \ Reserved)
  PROVE  Vacant(c, {}, GetUnused(c, first, {}))
<1> DEFINE P == \A q \in first : (\A x \in first \ c.used : q <= x) => Consistent(c, q)
           a == Assert(c, P)
           free == first \ c.used
<1>0. c \in Context /\ Good(c) /\ Len(c.stack) <= MaxHeight  BY FitsShape
<1>1. GetUnused(c, first, {}) = IF free # {} THEN With(a, FirstOf(free)) ELSE GetUnusedRegister(a, {})
  BY DEF GetUnused
<1>2. P \in BOOLEAN  OBVIOUS
<1> HIDE DEF P
<1>3. /\ a \in Context /\ Good(a) /\ a.stack = c.stack /\ a.mem = c.mem /\ a.regs = c.regs
      /\ a.used = c.used
  BY <1>0, <1>2, AssertGood, AssertMem DEF Good
<1> HIDE DEF a
<1>5. Intact(c, a, DOMAIN c.stack)  BY <1>3 DEF Intact, ValueAt
<1>6. CASE free # {}
  <2>1. FirstOf(free) \in free
    <3>1. free \in SUBSET Nat  BY RegsAssumption
    <3> QED  BY <1>6, <3>1, FirstOfIsLeast
  <2>2. GetUnused(c, first, {}).c = a /\ GetUnused(c, first, {}).reg = FirstOf(free)
    BY <1>1, <1>6 DEF With
  <2> QED  BY <1>3, <1>5, <2>1, <2>2 DEF Vacant
<1>7. CASE free = {}
  <2>1. Fits(a)  BY <1>0, <1>3 DEF Fits
  <2>2. Vacant(a, {}, GetUnusedRegister(a, {}))  BY <2>1, UnusedRegisterVacant
  <2>3. GetUnused(c, first, {}) = GetUnusedRegister(a, {})  BY <1>1, <1>7
  <2> QED  BY <1>3, <1>5, <2>2, <2>3, IntactTransitive DEF Vacant
<1> QED  BY <1>6, <1>7

\* A slot is pushed: the others hold what they held.
LEMMA PushIntact ==
  ASSUME NEW c \in Context, NEW s \in Slot, NEW I \in SUBSET (DOMAIN c.stack)
  PROVE  /\ Intact(c, Push(c, s), I)
         /\ s.loc = "reg" => ValueAt(Push(c, s), Len(c.stack) + 1) = c.regs[s.reg]
         /\ s.loc = "const" => ValueAt(Push(c, s), Len(c.stack) + 1) = s.val
<1> DEFINE d == Push(c, s)
<1>1. /\ \A i \in 1 .. Len(c.stack) : d.stack[i] = c.stack[i]
      /\ d.stack[Len(c.stack) + 1] = s /\ d.mem = c.mem /\ d.regs = c.regs
      /\ DOMAIN c.stack = 1 .. Len(c.stack)
  BY Pushed, PushMem, ContextShape
<1> HIDE DEF d
<1>2. \A i \in I : d.stack[i] = c.stack[i]  BY <1>1
<1>3. Intact(c, d, I)  BY <1>1, <1>2 DEF Intact, ValueAt
<1>4. s.loc = "reg" => ValueAt(d, Len(c.stack) + 1) = c.regs[s.reg]  BY <1>1 DEF ValueAt
<1>5. s.loc = "const" => ValueAt(d, Len(c.stack) + 1) = s.val  BY <1>1 DEF ValueAt
<1> QED  BY <1>3, <1>4, <1>5 DEF d

LEMMA PushRegisterIntact ==
  ASSUME NEW c \in Context, NEW r \in Regs
  PROVE  /\ Intact(c, PushRegister(c, r), DOMAIN c.stack)
         /\ ValueAt(PushRegister(c, r), Len(c.stack) + 1) = c.regs[r]
         /\ Len(PushRegister(c, r).stack) = Len(c.stack) + 1
<1> DEFINE d == IncUsed(c, r)
<1>1. d \in Context /\ d.stack = c.stack /\ d.mem = c.mem /\ d.regs = c.regs
  BY IncUsedShape, IncUsedMem
<1>2. PushRegister(c, r) = Push(d, RegSlot(r))  BY DEF PushRegister
<1> HIDE DEF d
<1>3. RegSlot(r) \in Slot /\ RegSlot(r).loc = "reg" /\ RegSlot(r).reg = r
  BY SlotsAreSlots DEF RegSlot
<1>4. Intact(c, d, DOMAIN c.stack)  BY <1>1 DEF Intact, ValueAt
<1>5. /\ Intact(d, Push(d, RegSlot(r)), DOMAIN c.stack)
      /\ ValueAt(Push(d, RegSlot(r)), Len(d.stack) + 1) = d.regs[r]
      /\ Len(Push(d, RegSlot(r)).stack) = Len(d.stack) + 1
  <2> DEFINE s == RegSlot(r)
             I == DOMAIN c.stack
  <2>1. s \in Slot /\ I \in SUBSET (DOMAIN d.stack) /\ s.loc = "reg" /\ s.reg = r  BY <1>1, <1>3
  <2> HIDE DEF s, I
  <2>2. /\ Intact(d, Push(d, s), I) /\ ValueAt(Push(d, s), Len(d.stack) + 1) = d.regs[s.reg]
        /\ Len(Push(d, s).stack) = Len(d.stack) + 1
    BY <1>1, <2>1, PushIntact, Pushed
  <2> QED  BY <2>1, <2>2 DEF s, I
<1> QED  BY <1>1, <1>2, <1>4, <1>5, IntactTransitive

\* A value is computed into a register that holds nothing and is pushed.
LEMMA ComputedIntact ==
  ASSUME NEW c \in Context, NEW r \in Regs, NEW v \in Values \cup {Junk},
         Clear(c, {r}, DOMAIN c.stack)
  PROVE  /\ Intact(c, PushRegister(SetReg(c, r, v), r), DOMAIN c.stack)
         /\ ValueAt(PushRegister(SetReg(c, r, v), r), Len(c.stack) + 1) = v
<1> DEFINE d == SetReg(c, r, v)
           I == DOMAIN c.stack
<1>1. d \in Context /\ d.stack = c.stack /\ d.regs[r] = v
  BY SetRegSame, SetRegMem DEF Same
<1>2. Intact(c, d, I)  BY SetRegIntact
<1> HIDE DEF d
<1>3. /\ Intact(d, PushRegister(d, r), DOMAIN d.stack)
      /\ ValueAt(PushRegister(d, r), Len(d.stack) + 1) = d.regs[r]
  BY <1>1, PushRegisterIntact
<1> QED  BY <1>1, <1>2, <1>3, IntactTransitive DEF d

\* The slot on top goes.
LEMMA PopIntact ==
  ASSUME NEW c \in Context, Len(c.stack) > 0
  PROVE  Intact(c, Pop(c), 1 .. Len(c.stack) - 1)
<1>1. /\ \A i \in 1 .. Len(c.stack) - 1 : Pop(c).stack[i] = c.stack[i]
      /\ Pop(c).regs = c.regs /\ Pop(c).mem = c.mem
  BY Popped
<1> QED  BY <1>1 DEF Intact, ValueAt

\* An operand is popped into a register: the register has its value, pinned
\* registers are not written, and no slot below is harmed.
PoppedInto(c, pinned, p) ==
  /\ Intact(c, p.c, 1 .. Len(c.stack) - 1)
  /\ p.c.regs[p.reg] = ValueAt(c, Len(c.stack))
  /\ \A q \in pinned \cap Regs : p.c.regs[q] = c.regs[q]

LEMMA PopToRegisterIntact ==
  ASSUME NEW c, Fits(c), Len(c.stack) > 0, NEW pinned, Choice(pinned)
  PROVE  PoppedInto(c, pinned, PopToRegister(c, pinned))
<1> DEFINE p == PopToRegister(c, pinned)
           I == 1 .. Len(c.stack) - 1
           n == Len(c.stack)
<1> SUFFICES PoppedInto(c, pinned, p)  OBVIOUS
<1>0. /\ c \in Context /\ Good(c) /\ n \in Nat /\ n <= MaxHeight /\ n \in DOMAIN c.stack
      /\ MaxHeight \in Nat /\ Top(c) = c.stack[n] /\ n \in Frame
  BY FitsShape DEF Top, Frame
<1>1. /\ Pop(c) \in Context /\ DOMAIN Pop(c).stack = I /\ Pop(c).regs = c.regs
      /\ Pop(c).mem = c.mem /\ Len(Pop(c).stack) = n - 1 /\ Intact(c, Pop(c), I)
  BY <1>0, Popped, PopIntact
<1>2. CASE Top(c).loc = "reg"
  <2> DEFINE d == DecUsed(Pop(c), Top(c).reg)
  <2>1. p.c = d  BY <1>2, PoppedFromRegister
  <2>2. d.stack = Pop(c).stack /\ d.mem = Pop(c).mem /\ d.regs = Pop(c).regs
    BY <1>1, DecUsedMem
  <2>3. p.reg = Top(c).reg  BY <1>2 DEF PopToRegister, With
  <2> HIDE DEF d, p
  <2>4. Intact(Pop(c), d, I)  BY <2>2 DEF Intact, ValueAt
  <2>5. ValueAt(c, n) = c.regs[p.reg]  BY <1>0, <1>2, <2>3 DEF ValueAt
  <2>6. Intact(c, p.c, I)  BY <1>1, <2>1, <2>4, IntactTransitive
  <2> QED  BY <1>1, <2>1, <2>2, <2>5, <2>6 DEF PoppedInto
<1>3. CASE Top(c).loc # "reg"
  <2> DEFINE u == GetUnused(Pop(c), {}, pinned)
             v == IF Top(c).loc = "const" THEN Top(c).val ELSE u.c.mem[n]
  <2>1. Fits(Pop(c))  BY <1>0, <1>1, <1>3, PopPlainGood DEF Fits
  <2>2. u.c \in Context /\ Good(u.c) /\ u.reg \in Regs /\ DOMAIN u.c.stack = I
    <3>1. /\ Good(u.c) /\ KeptSlots(Pop(c), u.c) /\ u.reg \in Regs
      BY <2>1, FitsShape, GetUnusedGood
    <3> QED  BY <1>1, <3>1 DEF Good, KeptSlots
  <2>3. Vacant(Pop(c), pinned, u)  BY <2>1, UnusedVacant
  <2>4. u.reg # NoReg  BY <2>2, RegsAssumption DEF NoReg
  <2>5. p.reg = u.reg /\ p.c = SetReg(u.c, u.reg, v)
    BY <1>3, <2>4 DEF PopToRegister, With, LoadConstant, Fill, Height
  <2>6. v = ValueAt(c, n)
    <3>1. n \notin I  BY <1>0
    <3>2. u.c.mem[n] = c.mem[n]  BY <1>0, <1>1, <2>3, <3>1 DEF Vacant
    <3> QED  BY <1>0, <1>3, <3>2 DEF ValueAt
  <2> HIDE DEF u, v, p
  <2>7. Intact(c, u.c, I) /\ u.c.regs = c.regs
    BY <1>1, <2>3, IntactTransitive DEF Vacant
  <2>8. Clear(u.c, {u.reg}, I)
    <3>1. u.reg \notin u.c.used  BY <2>3 DEF Vacant
    <3> QED  BY <2>2, <3>1, UnusedClear
  <2>9. Intact(u.c, p.c, I)  BY <2>2, <2>5, <2>8, SetRegIntact
  <2>10. /\ p.c.regs[p.reg] = v
         /\ \A q \in Regs : q # u.reg => p.c.regs[q] = u.c.regs[q]
    BY <2>2, <2>5, SetRegMem
  <2>11. u.reg \notin pinned  BY <2>3 DEF Vacant
  <2>12. Intact(c, p.c, I)  BY <2>7, <2>9, IntactTransitive
  <2> QED  BY <2>6, <2>7, <2>10, <2>11, <2>12 DEF PoppedInto
<1> QED  BY <1>2, <1>3

\* Fields that say nothing of values.
LEMMA SameValues ==
  ASSUME NEW c, NEW d, d.stack = c.stack, d.regs = c.regs, d.mem = c.mem, NEW I
  PROVE  Intact(c, d, I)
BY DEF Intact, ValueAt

\* A slot that is stored holds what it held.
LEMMA StoreIntact ==
  ASSUME NEW c, Fits(c), NEW I \in SUBSET (DOMAIN c.stack)
  PROVE  Intact(c, StoreSlots(c, I), DOMAIN c.stack)
<1> DEFINE d == StoreSlots(c, I)
<1>0. c \in Context /\ Len(c.stack) <= MaxHeight /\ DOMAIN c.stack \subseteq Frame
  BY FitsShape DEF Frame
<1>1. /\ \A i \in DOMAIN c.stack : d.stack[i] = IF i \in I THEN StackSlot ELSE c.stack[i]
      /\ d.regs = c.regs
      /\ \A i \in Frame : d.mem[i] = IF i \in I THEN ValueAt(c, i) ELSE c.mem[i]
  <2>1. \A i \in DOMAIN c.stack : d.stack[i] = IF i \in I THEN StackSlot ELSE c.stack[i]
    BY <1>0, StoredSlots
  <2>2. d.regs = c.regs  BY <1>0, StoredRegs
  <2>3. d.mem = [i \in Frame |-> IF i \in I THEN ValueAt(c, i) ELSE c.mem[i]]
    BY <1>0, StoredMem
  <2> HIDE DEF d
  <2> QED  BY <2>1, <2>2, <2>3
<1> HIDE DEF d
<1> SUFFICES ASSUME NEW i \in DOMAIN c.stack PROVE ValueAt(d, i) = ValueAt(c, i)
  BY DEF Intact, d
<1>2. StackSlot.loc = "stack"  BY DEF StackSlot
<1>3. i \in Frame  BY <1>0
<1>4. CASE i \in I
  <2>1. d.stack[i] = StackSlot /\ d.mem[i] = ValueAt(c, i)  BY <1>1, <1>3, <1>4
  <2>2. ValueAt(d, i) = d.mem[i]  BY <1>2, <2>1 DEF ValueAt
  <2> QED  BY <2>1, <2>2
<1>5. CASE i \notin I
  <2>1. d.stack[i] = c.stack[i] /\ d.mem[i] = c.mem[i]  BY <1>1, <1>3, <1>5
  <2> QED  BY <1>1, <2>1 DEF ValueAt
<1> QED  BY <1>4, <1>5

LEMMA SpillLocalsIntact ==
  ASSUME NEW c, Fits(c), NEW n \in 0 .. Len(c.stack)
  PROVE  Intact(c, SpillLocals(c, n), DOMAIN c.stack)
<1> DEFINE I == {i \in 1 .. n : c.stack[i].loc # "stack"}
           d == StoreSlots(c, I)
           e == SpillLocals(c, n)
<1>1. I \in SUBSET (DOMAIN c.stack) /\ c \in Context /\ Len(c.stack) <= MaxHeight  BY FitsShape
<1>2. d \in Context  BY <1>1, StoredSlots
<1>3. e.stack = d.stack /\ e.regs = d.regs /\ e.mem = d.mem
  <2>1. \A o, a, b, k : o \in Context =>
            /\ [o EXCEPT !.count = a, !.used = b, !.ok = k].stack = o.stack
            /\ [o EXCEPT !.count = a, !.used = b, !.ok = k].regs = o.regs
            /\ [o EXCEPT !.count = a, !.used = b, !.ok = k].mem = o.mem
    BY DEF Context
  <2>2. \E a, b, k : e = [d EXCEPT !.count = a, !.used = b, !.ok = k]  BY DEF SpillLocals
  <2> HIDE DEF d, e
  <2> QED  BY <1>2, <2>1, <2>2
<1> HIDE DEF e, d
<1>4. Intact(c, d, DOMAIN c.stack)
  <2> HIDE DEF I
  <2> QED  BY <1>1, StoreIntact DEF d
<1> QED  BY <1>3, <1>4, SameValues, IntactTransitive DEF e

LEMMA DropTopIntact ==
  ASSUME NEW c, Good(c), Len(c.stack) > 0
  PROVE  Intact(c, DropTop(c), 1 .. Len(c.stack) - 1)
<1> DEFINE e == IF Top(c).loc = "reg" THEN DecUsed(c, Top(c).reg) ELSE c
           I == 1 .. Len(c.stack) - 1
<1>1. Len(c.stack) \in DOMAIN c.stack /\ c \in Context  BY ContextShape DEF Good
<1>2. e \in Context /\ e.stack = c.stack /\ e.regs = c.regs /\ e.mem = c.mem
  BY <1>1, DecUsedShape, DecUsedMem DEF Top
<1>3. DropTop(c) = Pop(e)  BY DEF DropTop
<1> HIDE DEF e
<1>4. Intact(c, e, I)  BY <1>2, SameValues
<1>5. Intact(e, Pop(e), I)  BY <1>2, PopIntact
<1> QED  BY <1>3, <1>4, <1>5, IntactTransitive

\* A vacant register is written and pushed.
LEMMA VacantComputed ==
  ASSUME NEW c, Good(c), NEW r \in Regs \ Reserved, r \notin c.used, NEW v \in Values \cup {Junk}
  PROVE  /\ Intact(c, PushRegister(SetReg(c, r, v), r), DOMAIN c.stack)
         /\ ValueAt(PushRegister(SetReg(c, r, v), r), Len(c.stack) + 1) = v
<1>1. Clear(c, {r}, DOMAIN c.stack)  BY UnusedClear
<1> QED  BY <1>1, ComputedIntact DEF Good

LEMMA LoadedValueIntact ==
  ASSUME NEW c, Fits(c), Choice({}), NEW v \in Values
  PROVE  /\ Intact(c, LoadedValue(c, v), DOMAIN c.stack)
         /\ ValueAt(LoadedValue(c, v), Len(c.stack) + 1) = v
<1> DEFINE d == GetUnused(c, {}, {})
<1>1. LoadedValue(c, v) = PushRegister(SetReg(d.c, d.reg, v), d.reg)  BY DEF LoadedValue
<1>2. Good(d.c) /\ KeptSlots(c, d.c) /\ d.reg \in Regs \ Reserved  BY FitsShape, GetUnusedGood
<1>3. Vacant(c, {}, d)  BY UnusedVacant
<1> HIDE DEF d
<1>4. /\ Intact(d.c, LoadedValue(c, v), DOMAIN c.stack)
      /\ ValueAt(LoadedValue(c, v), Len(c.stack) + 1) = v
  BY <1>1, <1>2, <1>3, VacantComputed DEF Vacant, KeptSlots
<1> QED  BY <1>3, <1>4, IntactTransitive DEF Vacant

LEMMA CopyLocalIntact ==
  ASSUME NEW c, Fits(c), Choice({}), NEW x \in DOMAIN c.stack
  PROVE  /\ Intact(c, CopyLocal(c, x), DOMAIN c.stack)
         /\ ValueAt(CopyLocal(c, x), Len(c.stack) + 1) = ValueAt(c, x)
<1> DEFINE slot == c.stack[x]
           d == GetUnused(c, {}, {})
<1>0. c \in Context /\ slot \in Slot /\ x \in Frame  BY FitsShape, ContextShape DEF Frame
<1>1. slot.loc \in {"stack", "reg", "const"} /\ slot.val \in Values /\ (slot.loc = "reg" => slot.reg \in Regs)
  BY <1>0, SlotShape
<1>2. CASE slot.loc = "reg"
  <2>1. CopyLocal(c, x) = PushRegister(c, slot.reg)  BY <1>2 DEF CopyLocal
  <2>2. ValueAt(c, x) = c.regs[slot.reg]  BY <1>2 DEF ValueAt
  <2> HIDE DEF slot
  <2> QED  BY <1>0, <1>1, <1>2, <2>1, <2>2, PushRegisterIntact
<1>3. CASE slot.loc = "const"
  <2>1. CopyLocal(c, x) = Push(c, ConstSlot(slot.val))  BY <1>3 DEF CopyLocal, PushConst
  <2>2. ValueAt(c, x) = slot.val  BY <1>3 DEF ValueAt
  <2> HIDE DEF slot
  <2>3. ConstSlot(slot.val) \in Slot  BY <1>1, SlotsAreSlots
  <2>4. ConstSlot(slot.val).loc = "const" /\ ConstSlot(slot.val).val = slot.val  BY DEF ConstSlot
  <2> QED  BY <1>0, <2>1, <2>2, <2>3, <2>4, PushIntact
<1>4. CASE slot.loc = "stack"
  <2>1. CopyLocal(c, x) = PushRegister(SetReg(d.c, d.reg, d.c.mem[x]), d.reg)
    BY <1>4 DEF CopyLocal, Fill
  <2>2. Good(d.c) /\ KeptSlots(c, d.c) /\ d.reg \in Regs \ Reserved  BY FitsShape, GetUnusedGood
  <2>3. Vacant(c, {}, d)  BY UnusedVacant
  <2> HIDE DEF d
  <2>4. StackSlot.loc = "stack"  BY DEF StackSlot
  <2>5. d.c.stack[x].loc = "stack"  BY <1>4, <2>2, <2>4 DEF KeptSlots
  <2>6. d.c.mem[x] = ValueAt(d.c, x)  BY <2>5 DEF ValueAt
  <2>7. ValueAt(d.c, x) = ValueAt(c, x)  BY <2>3 DEF Vacant, Intact
  <2>8. d.c.mem[x] \in Values \cup {Junk}  BY <1>0, <2>2, ContextShape DEF Good
  <2>9. /\ Intact(d.c, CopyLocal(c, x), DOMAIN c.stack)
        /\ ValueAt(CopyLocal(c, x), Len(c.stack) + 1) = d.c.mem[x]
    BY <2>1, <2>2, <2>3, <2>8, VacantComputed DEF Vacant, KeptSlots
  <2> QED  BY <2>3, <2>6, <2>7, <2>9, IntactTransitive DEF Vacant
<1> QED  BY <1>1, <1>2, <1>3, <1>4

\* Slot x takes the value on top, and the others keep theirs.
Assigned(c, d, x, I) == Intact(c, d, I \ {x}) /\ ValueAt(d, x) = ValueAt(c, Len(c.stack))

LEMMA SetFromFrameAssigned ==
  ASSUME NEW c, Fits(c), Choice({}), NEW x \in 1 .. Len(c.stack) - 1,
          Top(c).loc = "stack"
  PROVE  Assigned(c, SetFromFrame(c, x), x, DOMAIN c.stack)
<1> DEFINE slot  == c.stack[x]
           freed == IF slot.loc = "reg" THEN SetSlot(DecUsed(c, slot.reg), x, StackSlot) ELSE c
           d     == GetUnused(freed, {}, {})
           f     == Fill(d.c, d.reg, Height(c))
           g     == IncUsed(f, d.reg)
           e     == SetSlot(g, x, RegSlot(d.reg))
           n     == Len(c.stack)
           I     == DOMAIN c.stack \ {x}
<1>0. /\ c \in Context /\ Good(c) /\ n \in Frame /\ n <= MaxHeight /\ n \in Nat
      /\ x \in DOMAIN c.stack /\ n \in DOMAIN c.stack /\ x # n /\ x < n /\ x \in Nat
      /\ c.stack[n].loc = "stack" /\ I \in SUBSET (DOMAIN c.stack)
  BY LocalBelowTop
<1>1. ValueAt(c, n) = c.mem[n]  BY <1>0 DEF ValueAt
<1>2. CASE slot.loc = "reg" /\ c.count[slot.reg] = 1
  <2> DEFINE r == slot.reg
  <2>1. SetFromFrame(c, x) = SetReg(c, r, c.mem[n])  BY <1>2 DEF SetFromFrame, Height, Fill
  <2>2. r \in Regs  BY <1>0, <1>2, ContextShape, SlotShape
  <2>3. Holders(c, r) = {x}
    <3>1. x \in Holders(c, r)  BY <1>0, <1>2 DEF Holders
    <3>2. Cardinality(Holders(c, r)) = 1  BY <1>0, <1>2, <2>2 DEF Good, Exact
    <3>3. IsFiniteSet(Holders(c, r))  BY <1>0, HoldersFinite
    <3> QED  BY <3>1, <3>2, <3>3, FS_Singleton
  <2>4. Clear(c, {r}, I)  BY <2>3 DEF Clear, Holders
  <2>5. Intact(c, SetReg(c, r, c.mem[n]), I)  BY <1>0, <2>2, <2>4, SetRegIntact
  <2>6. ValueAt(SetReg(c, r, c.mem[n]), x) = c.mem[n]
    <3> DEFINE o == SetReg(c, r, c.mem[n])
    <3>1. o.stack = c.stack /\ o.regs[r] = c.mem[n]  BY <1>0, <2>2, SetRegMem
    <3> HIDE DEF o
    <3>2. o.stack[x].loc = "reg" /\ o.stack[x].reg = r  BY <1>2, <3>1
    <3> QED  BY <3>1, <3>2 DEF ValueAt, o
  <2> QED  BY <1>1, <2>1, <2>5, <2>6 DEF Assigned
<1>3. CASE ~(slot.loc = "reg" /\ c.count[slot.reg] = 1)
  <2>1. SetFromFrame(c, x) = e  BY <1>3 DEF SetFromFrame
  <2>2. /\ Good(freed) /\ Len(freed.stack) = n  BY FreedForFrame DEF n
  <2>3. /\ DOMAIN freed.stack = DOMAIN c.stack /\ freed.regs = c.regs /\ freed.mem = c.mem
        /\ \A j \in I : freed.stack[j] = c.stack[j]
    <3>1. CASE slot.loc = "reg"
      <4> DEFINE o == DecUsed(c, slot.reg)
      <4>1. o \in Context /\ o.stack = c.stack /\ o.regs = c.regs /\ o.mem = c.mem
        BY <1>0, <3>1, DecUsedShape, DecUsedMem
      <4>2. freed = SetSlot(o, x, StackSlot)  BY <3>1
      <4> HIDE DEF o, freed
      <4> QED  BY <1>0, <4>1, <4>2, SetSlotShape, SetSlotMem, SlotsAreSlots
    <3>2. CASE slot.loc # "reg"
      <4>1. freed = c  BY <3>2
      <4> HIDE DEF freed
      <4> QED  BY <4>1
    <3> QED  BY <3>1, <3>2
  <2> HIDE DEF freed
  <2>4. Intact(c, freed, I)  BY <2>3 DEF Intact, ValueAt
  <2>5. Fits(freed)  BY <1>0, <2>2 DEF Fits
  <2>6. /\ Good(d.c) /\ d.reg \in Regs \ Reserved /\ KeptSlots(freed, d.c)
        /\ Vacant(freed, {}, d)
    BY <2>5, FitsShape, GetUnusedGood, UnusedVacant
  <2> HIDE DEF d
  <2>7. Intact(c, d.c, I) /\ DOMAIN d.c.stack = DOMAIN c.stack
    <3>1. Intact(freed, d.c, DOMAIN freed.stack)  BY <2>6 DEF Vacant
    <3>2. Intact(freed, d.c, I)  BY <1>0, <2>3, <3>1, IntactFewer
    <3> QED  BY <2>3, <2>4, <2>6, <3>2, IntactTransitive DEF KeptSlots
  <2>8. d.c.mem[n] = c.mem[n]
    <3>1. n \in I  BY <1>0
    <3>2. StackSlot.loc = "stack"  BY DEF StackSlot
    <3>3. d.c.stack[n].loc = "stack"  BY <1>0, <2>3, <2>6, <3>1, <3>2 DEF KeptSlots
    <3>4. ValueAt(d.c, n) = d.c.mem[n]  BY <3>3 DEF ValueAt
    <3> QED  BY <1>1, <2>7, <3>1, <3>4 DEF Intact
  <2>9. d.c \in Context /\ d.reg \in Regs /\ Same(d.c, f)
    BY <1>0, <2>6, FillSame DEF Good, Height, n
  <2>10. /\ Intact(d.c, f, DOMAIN d.c.stack)
         /\ f.regs[d.reg] = c.mem[n]
    <3>1. f = SetReg(d.c, d.reg, d.c.mem[n])  BY DEF Fill, Height, n
    <3>2. Clear(d.c, {d.reg}, DOMAIN d.c.stack)  BY <2>6, <2>9, UnusedClear DEF Vacant
    <3>3. Intact(d.c, SetReg(d.c, d.reg, d.c.mem[n]), DOMAIN d.c.stack)
      BY <2>9, <3>2, SetRegIntact
    <3>4. SetReg(d.c, d.reg, d.c.mem[n]).regs[d.reg] = d.c.mem[n]  BY <2>9, SetRegMem
    <3> QED  BY <2>8, <3>1, <3>3, <3>4
  <2> HIDE DEF f
  <2>11. Intact(c, f, I)
    <3>1. Intact(d.c, f, I)  BY <1>0, <2>7, <2>10, IntactFewer
    <3> QED  BY <2>7, <3>1, IntactTransitive
  <2>12. /\ g \in Context /\ g.stack = f.stack /\ g.regs = f.regs /\ g.mem = f.mem
         /\ DOMAIN g.stack = DOMAIN c.stack
    BY <2>7, <2>9, IncUsedShape, IncUsedMem DEF Same
  <2> HIDE DEF g
  <2>13. RegSlot(d.reg) \in Slot /\ RegSlot(d.reg).loc = "reg" /\ RegSlot(d.reg).reg = d.reg
    BY <2>9, SlotsAreSlots DEF RegSlot
  <2>14. /\ e.stack[x] = RegSlot(d.reg)
         /\ \A j \in I : e.stack[j] = f.stack[j]
         /\ e.regs = f.regs /\ e.mem = f.mem
    BY <1>0, <2>12, <2>13, SetSlotShape, SetSlotMem
  <2> HIDE DEF e
  <2>15. Intact(f, e, I)  BY <2>14 DEF Intact, ValueAt
  <2>16. ValueAt(e, x) = c.mem[n]
    <3>1. e.stack[x].loc = "reg" /\ e.stack[x].reg = d.reg  BY <2>13, <2>14
    <3>2. ValueAt(e, x) = e.regs[d.reg]  BY <3>1 DEF ValueAt
    <3> QED  BY <2>10, <2>14, <3>2
  <2>17. Intact(c, e, I)  BY <2>11, <2>15, IntactTransitive
  <2> QED  BY <1>1, <2>1, <2>16, <2>17 DEF Assigned
<1> QED  BY <1>2, <1>3

\* local.set and local.tee assign the local, and local.set pops the operand.
LEMMA SetLocalAssigned ==
  ASSUME NEW c, Fits(c), Choice({}), NEW x \in 1 .. Len(c.stack) - 1,
         NEW isTee \in BOOLEAN
  PROVE  Assigned(c, SetLocalImpl(c, x, isTee), x,
                  1 .. Len(c.stack) - (IF isTee THEN 0 ELSE 1))
<1> DEFINE src   == Top(c)
           n     == Len(c.stack)
           freed == IF c.stack[x].loc = "reg" THEN DecUsed(c, c.stack[x].reg) ELSE c
           moved == SetSlot(freed, x, src)
           set   == IF src.loc = "stack" THEN SetFromFrame(c, x)
                    ELSE IF src.loc = "reg" /\ isTee THEN IncUsed(moved, src.reg)
                    ELSE moved
           I     == DOMAIN c.stack
<1>0. /\ c \in Context /\ Good(c) /\ n \in Nat /\ n > 0 /\ n <= MaxHeight
      /\ DOMAIN c.stack = 1 .. n /\ n \in DOMAIN c.stack /\ src = c.stack[n] /\ src \in Slot
      /\ x \in DOMAIN c.stack /\ x \in 1 .. n - 1 /\ x # n
  BY LocalBelowTop
<1>1. SetLocalImpl(c, x, isTee) = IF isTee THEN set ELSE Pop(set)  BY DEF SetLocalImpl
<1>2. set \in Context /\ Len(set.stack) = n /\ Assigned(c, set, x, I)
  <2>1. CASE src.loc = "stack"
    <3>1. set = SetFromFrame(c, x)  BY <2>1
    <3> HIDE DEF set
    <3> QED  BY <2>1, <3>1, SetFromFrameGood, SetFromFrameAssigned DEF Good
  <2>2. CASE src.loc # "stack"
    <3>1. freed \in Context /\ freed.stack = c.stack  BY <1>0, FreedOk
    <3>2. freed.regs = c.regs /\ freed.mem = c.mem  BY <1>0, DecUsedMem
    <3> HIDE DEF freed
    <3>3. /\ moved \in Context /\ moved.stack[x] = src /\ Len(moved.stack) = n
          /\ \A j \in I \ {x} : moved.stack[j] = c.stack[j]
          /\ moved.regs = c.regs /\ moved.mem = c.mem
      <4>1. freed \in Context /\ x \in DOMAIN freed.stack /\ src \in Slot  BY <1>0, <3>1
      <4> HIDE DEF src
      <4>2. /\ moved \in Context /\ moved.stack[x] = src /\ Len(moved.stack) = Len(freed.stack)
            /\ \A j \in DOMAIN freed.stack : j # x => moved.stack[j] = freed.stack[j]
        BY <4>1, SetSlotShape
      <4>3. moved.regs = freed.regs /\ moved.mem = freed.mem  BY <4>1, SetSlotMem
      <4> HIDE DEF moved
      <4> QED  BY <3>1, <3>2, <4>2, <4>3
    <3> HIDE DEF moved
    <3>4. /\ set \in Context /\ set.stack = moved.stack /\ set.regs = c.regs /\ set.mem = c.mem
      <4>1. CASE src.loc = "reg" /\ isTee
        <5>1. set = IncUsed(moved, src.reg)  BY <4>1
        <5>2. src.reg \in Regs  BY <1>0, <4>1, SlotShape
        <5> HIDE DEF set, src
        <5> QED  BY <3>3, <5>1, <5>2, IncUsedShape, IncUsedMem
      <4>2. CASE ~(src.loc = "reg" /\ isTee)
        <5>1. set = moved  BY <2>2, <4>2
        <5> HIDE DEF set
        <5> QED  BY <3>3, <5>1
      <4> QED  BY <4>1, <4>2
    <3> HIDE DEF set
    <3>5. Intact(c, set, I \ {x})  BY <3>3, <3>4 DEF Intact, ValueAt
    <3>6. src.loc \in {"reg", "const"}  BY <1>0, <2>2, SlotShape
    <3>7. ValueAt(set, x) = ValueAt(c, n)
      <4>1. set.stack[x] = src /\ c.stack[n] = src  BY <1>0, <3>3, <3>4
      <4> HIDE DEF src
      <4> QED  BY <3>4, <3>6, <4>1 DEF ValueAt
    <3> QED  BY <3>3, <3>4, <3>5, <3>7 DEF Assigned
  <2> QED  BY <2>1, <2>2
<1> HIDE DEF set
<1>3. CASE isTee  BY <1>0, <1>1, <1>2, <1>3
<1>4. CASE ~isTee
  <2>1. SetLocalImpl(c, x, isTee) = Pop(set)  BY <1>1, <1>4
  <2>2. Intact(set, Pop(set), 1 .. n - 1)  BY <1>0, <1>2, PopIntact
  <2>3. Intact(c, set, (1 .. n - 1) \ {x}) /\ ValueAt(set, x) = ValueAt(c, n)
    <3>1. (1 .. n - 1) \ {x} \in SUBSET (I \ {x})  BY <1>0
    <3> QED  BY <1>2, <3>1, IntactFewer DEF Assigned
  <2>4. Intact(set, Pop(set), (1 .. n - 1) \ {x}) /\ ValueAt(Pop(set), x) = ValueAt(set, x)
    BY <1>0, <2>2 DEF Intact
  <2>5. Intact(c, Pop(set), (1 .. n - 1) \ {x})  BY <2>3, <2>4, IntactTransitive
  <2>6. (IF isTee THEN 0 ELSE 1) = 1  BY <1>4
  <2> QED  BY <2>1, <2>3, <2>4, <2>5, <2>6 DEF Assigned
<1> QED  BY <1>3, <1>4

-----------------------------------------------------------------------------
(* The contents of the slots, from the lowest up. *)

\* The top n slots of c are replaced by slots that hold the values vs.
Replaced(c, d, n, vs) ==
  /\ Len(d.stack) = Len(c.stack) - n + Len(vs)
  /\ Intact(c, d, 1 .. Len(c.stack) - n)
  /\ \A j \in 1 .. Len(vs) : ValueAt(d, Len(c.stack) - n + j) = vs[j]

\* A value is put on top of the slots.
LEMMA ExtendedReplaced ==
  ASSUME NEW c, Good(c), NEW d, NEW v, Len(d.stack) = Len(c.stack) + 1,
         Intact(c, d, DOMAIN c.stack), ValueAt(d, Len(c.stack) + 1) = v
  PROVE  Replaced(c, d, 0, <<v>>)
<1>1. Len(c.stack) \in Nat /\ DOMAIN c.stack = 1 .. Len(c.stack)  BY ContextShape DEF Good
<1>2. Len(<<v>>) = 1 /\ <<v>>[1] = v /\ Len(c.stack) - 0 = Len(c.stack)  BY <1>1
<1>3. \A j \in 1 .. 1 : ValueAt(d, Len(c.stack) + j) = <<v>>[j]  BY <1>2
<1> QED  BY <1>1, <1>2, <1>3 DEF Replaced

\* The values of all the slots.
Contents(c) == [i \in DOMAIN c.stack |-> ValueAt(c, i)]

LEMMA ContentsTyped ==
  ASSUME NEW c \in Context, Len(c.stack) <= MaxHeight
  PROVE  /\ Contents(c) \in Seq(Values \cup {Junk}) /\ Len(Contents(c)) = Len(c.stack)
         /\ \A i \in 1 .. Len(c.stack) : Contents(c)[i] = ValueAt(c, i)
<1> DEFINE L == Len(c.stack)
           V == Values \cup {Junk}
           s == Contents(c)
<1>1. c \in Context /\ L \in Nat /\ DOMAIN c.stack = 1 .. L /\ L <= MaxHeight  BY ContextShape
<1>2. \A i \in 1 .. L : ValueAt(c, i) \in V  BY <1>1, ValueAtTyped
<1>3. s = [i \in 1 .. L |-> ValueAt(c, i)]  BY <1>1 DEF Contents
<1> HIDE DEF L, V, s
<1>4. s \in [1 .. L -> V] /\ \A i \in 1 .. L : s[i] = ValueAt(c, i)  BY <1>2, <1>3
<1>5. s \in Seq(V) /\ Len(s) = L  BY <1>1, <1>4
<1> QED  BY <1>4, <1>5 DEF s, L, V

LEMMA ContentsShape ==
  ASSUME NEW c, Fits(c)
  PROVE  /\ Contents(c) \in Seq(Values \cup {Junk}) /\ Len(Contents(c)) = Len(c.stack)
         /\ \A i \in 1 .. Len(c.stack) : Contents(c)[i] = ValueAt(c, i)
BY FitsShape, ContentsTyped

\* The slots that the handler leaves, then the values it pushes.
LEMMA ContentsReplaced ==
  ASSUME NEW c, Fits(c), NEW d, Fits(d), NEW n \in 0 .. Len(c.stack),
         NEW vs \in Seq(Values \cup {Junk}), Replaced(c, d, n, vs)
  PROVE  Contents(d) = SubSeq(Contents(c), 1, Len(Contents(c)) - n) \o vs
<1> DEFINE V == Values \cup {Junk}
           m == Len(c.stack) - n
           s == Contents(c)
           t == Contents(d)
           k == SubSeq(s, 1, m)
<1>1. Len(c.stack) \in Nat /\ m \in Nat /\ m <= Len(c.stack)  BY FitsShape
<1>2. /\ s \in Seq(V) /\ Len(s) = Len(c.stack)
      /\ \A i \in 1 .. Len(c.stack) : s[i] = ValueAt(c, i)
  BY ContentsShape
<1>3. /\ t \in Seq(V) /\ Len(t) = Len(d.stack)
      /\ \A i \in 1 .. Len(d.stack) : t[i] = ValueAt(d, i)
  BY ContentsShape
<1>4. /\ Len(d.stack) = m + Len(vs) /\ \A i \in 1 .. m : ValueAt(d, i) = ValueAt(c, i)
      /\ \A j \in 1 .. Len(vs) : ValueAt(d, m + j) = vs[j]
  BY DEF Replaced, Intact
<1>5. Len(vs) \in Nat  BY LenProperties
<1> HIDE DEF s, t, m
<1>6. k \in Seq(V) /\ Len(k) = m /\ \A i \in 1 .. m : k[i] = s[i]
  <2>1. s \in [1 .. Len(s) -> V]  BY <1>2, LenProperties
  <2>2. \A i \in 1 .. m : s[i] \in V  BY <1>1, <1>2, <2>1
  <2> HIDE DEF V
  <2>3. /\ k \in Seq(V) /\ Len(k) = IF 1 <= m THEN m - 1 + 1 ELSE 0
        /\ \A i \in 1 .. m - 1 + 1 : k[i] = s[1 + i - 1]
    BY <1>1, <2>2, SubSeqProperties
  <2> HIDE DEF k
  <2>4. Len(k) = m  BY <1>1, <2>3
  <2>5. \A i \in 1 .. m : i \in 1 .. m - 1 + 1 /\ 1 + i - 1 = i  BY <1>1
  <2>6. \A i \in 1 .. m : k[i] = s[i]  BY <2>3, <2>5
  <2> QED  BY <2>3, <2>4, <2>6
<1> HIDE DEF k
<1>7. /\ k \o vs \in Seq(V) /\ Len(k \o vs) = Len(k) + Len(vs)
      /\ \A i \in 1 .. Len(k) + Len(vs) :
           (k \o vs)[i] = IF i <= Len(k) THEN k[i] ELSE vs[i - Len(k)]
  BY <1>6, ConcatProperties
<1>8. \A i \in 1 .. Len(t) : t[i] = (k \o vs)[i]
  <2> TAKE i \in 1 .. Len(t)
  <2>1. Len(t) = m + Len(vs) /\ i \in Nat /\ i \in 1 .. Len(d.stack)  BY <1>1, <1>3, <1>4, <1>5
  <2>2. i \in 1 .. Len(k) + Len(vs)  BY <1>6, <2>1
  <2>3. CASE i <= m
    <3>1. i \in 1 .. m /\ i \in 1 .. Len(c.stack)  BY <1>1, <2>1, <2>3
    <3>2. t[i] = ValueAt(c, i)  BY <1>3, <1>4, <2>1, <3>1
    <3>3. (k \o vs)[i] = k[i]  BY <1>6, <1>7, <2>2, <2>3
    <3> QED  BY <1>2, <1>6, <3>1, <3>2, <3>3
  <2>4. CASE ~(i <= m)
    <3>1. i - m \in 1 .. Len(vs) /\ m + (i - m) = i  BY <1>1, <1>5, <2>1, <2>4
    <3>2. t[i] = vs[i - m]  BY <1>3, <1>4, <2>1, <3>1
    <3>3. (k \o vs)[i] = vs[i - m]  BY <1>6, <1>7, <2>2, <2>4
    <3> QED  BY <3>2, <3>3
  <2> QED  BY <2>3, <2>4
<1>9. Len(t) = Len(k \o vs)  BY <1>3, <1>4, <1>6, <1>7
<1>10. t = k \o vs
  <2> HIDE DEF V
  <2> QED  BY <1>3, <1>7, <1>8, <1>9, SeqEqual
<1>11. Len(s) - n = m  BY <1>2 DEF m
<1> QED  BY <1>10, <1>11 DEF t, s, k

\* Forgetting what nobody may read leaves the contents of every slot.
LEMMA LiveContents ==
  ASSUME NEW d \in Context, Len(d.stack) <= MaxHeight, NEW e,
         e.stack = d.stack, e.regs = LiveRegs(d), e.mem = LiveMem(d)
  PROVE  Contents(e) = Contents(d)
<1>1. DOMAIN d.stack = 1 .. Len(d.stack) /\ Len(d.stack) \in Nat /\ MaxHeight \in Nat
  BY ContextShape, RegsAssumption
<1>2. ASSUME NEW i \in DOMAIN d.stack PROVE ValueAt(e, i) = ValueAt(d, i)
  <2> DEFINE s == d.stack[i]
  <2>1. s \in Slot /\ i \in Frame  BY <1>1, ContextShape DEF Frame
  <2>2. s.loc = "reg" => s.reg \in Regs  BY <2>1, SlotShape
  <2>3. CASE s.loc = "reg"
    <3>1. i \in Holders(d, s.reg)  BY <2>3 DEF Holders
    <3>2. LiveRegs(d)[s.reg] = d.regs[s.reg]  BY <2>2, <2>3, <3>1 DEF LiveRegs
    <3> QED  BY <2>3, <3>2 DEF ValueAt
  <2>4. CASE s.loc = "const"  BY <2>4 DEF ValueAt
  <2>5. CASE s.loc = "stack"
    <3>1. LiveMem(d)[i] = d.mem[i]  BY <2>1, <2>5 DEF LiveMem
    <3> QED  BY <2>5, <3>1 DEF ValueAt
  <2>6. s.loc \in {"stack", "reg", "const"}  BY <2>1, SlotShape
  <2> QED  BY <2>3, <2>4, <2>5, <2>6
<1> QED  BY <1>2 DEF Contents

LEMMA SettledContents ==
  ASSUME NEW d, Fits(d)
  PROVE  Contents(Settled(d)) = Contents(d)
<1> DEFINE e == Settled(d)
<1>1. d \in Context /\ Len(d.stack) <= MaxHeight  BY FitsShape
<1>2. e.stack = d.stack /\ e.regs = LiveRegs(d) /\ e.mem = LiveMem(d)  BY <1>1, SettledSame DEF Same
<1> HIDE DEF e
<1>3. Contents(e) = Contents(d)  BY <1>1, <1>2, LiveContents
<1> QED  BY <1>3 DEF e

\* local.set and local.tee change one local, and the first takes the value off.
LEMMA ContentsAssigned ==
  ASSUME NEW c, Fits(c), NEW d, Fits(d), NEW m \in 0 .. Len(c.stack), NEW x \in 1 .. m,
         Len(d.stack) = m, Assigned(c, d, x, 1 .. m)
  PROVE  Contents(d) = [SubSeq(Contents(c), 1, m) EXCEPT ![x] = Contents(c)[Len(Contents(c))]]
<1> DEFINE V == Values \cup {Junk}
           s == Contents(c)
           t == Contents(d)
           k == SubSeq(s, 1, m)
           v == s[Len(s)]
           e == [k EXCEPT ![x] = v]
<1>1. m \in Nat /\ m <= Len(c.stack) /\ x \in Nat /\ Len(c.stack) \in Nat /\ 1 <= m
      /\ Len(c.stack) \in 1 .. Len(c.stack)
  BY FitsShape
<1>2. /\ s \in Seq(V) /\ Len(s) = Len(c.stack)
      /\ \A i \in 1 .. Len(c.stack) : s[i] = ValueAt(c, i)
  BY ContentsShape
<1>3. /\ t \in Seq(V) /\ Len(t) = m /\ \A i \in 1 .. m : t[i] = ValueAt(d, i)
  BY ContentsShape
<1>4. \A i \in 1 .. Len(c.stack) : s[i] \in V
  <2>1. s \in [1 .. Len(s) -> V]  BY <1>2, LenProperties
  <2> QED  BY <1>2, <2>1
<1> HIDE DEF s, t, V
<1>5. k \in Seq(V) /\ Len(k) = m /\ \A i \in 1 .. m : k[i] = s[i]
  <2>1. \A i \in 1 .. m : s[i] \in V  BY <1>1, <1>4
  <2>2. /\ k \in Seq(V) /\ Len(k) = IF 1 <= m THEN m - 1 + 1 ELSE 0
        /\ \A i \in 1 .. m - 1 + 1 : k[i] = s[1 + i - 1]
    BY <1>1, <2>1, SubSeqProperties
  <2> HIDE DEF k
  <2>3. Len(k) = m  BY <1>1, <2>2
  <2>4. \A i \in 1 .. m : i \in 1 .. m - 1 + 1 /\ 1 + i - 1 = i  BY <1>1
  <2>5. \A i \in 1 .. m : k[i] = s[i]  BY <2>2, <2>4
  <2> QED  BY <2>2, <2>3, <2>5
<1>6. v = ValueAt(c, Len(c.stack)) /\ v \in V  BY <1>1, <1>2, <1>4
<1> HIDE DEF k, v
<1>7. /\ e \in Seq(V) /\ Len(e) = m
      /\ \A j \in 1 .. m : e[j] = IF j = x THEN v ELSE k[j]
  <2>1. x \in 1 .. Len(k)  BY <1>5
  <2> QED  BY <1>5, <1>6, <2>1, ExceptSeq
<1> HIDE DEF e
<1>8. \A j \in 1 .. Len(t) : t[j] = e[j]
  <2> TAKE j \in 1 .. Len(t)
  <2>1. j \in 1 .. m /\ j \in 1 .. Len(c.stack)  BY <1>1, <1>3
  <2>2. CASE j = x
    <3>1. ValueAt(d, x) = v  BY <1>6 DEF Assigned
    <3> QED  BY <1>3, <1>7, <2>1, <2>2, <3>1
  <2>3. CASE j # x
    <3>1. ValueAt(d, j) = ValueAt(c, j)  BY <2>1, <2>3 DEF Assigned, Intact
    <3> QED  BY <1>2, <1>3, <1>5, <1>7, <2>1, <2>3, <3>1
  <2> QED  BY <2>2, <2>3
<1>9. t = e  BY <1>3, <1>7, <1>8, SeqEqual
<1> QED  BY <1>9 DEF t, e, k, v, s

\* The values of a prefix.
LEMMA PrefixShape ==
  ASSUME NEW V, NEW s \in Seq(V), NEW m \in 0 .. Len(s)
  PROVE  /\ SubSeq(s, 1, m) \in Seq(V) /\ Len(SubSeq(s, 1, m)) = m
         /\ \A i \in 1 .. m : SubSeq(s, 1, m)[i] = s[i]
<1>1. s \in [1 .. Len(s) -> V] /\ Len(s) \in Nat  BY LenProperties
<1>2. \A i \in 1 .. m : s[i] \in V  BY <1>1
<1>3. /\ SubSeq(s, 1, m) \in Seq(V)
      /\ Len(SubSeq(s, 1, m)) = IF 1 <= m THEN m - 1 + 1 ELSE 0
      /\ \A i \in 1 .. m - 1 + 1 : SubSeq(s, 1, m)[i] = s[1 + i - 1]
  BY <1>1, <1>2, SubSeqProperties
<1>4. (IF 1 <= m THEN m - 1 + 1 ELSE 0) = m  BY <1>1
<1>5. \A i \in 1 .. m : i \in 1 .. m - 1 + 1 /\ 1 + i - 1 = i  BY <1>1
<1> QED  BY <1>3, <1>4, <1>5

\* The values above the lowest m.
LEMMA SuffixShape ==
  ASSUME NEW V, NEW s \in Seq(V), NEW m \in 0 .. Len(s)
  PROVE  /\ SubSeq(s, m + 1, Len(s)) \in Seq(V) /\ Len(SubSeq(s, m + 1, Len(s))) = Len(s) - m
         /\ \A i \in 1 .. Len(s) - m : SubSeq(s, m + 1, Len(s))[i] = s[m + i]
<1> DEFINE p == m + 1
           L == Len(s)
           k == SubSeq(s, p, L)
<1>1. s \in [1 .. L -> V] /\ L \in Nat /\ m \in Nat /\ m <= L  BY LenProperties
<1> HIDE DEF L
<1>2. p \in Int /\ L \in Int /\ p = m + 1 /\ \A i \in p .. L : i \in 1 .. L  BY <1>1
<1> HIDE DEF p
<1>3. \A i \in p .. L : s[i] \in V  BY <1>1, <1>2
<1>4. /\ k \in Seq(V) /\ Len(k) = IF p <= L THEN L - p + 1 ELSE 0
      /\ \A i \in 1 .. L - p + 1 : k[i] = s[p + i - 1]
  BY <1>2, <1>3, SubSeqProperties
<1> HIDE DEF k
<1>5. Len(k) = L - m  BY <1>1, <1>2, <1>4
<1>6. \A i \in 1 .. L - m : i \in 1 .. L - p + 1 /\ p + i - 1 = m + i  BY <1>1, <1>2
<1>7. \A i \in 1 .. L - m : k[i] = s[m + i]  BY <1>4, <1>6
<1> QED  BY <1>4, <1>5, <1>7 DEF k, p, L

=============================================================================
