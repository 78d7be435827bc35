-------------------------- MODULE StackTransferProofs --------------------------
(***************************************************************************)
(* Transfers between stacks of any height over any registers: whatever the *)
(* order of planning, the moves, cycles and loads that are emitted act as  *)
(* one simultaneous assignment.                                            *)
(***************************************************************************)
EXTENDS StackTransfer, RegisterCacheProofs

-----------------------------------------------------------------------------
(* The invariant. *)

\* Two slots of the target never take each other's source, and what Compatible
\* asks of the transfer.
PairsApart ==
  \A p, q \in pairs : /\ p.dst = q.dst \/ p.src = q.dst => p = q
                      /\ Compatible(p, q)

\* A register that a pending move reads is never taken for free.
Readers(r) == {d \in moves : from[d] = r}
Counts     == \A r \in Regs : Cardinality(Readers(r)) <= uses[r]

\* The recipe while it is executed.
RecipeOK ==
  /\ \A d \in moves : from[d] \in Regs /\ from[d] # d
  /\ moves \cap loads = {}
  /\ chain # NoReg => chain \in moves /\ uses[chain] = 0 /\ phase \in {"moves", "cycles"}
  /\ phase # "plan" => todo = {}
  /\ phase \in {"loads", "done"} => moves = {}
  /\ phase = "done" => loads = {}

\* The load that transfer_stack_slot plans for a pair.
LoadOf(p) == IF source[p.src].loc = "const" THEN ConstLoad(source[p.src].val)
             ELSE StackLoad(p.src)

\* Every move and every load comes from a pair that asked for it.
Asked ==
  phase = "plan" =>
    /\ regs = regs0 /\ spot = SourceHeight + 1
    /\ \A p \in todo : source[p.src].loc = "stack" => mem[p.src] = mem0[p.src]
    /\ \A d \in moves : \E p \in pairs \ todo :
         target[p.dst] = RegSlot(d) /\ source[p.src] = RegSlot(from[d])
    /\ \A d \in loads : \E p \in pairs \ todo :
         target[p.dst] = RegSlot(d) /\ source[p.src].loc # "reg" /\ load[d] = LoadOf(p)

\* Frame slots above the stack: one for every move is left.
LoadsBelow == \A d \in loads : \/ load[d].kind = "const"
                               \/ load[d].kind = "stack" /\ load[d].arg \in 1 .. spot - 1
RoomLeft   == spot + Cardinality(moves) <= SourceHeight + 1 + Cardinality(Regs)

\* A planned pair has its value, or it is on its way: in the register that a
\* pending move reads, or where a pending load reads it.
Loaded(d) == IF load[d].kind = "const" THEN load[d].arg ELSE mem[load[d].arg]
RegArrives(d, v) ==
  \/ d \in moves /\ regs[from[d]] = v
  \/ d \in loads /\ Loaded(d) = v
  \/ d \notin moves \cup loads /\ regs[d] = v
Arrives(p) ==
  /\ target[p.dst].loc = "reg" => RegArrives(target[p.dst].reg, Before(p.src))
  /\ target[p.dst].loc # "reg" => After(p.dst) = Before(p.src)
AllArrive == \A p \in pairs \ todo : Arrives(p)

IInv ==
  /\ TypeOK /\ PairsApart /\ Counts /\ RecipeOK /\ Asked /\ LoadsBelow /\ RoomLeft /\ AllArrive
  /\ ~Float => ok

-----------------------------------------------------------------------------
(* Facts about the parts. *)

LEMMA PairFields ==
  ASSUME NEW d, NEW s
  PROVE  Pair(d, s).dst = d /\ Pair(d, s).src = s
BY DEF Pair

LEMMA PairShape ==
  ASSUME NEW height \in 0 .. SourceHeight, NEW arity \in {0, 1}, arity <= height,
         NEW p \in PairsOf(height, arity)
  PROVE  /\ p = Pair(p.dst, p.src)
         /\ p.dst \in 1 .. height /\ p.src \in 1 .. SourceHeight
         /\ p.dst <= height - arity => p.src = p.dst
         /\ p.dst > height - arity => p.dst = height /\ p.src = SourceHeight
<1>1. CASE \E d \in 1 .. height - arity : p = Pair(d, d)
  <2>1. PICK d \in 1 .. height - arity : p = Pair(d, d)
    BY <1>1
  <2>2. d \in 1 .. height /\ d \in 1 .. SourceHeight
    BY StackTransferAssumption
  <2>3. p.dst = d /\ p.src = d
    BY <2>1, PairFields
  <2>4. p = Pair(p.dst, p.src)
    BY <2>1, <2>3
  <2>5. p.dst \in 1 .. height /\ p.src \in 1 .. SourceHeight
    BY <2>2, <2>3
  <2>6. p.src = p.dst /\ p.dst <= height - arity
    BY <2>2, <2>3
  <2> QED BY <2>4, <2>5, <2>6
<1>2. CASE \E d \in height - arity + 1 .. height : p = Pair(d, SourceHeight - height + d)
  <2>1. PICK d \in height - arity + 1 .. height : p = Pair(d, SourceHeight - height + d)
    BY <1>2
  <2>2. d = height /\ SourceHeight - height + d = SourceHeight /\ height \in 1 .. SourceHeight
    BY StackTransferAssumption
  <2>3. p.dst = d /\ p.src = SourceHeight - height + d
    BY <2>1, PairFields
  <2>4. height \in 1 .. height /\ SourceHeight \in 1 .. SourceHeight
    BY <2>2, StackTransferAssumption
  <2>5. p.dst = height /\ p.src = SourceHeight /\ p = Pair(p.dst, p.src)
    BY <2>1, <2>2, <2>3
  <2>6. ~(p.dst <= height - arity)
    BY <2>2, <2>5
  <2> QED BY <2>2, <2>4, <2>5, <2>6
<1> QED BY <1>1, <1>2 DEF PairsOf

LEMMA PairsOfApart ==
  ASSUME NEW height \in 0 .. SourceHeight, NEW arity \in {0, 1}, arity <= height,
         NEW p \in PairsOf(height, arity), NEW q \in PairsOf(height, arity),
         p.dst = q.dst \/ p.src = q.dst
  PROVE  p = q
<1>1. /\ p = Pair(p.dst, p.src) /\ q = Pair(q.dst, q.src)
      /\ p.dst \in 1 .. height /\ q.dst \in 1 .. height
      /\ p.dst <= height - arity => p.src = p.dst
      /\ p.dst > height - arity => p.dst = height /\ p.src = SourceHeight
      /\ q.dst <= height - arity => q.src = q.dst
      /\ q.dst > height - arity => q.dst = height /\ q.src = SourceHeight
  BY PairShape
<1>2. p.dst = q.dst
  BY <1>1
<1>3. p.src = q.src
  BY <1>1, <1>2
<1> QED BY <1>1, <1>2, <1>3

LEMMA RegsFinite ==
  ASSUME NEW S \in SUBSET Regs
  PROVE  /\ IsFiniteSet(S) /\ Cardinality(S) \in Nat
         /\ Cardinality(S) <= Cardinality(Regs) /\ Cardinality(Regs) \in Nat
BY RegsAssumption, FS_Subset, FS_CardinalityType

LEMMA InitInv == Init => IInv
<1> SUFFICES ASSUME Init PROVE IInv
  OBVIOUS
<1>1. PICK height \in 0 .. SourceHeight, arity \in {0, 1} :
        arity <= height /\ target \in [1 .. height -> Slot] /\ pairs = PairsOf(height, arity)
  BY DEF Init
<1>2. /\ todo = pairs /\ moves = {} /\ loads = {} /\ ok /\ phase = "plan" /\ chain = NoReg
      /\ regs = regs0 /\ mem = mem0 /\ spot = SourceHeight + 1 /\ next = 0
      /\ from = [r \in Regs |-> NoReg] /\ uses = [r \in Regs |-> 0]
      /\ load = [r \in Regs |-> NoLoad]
      /\ source \in [1 .. SourceHeight -> Slot]
      /\ regs0 \in [Regs -> Values] /\ mem0 \in [Frame -> Values]
      /\ \A p, q \in pairs : Compatible(p, q)
  BY DEF Init
<1>3. SourceHeight \in Nat /\ SourceHeight <= MaxHeight /\ MaxHeight \in Nat /\ Cardinality(Regs) \in Nat
  BY StackTransferAssumption, RegsAssumption, RegsFinite
<1>4. TypeOK
  <2>1. DOMAIN target = 1 .. height /\ 1 .. height \subseteq 1 .. SourceHeight
    BY <1>1, <1>3
  <2>2. pairs \subseteq [dst : DOMAIN target, src : 1 .. SourceHeight]
    BY <1>1, <2>1, PairShape DEF Pair
  <2>3. load \in [Regs -> Load]
    BY <1>2 DEF Load
  <2>4. spot \in SourceHeight + 1 .. MaxHeight + 1
    BY <1>2, <1>3
  <2> QED BY <1>1, <1>2, <2>1, <2>2, <2>3, <2>4 DEF TypeOK
<1>5. PairsApart
  BY <1>1, <1>2, PairsOfApart DEF PairsApart
<1>6. Counts
  <2>1. \A r \in Regs : Readers(r) = {}
    BY <1>2 DEF Readers
  <2>2. Cardinality({}) = 0
    BY FS_EmptySet
  <2>3. \A r \in Regs : uses[r] = 0
    BY <1>2
  <2> QED BY <2>1, <2>2, <2>3 DEF Counts
<1>7. RecipeOK /\ Asked /\ LoadsBelow /\ AllArrive
  BY <1>2 DEF RecipeOK, Asked, LoadsBelow, AllArrive
<1>8. RoomLeft
  BY <1>2, <1>3, FS_EmptySet DEF RoomLeft
<1> QED BY <1>2, <1>4, <1>5, <1>6, <1>7, <1>8 DEF IInv

-----------------------------------------------------------------------------
(* What the steps share. *)

LEMMA FixedStep ==
  ASSUME PairsApart, UNCHANGED fixed
  PROVE  PairsApart' /\ \A s : Before(s)' = Before(s)
BY DEF fixed, PairsApart, Compatible, Before

LEMMA PairTyped ==
  ASSUME TypeOK, NEW p \in pairs
  PROVE  /\ p.dst \in DOMAIN target /\ p.dst \in 1 .. SourceHeight /\ p.src \in 1 .. SourceHeight
         /\ p.dst \in Frame /\ p.src \in Frame
         /\ source[p.src] \in Slot /\ target[p.dst] \in Slot
         /\ Before(p.src) \in Values
<1>1. p \in [dst : DOMAIN target, src : 1 .. SourceHeight]
  BY DEF TypeOK
<1>2. /\ p.dst \in DOMAIN target /\ p.dst \in 1 .. SourceHeight /\ p.src \in 1 .. SourceHeight
      /\ source[p.src] \in Slot /\ target[p.dst] \in Slot
  BY <1>1 DEF TypeOK
<1>3. \A i \in 1 .. SourceHeight : i \in Frame
  BY StackTransferAssumption, RegsAssumption, RegsFinite DEF Frame
<1>4. p.src \in Frame
  BY <1>2, <1>3
<1>5. mem0[p.src] \in Values
  BY <1>4 DEF TypeOK
<1>6. source[p.src].loc = "reg" => regs0[source[p.src].reg] \in Values
  BY <1>2, SlotShape DEF TypeOK
<1>7. source[p.src].val \in Values
  BY <1>2, SlotShape
<1>8. Before(p.src) \in Values
  BY <1>5, <1>6, <1>7 DEF Before
<1> QED BY <1>2, <1>3, <1>8

LEMMA SameTarget ==
  ASSUME PairsApart, NEW p \in pairs, NEW q \in pairs, p # q,
         target[p.dst].loc = "reg", target[q.dst] = target[p.dst]
  PROVE  /\ source[p.src] = source[q.src] /\ source[p.src].loc # "const"
         /\ Before(p.src) = Before(q.src)
BY DEF PairsApart, Compatible

LEMMA LoadShape ==
  ASSUME NEW x \in Load
  PROVE  /\ x.kind = "const" => x.arg \in Values
         /\ x.kind = "stack" => x.arg \in Frame
BY DEF Load, NoLoad, ConstLoad, StackLoad

\* A slot that names a register is no other slot.
LEMMA RegSlotFields ==
  ASSUME NEW r
  PROVE  RegSlot(r).loc = "reg" /\ RegSlot(r).reg = r
BY DEF RegSlot

\* While the recipe is planned: a register is the target of one kind of source.
LEMMA TakenTarget ==
  ASSUME IInv, phase = "plan", NEW q \in todo, target[q.dst].loc = "reg"
  PROVE  LET dst == target[q.dst].reg
         IN  /\ dst \in Regs /\ target[q.dst] = RegSlot(dst)
             /\ dst \in moves => source[q.src] = RegSlot(from[dst])
             /\ dst \in loads => source[q.src].loc = "stack"
<1> DEFINE dst == target[q.dst].reg
<1>1. q \in pairs
  BY DEF IInv, TypeOK
<1>2. dst \in Regs /\ target[q.dst] = RegSlot(dst)
  BY <1>1, PairTyped, SlotShape DEF IInv
<1>3. ASSUME dst \in moves PROVE source[q.src] = RegSlot(from[dst])
  <2>1. PICK p \in pairs \ todo : target[p.dst] = RegSlot(dst) /\ source[p.src] = RegSlot(from[dst])
    BY <1>3 DEF IInv, Asked
  <2> QED BY <1>1, <1>2, <2>1, SameTarget DEF IInv
<1>4. ASSUME dst \in loads PROVE source[q.src].loc = "stack"
  <2>1. PICK p \in pairs \ todo : target[p.dst] = RegSlot(dst) /\ source[p.src].loc # "reg"
    BY <1>4 DEF IInv, Asked
  <2>2. source[p.src] = source[q.src] /\ source[p.src].loc # "const"
    BY <1>1, <1>2, <2>1, SameTarget DEF IInv
  <2>3. source[q.src].loc \in {"stack", "reg", "const"}
    BY <1>1, PairTyped, SlotShape DEF IInv
  <2> QED BY <2>1, <2>2, <2>3
<1> QED BY <1>2, <1>3, <1>4

-----------------------------------------------------------------------------
(* Steps that change the phase only. *)

LEMMA PhaseStep ==
  ASSUME IInv, Planned \/ EndSweep \/ EndMoves \/ EndLoads
  PROVE  IInv'
<1>1. UNCHANGED <<fixed, todo, moving, loading, next, chain, spot, ok, regs, mem>>
  BY DEF Planned, EndSweep, EndMoves, EndLoads
<1>2. PairsApart' /\ \A s : Before(s)' = Before(s)
  BY <1>1, FixedStep DEF IInv
<1>3. TypeOK'
  BY <1>1 DEF IInv, TypeOK, fixed, moving, loading, Planned, EndSweep, EndMoves, EndLoads
<1>4. Counts' /\ LoadsBelow' /\ RoomLeft'
  BY <1>1 DEF IInv, Counts, Readers, LoadsBelow, RoomLeft, moving, loading
<1>5. RecipeOK'
  BY <1>1 DEF IInv, RecipeOK, moving, loading, Planned, EndSweep, EndMoves, EndLoads
<1>6. Asked'
  BY DEF Asked, Planned, EndSweep, EndMoves, EndLoads
<1>7. AllArrive'
  BY <1>1, <1>2 DEF IInv, AllArrive, Arrives, RegArrives, Loaded, After, fixed, moving, loading
<1> QED BY <1>1, <1>2, <1>3, <1>4, <1>5, <1>6, <1>7 DEF IInv

-----------------------------------------------------------------------------
(* Steps that plan a pair. *)

LEMMA StoreInFrameInv ==
  ASSUME IInv, NEW q \in todo, StoreInFrame(q)
  PROVE  IInv'
<1>1. /\ UNCHANGED <<fixed, position, regs, moving, loading, ok>>
      /\ phase = "plan" /\ todo' = todo \ {q} /\ target[q.dst].loc = "stack"
  BY DEF StoreInFrame, Plan
<1>2. PairsApart' /\ \A s : Before(s)' = Before(s)
  BY <1>1, FixedStep DEF IInv
<1>3. q \in pairs /\ TypeOK
  BY DEF IInv, TypeOK
<1>4. PICK v : /\ mem' = [mem EXCEPT ![q.dst] = v]
               /\ v = IF source[q.src].loc = "reg" THEN regs[source[q.src].reg]
                      ELSE IF source[q.src].loc = "const" THEN source[q.src].val ELSE mem[q.src]
  BY DEF StoreInFrame
<1>5. v = Before(q.src)
  <2>1. regs = regs0 /\ (source[q.src].loc = "stack" => mem[q.src] = mem0[q.src])
    BY <1>1 DEF IInv, Asked
  <2>2. source[q.src].loc \in {"stack", "reg", "const"}
    BY <1>3, PairTyped, SlotShape
  <2> QED BY <1>4, <2>1, <2>2 DEF Before
<1>6. /\ q.dst \in Frame /\ v \in Values /\ mem \in [Frame -> Values]
      /\ mem'[q.dst] = v /\ \A i \in Frame \ {q.dst} : mem'[i] = mem[i]
  <2>1. q.dst \in Frame /\ v \in Values
    BY <1>3, <1>5, PairTyped
  <2>2. mem \in [Frame -> Values]
    BY <1>3 DEF TypeOK
  <2> QED BY <1>4, <2>1, <2>2
<1>7. ASSUME NEW p \in pairs, p # q
      PROVE  /\ p.dst \in Frame /\ mem'[p.dst] = mem[p.dst]
             /\ p.src \in Frame /\ mem'[p.src] = mem[p.src]
  <2>1. p.dst # q.dst /\ p.src # q.dst
    BY <1>3, <1>7 DEF IInv, PairsApart
  <2>2. p.dst \in Frame /\ p.src \in Frame
    BY <1>3, PairTyped
  <2> QED BY <1>6, <2>1, <2>2
<1>8. TypeOK'
  <2>1. mem' \in [Frame -> Values]
    BY <1>4, <1>6
  <2> QED BY <1>1, <1>3, <2>1 DEF TypeOK, fixed, moving, loading, position
<1>9. Counts' /\ LoadsBelow' /\ RoomLeft'
  BY <1>1 DEF IInv, Counts, Readers, LoadsBelow, RoomLeft, moving, loading, position
<1>10. RecipeOK'
  BY <1>1 DEF IInv, RecipeOK, moving, loading, position
<1>11. todo' \subseteq todo /\ q \notin todo' /\ pairs \ todo' = (pairs \ todo) \cup {q}
       /\ todo \subseteq pairs
  BY <1>1, <1>3 DEF TypeOK
<1>12. Asked'
  <2>1. \A p \in todo' : source[p.src].loc = "stack" => mem'[p.src] = mem0[p.src]
    <3> SUFFICES ASSUME NEW p \in todo', source[p.src].loc = "stack"
                 PROVE  mem'[p.src] = mem0[p.src]
      OBVIOUS
    <3>1. mem[p.src] = mem0[p.src]
      BY <1>1, <1>11 DEF IInv, Asked
    <3>2. p \in pairs /\ p # q
      BY <1>11
    <3> QED BY <1>7, <3>1, <3>2
  <2>2. /\ regs = regs0 /\ spot = SourceHeight + 1
        /\ \A d \in moves : \E p \in pairs \ todo' :
             target[p.dst] = RegSlot(d) /\ source[p.src] = RegSlot(from[d])
        /\ \A d \in loads : \E p \in pairs \ todo' :
             target[p.dst] = RegSlot(d) /\ source[p.src].loc # "reg" /\ load[d] = LoadOf(p)
    BY <1>1, <1>11 DEF IInv, Asked
  <2> QED BY <1>1, <2>1, <2>2 DEF Asked, LoadOf, fixed, moving, loading, position
<1>13. AllArrive'
  <2> SUFFICES ASSUME NEW p \in pairs \ todo' PROVE Arrives(p)'
    BY <1>1 DEF AllArrive, fixed
  <2>1. CASE p = q
    <3>1. After(q.dst)' = v
      BY <1>1, <1>6 DEF After, fixed
    <3> QED BY <1>1, <1>2, <1>5, <2>1, <3>1 DEF Arrives, fixed
  <2>2. CASE p # q
    <3>1. p \in pairs /\ Arrives(p)
      BY <1>11, <2>2 DEF IInv, AllArrive
    <3>2. CASE target[p.dst].loc # "reg"
      BY <1>1, <1>2, <1>7, <2>2, <3>1, <3>2 DEF Arrives, After, fixed
    <3>3. CASE target[p.dst].loc = "reg"
      <4>1. ASSUME NEW d \in loads PROVE Loaded(d)' = Loaded(d)
        <5>1. PICK o \in pairs \ todo : source[o.src].loc # "reg" /\ load[d] = LoadOf(o)
          BY <1>1, <4>1 DEF IInv, Asked
        <5>2. o \in pairs /\ o # q
          BY <5>1
        <5>3. mem'[o.src] = mem[o.src]
          BY <1>7, <5>2
        <5>4. load[d].kind = "const" \/ load[d].arg = o.src
          BY <5>1 DEF LoadOf, ConstLoad, StackLoad
        <5> QED BY <1>1, <5>3, <5>4 DEF Loaded, loading
      <4>2. RegArrives(target[p.dst].reg, Before(p.src))
        BY <3>1, <3>3 DEF Arrives
      <4>3. RegArrives(target[p.dst].reg, Before(p.src))'
        BY <1>1, <1>2, <4>1, <4>2 DEF RegArrives, moving, loading, fixed
      <4> QED BY <1>1, <3>3, <4>3 DEF Arrives, fixed
    <3> QED BY <3>2, <3>3
  <2> QED BY <2>1, <2>2
<1> QED BY <1>1, <1>2, <1>8, <1>9, <1>10, <1>12, <1>13 DEF IInv

LEMMA KeepConstantInv ==
  ASSUME IInv, NEW q \in todo, KeepConstant(q)
  PROVE  IInv'
<1>1. /\ UNCHANGED <<fixed, position, regs, moving, loading, mem>>
      /\ phase = "plan" /\ todo' = todo \ {q} /\ target[q.dst].loc = "const"
      /\ ok' = (ok /\ source[q.src].val = target[q.dst].val)
  BY DEF KeepConstant, Plan
<1>2. PairsApart' /\ \A s : Before(s)' = Before(s)
  BY <1>1, FixedStep DEF IInv
<1>3. q \in pairs /\ TypeOK
  BY DEF IInv, TypeOK
<1>4. source[q.src] = target[q.dst]
  BY <1>1, <1>3 DEF IInv, PairsApart, Compatible
<1>5. TypeOK'
  BY <1>1, <1>3 DEF TypeOK, fixed, moving, loading, position
<1>6. Counts' /\ LoadsBelow' /\ RoomLeft'
  BY <1>1 DEF IInv, Counts, Readers, LoadsBelow, RoomLeft, moving, loading, position
<1>7. RecipeOK'
  BY <1>1 DEF IInv, RecipeOK, moving, loading, position
<1>8. pairs \ todo' = (pairs \ todo) \cup {q}
  BY <1>1, <1>3
<1>9. Asked'
  BY <1>1, <1>8 DEF IInv, Asked, LoadOf, fixed, moving, loading, position
<1>10. AllArrive'
  <2> SUFFICES ASSUME NEW p \in pairs \ todo' PROVE Arrives(p)'
    BY <1>1 DEF AllArrive, fixed
  <2>1. CASE p = q
    <3>1. After(q.dst)' = target[q.dst].val /\ Before(q.src) = source[q.src].val
      BY <1>1, <1>4 DEF After, Before, fixed
    <3> QED BY <1>1, <1>2, <1>4, <2>1, <3>1 DEF Arrives, fixed
  <2>2. CASE p # q
    <3>1. Arrives(p)
      BY <1>8, <2>2 DEF IInv, AllArrive
    <3> QED BY <1>1, <1>2, <3>1
            DEF Arrives, RegArrives, Loaded, After, fixed, moving, loading
  <2> QED BY <2>1, <2>2
<1> QED BY <1>1, <1>2, <1>4, <1>5, <1>6, <1>7, <1>9, <1>10 DEF IInv

\* The pair that is planned last is the only new one.
LEMMA PlanStep ==
  ASSUME IInv, NEW q \in todo, Plan(q)
  PROVE  /\ UNCHANGED <<fixed, position, regs>> /\ phase = "plan"
         /\ todo' = todo \ {q} /\ todo' \subseteq todo /\ q \in pairs
         /\ pairs \ todo' = (pairs \ todo) \cup {q}
         /\ PairsApart' /\ \A s : Before(s)' = Before(s)
<1>1. UNCHANGED <<fixed, position, regs>> /\ phase = "plan" /\ todo' = todo \ {q}
  BY DEF Plan
<1>2. q \in pairs
  BY DEF IInv, TypeOK
<1>3. PairsApart' /\ \A s : Before(s)' = Before(s)
  BY <1>1, FixedStep DEF IInv
<1> QED BY <1>1, <1>2, <1>3

LEMMA MoveRegisterInv ==
  ASSUME IInv, NEW q \in todo, MoveRegister(q)
  PROVE  IInv'
<1>1. /\ UNCHANGED <<fixed, position, regs>> /\ phase = "plan"
      /\ todo' = todo \ {q} /\ todo' \subseteq todo /\ q \in pairs
      /\ pairs \ todo' = (pairs \ todo) \cup {q}
      /\ PairsApart' /\ \A s : Before(s)' = Before(s)
  <2>1. Plan(q)
    BY DEF MoveRegister
  <2> QED BY <2>1, PlanStep
<1>2. UNCHANGED <<loading, mem>> /\ target[q.dst].loc = "reg" /\ source[q.src].loc = "reg"
  BY DEF MoveRegister
<1>3. PICK dst, src : /\ dst = target[q.dst].reg /\ src = source[q.src].reg
                      /\ dst \in Regs /\ src \in Regs
                      /\ target[q.dst] = RegSlot(dst) /\ source[q.src] = RegSlot(src)
  BY <1>1, <1>2, PairTyped, SlotShape DEF IInv
<1>4. TypeOK /\ regs = regs0 /\ Before(q.src) = regs[src]
  BY <1>1, <1>2, <1>3 DEF IInv, Asked, Before
<1>5. dst \notin loads /\ (dst \in moves => from[dst] = src)
  <2>1. dst \in moves => source[q.src] = RegSlot(from[dst])
    BY <1>1, <1>2, <1>3, TakenTarget
  <2>2. dst \in loads => source[q.src].loc = "stack"
    BY <1>1, <1>2, <1>3, TakenTarget
  <2> QED BY <1>2, <1>3, <2>1, <2>2, RegSlotFields
<1>6. CASE dst = src
  <2>1. UNCHANGED <<moving, ok>>
    BY <1>3, <1>6 DEF MoveRegister
  <2>2. dst \notin moves
    BY <1>5, <1>6 DEF IInv, RecipeOK
  <2>3. TypeOK'
    BY <1>1, <1>2, <1>4, <2>1 DEF TypeOK, fixed, moving, loading, position
  <2>4. Counts' /\ LoadsBelow' /\ RoomLeft'
    BY <1>1, <1>2, <2>1 DEF IInv, Counts, Readers, LoadsBelow, RoomLeft, moving, loading, position
  <2>5. RecipeOK'
    BY <1>1, <1>2, <2>1 DEF IInv, RecipeOK, moving, loading, position
  <2>6. Asked'
    BY <1>1, <1>2, <2>1 DEF IInv, Asked, LoadOf, fixed, moving, loading, position
  <2>7. AllArrive'
    <3> SUFFICES ASSUME NEW p \in pairs \ todo' PROVE Arrives(p)'
      BY <1>1 DEF AllArrive, fixed
    <3>1. CASE p = q
      <4>1. RegArrives(dst, Before(q.src))'
        BY <1>1, <1>2, <1>4, <1>5, <1>6, <2>1, <2>2 DEF RegArrives, moving, loading
      <4> QED BY <1>1, <1>2, <1>3, <3>1, <4>1 DEF Arrives, fixed
    <3>2. CASE p # q
      <4>1. Arrives(p)
        BY <1>1, <3>2 DEF IInv, AllArrive
      <4> QED BY <1>1, <1>2, <2>1, <4>1
              DEF Arrives, RegArrives, Loaded, After, fixed, moving, loading
    <3> QED BY <3>1, <3>2
  <2> QED BY <1>1, <2>1, <2>3, <2>4, <2>5, <2>6, <2>7 DEF IInv
<1>7. CASE dst # src
  <2>1. /\ moves' = moves \cup {dst}
        /\ from' = [from EXCEPT ![dst] = src]
        /\ uses' = [uses EXCEPT ![src] = @ + 1]
        /\ ok' = (ok /\ (dst \in moves => from[dst] = src /\ ~Float))
    BY <1>3, <1>7 DEF MoveRegister
  <2>2. /\ from' \in [Regs -> Regs \cup {NoReg}] /\ from'[dst] = src
        /\ \A r \in Regs \ {dst} : from'[r] = from[r]
    BY <1>3, <1>4, <2>1 DEF TypeOK
  <2>3. /\ uses' \in [Regs -> Nat] /\ uses'[src] = uses[src] + 1 /\ uses \in [Regs -> Nat]
        /\ \A r \in Regs \ {src} : uses'[r] = uses[r]
    <3>1. uses \in [Regs -> Nat] /\ uses[src] + 1 \in Nat
      BY <1>3, <1>4 DEF TypeOK
    <3>2. uses' = [uses EXCEPT ![src] = uses[src] + 1]
      BY <2>1
    <3> QED BY <1>3, <3>1, <3>2
  <2>4. moves \subseteq Regs /\ moves' \subseteq Regs
    BY <1>3, <1>4, <2>1 DEF TypeOK
  <2>5. TypeOK'
    <3>1. ok' \in BOOLEAN
      BY <2>1
    <3> QED BY <1>1, <1>2, <1>4, <2>2, <2>3, <2>4, <3>1 DEF TypeOK, fixed, loading, position
  <2>6. Counts'
    <3> SUFFICES ASSUME NEW r \in Regs PROVE Cardinality(Readers(r)') <= uses'[r]
      BY DEF Counts
    <3>1. Cardinality(Readers(r)) <= uses[r]
      BY DEF IInv, Counts
    <3>2. IsFiniteSet(Readers(r)) /\ Cardinality(Readers(r)) \in Nat
      <4>1. Readers(r) \subseteq Regs
        BY <2>4 DEF Readers
      <4> QED BY <4>1, RegsFinite
    <3>3. CASE r = src
      <4>1. Readers(r)' = Readers(r) \cup {dst}
        BY <1>5, <2>1, <2>2, <2>4, <3>3 DEF Readers
      <4>2. Cardinality(Readers(r) \cup {dst}) <= Cardinality(Readers(r)) + 1
        BY <3>2, FS_AddElement
      <4>3. Cardinality(Readers(r) \cup {dst}) \in Nat
        BY <3>2, FS_AddElement, FS_CardinalityType
      <4>4. uses'[r] = uses[r] + 1 /\ uses[r] \in Nat
        BY <2>3, <3>3
      <4> QED BY <3>1, <3>2, <4>1, <4>2, <4>3, <4>4
    <3>4. CASE r # src
      <4>1. Readers(r)' = Readers(r)
        BY <1>5, <2>1, <2>2, <2>4, <3>4 DEF Readers
      <4> QED BY <2>3, <3>1, <3>4, <4>1
    <3> QED BY <3>3, <3>4
  <2>7. LoadsBelow'
    BY <1>1, <1>2 DEF IInv, LoadsBelow, loading, position
  <2>8. RoomLeft'
    <3>1. Cardinality(moves') \in Nat /\ Cardinality(moves') <= Cardinality(Regs) /\ Cardinality(Regs) \in Nat
      BY <2>4, RegsFinite
    <3>2. spot' = SourceHeight + 1 /\ SourceHeight \in Nat
      BY <1>1, StackTransferAssumption DEF IInv, Asked, position
    <3> QED BY <3>1, <3>2 DEF RoomLeft
  <2>9. RecipeOK'
    <3>1. \A d \in moves' : from'[d] \in Regs /\ from'[d] # d
      BY <1>3, <1>7, <2>1, <2>2, <2>4 DEF IInv, RecipeOK
    <3>2. moves' \cap loads' = {}
      BY <1>2, <1>5, <2>1 DEF IInv, RecipeOK, loading
    <3>3. phase' = "plan" /\ chain' = NoReg
      BY <1>1 DEF IInv, RecipeOK, position
    <3> QED BY <3>1, <3>2, <3>3 DEF RecipeOK
  <2>10. Asked'
    <3>1. \A d \in moves' : \E p \in pairs \ todo' :
             target[p.dst] = RegSlot(d) /\ source[p.src] = RegSlot(from'[d])
      <4> TAKE d \in moves'
      <4>1. CASE d = dst
        <5>1. q \in pairs \ todo'
          BY <1>1
        <5> QED BY <1>3, <2>2, <4>1, <5>1
      <4>2. CASE d # dst
        <5>1. d \in moves /\ from'[d] = from[d]
          BY <2>1, <2>2, <2>4, <4>2
        <5>2. PICK p \in pairs \ todo : target[p.dst] = RegSlot(d) /\ source[p.src] = RegSlot(from[d])
          BY <1>1, <5>1 DEF IInv, Asked
        <5>3. p \in pairs \ todo'
          BY <1>1
        <5> QED BY <5>1, <5>2, <5>3
      <4> QED BY <4>1, <4>2
    <3>2. /\ \A p \in todo' : source[p.src].loc = "stack" => mem[p.src] = mem0[p.src]
          /\ \A d \in loads : \E p \in pairs \ todo' :
               target[p.dst] = RegSlot(d) /\ source[p.src].loc # "reg" /\ load[d] = LoadOf(p)
          /\ spot = SourceHeight + 1
      BY <1>1 DEF IInv, Asked
    <3> QED BY <1>1, <1>2, <1>4, <3>1, <3>2 DEF Asked, LoadOf, fixed, loading, position
  <2>11. AllArrive'
    <3> SUFFICES ASSUME NEW p \in pairs \ todo' PROVE Arrives(p)'
      BY <1>1 DEF AllArrive, fixed
    <3>1. RegArrives(dst, Before(q.src))'
      BY <1>1, <1>3, <1>4, <2>1, <2>2 DEF RegArrives
    <3>2. CASE p = q
      BY <1>1, <1>2, <1>3, <3>1, <3>2 DEF Arrives, fixed
    <3>3. CASE p # q
      <4>1. Arrives(p) /\ p \in pairs
        BY <1>1, <3>3 DEF IInv, AllArrive
      <4>2. CASE target[p.dst].loc # "reg"
        BY <1>1, <1>2, <4>1, <4>2 DEF Arrives, After, fixed
      <4>3. CASE target[p.dst].loc = "reg" /\ target[p.dst].reg = dst
        <5>1. target[p.dst] = target[q.dst]
          BY <1>3, <4>1, <4>3, PairTyped, SlotShape DEF IInv
        <5>2. Before(p.src) = Before(q.src)
          BY <1>1, <3>3, <4>1, <4>3, <5>1, SameTarget DEF IInv
        <5> QED BY <1>1, <3>1, <4>3, <5>2 DEF Arrives, fixed
      <4>4. CASE target[p.dst].loc = "reg" /\ target[p.dst].reg # dst
        <5>1. PICK r : r = target[p.dst].reg /\ r \in Regs /\ r # dst
          BY <4>1, <4>4, PairTyped, SlotShape DEF IInv
        <5>2. RegArrives(r, Before(p.src))
          BY <4>1, <4>4, <5>1 DEF Arrives
        <5>3. RegArrives(r, Before(p.src))'
          BY <1>1, <1>2, <2>1, <2>2, <5>1, <5>2 DEF RegArrives, Loaded, loading
        <5> QED BY <1>1, <4>4, <5>1, <5>3 DEF Arrives, fixed
      <4> QED BY <4>2, <4>3, <4>4
    <3> QED BY <3>2, <3>3
  <2>12. ~Float => ok'
    BY <1>5, <2>1 DEF IInv
  <2> QED BY <1>1, <2>5, <2>6, <2>7, <2>8, <2>9, <2>10, <2>11, <2>12 DEF IInv
<1> QED BY <1>6, <1>7

LEMMA LoadConstInv ==
  ASSUME IInv, NEW q \in todo, LoadConst(q)
  PROVE  IInv'
<1>1. /\ UNCHANGED <<fixed, position, regs>> /\ phase = "plan"
      /\ todo' = todo \ {q} /\ todo' \subseteq todo /\ q \in pairs
      /\ pairs \ todo' = (pairs \ todo) \cup {q}
      /\ PairsApart' /\ \A s : Before(s)' = Before(s)
  <2>1. Plan(q)
    BY DEF LoadConst
  <2> QED BY <2>1, PlanStep
<1>2. UNCHANGED <<moving, mem>> /\ target[q.dst].loc = "reg" /\ source[q.src].loc = "const"
  BY DEF LoadConst
<1>3. PICK dst : dst = target[q.dst].reg /\ dst \in Regs /\ target[q.dst] = RegSlot(dst)
  BY <1>1, <1>2, TakenTarget
<1>4. dst \notin moves /\ dst \notin loads
  <2>1. dst \in moves => source[q.src] = RegSlot(from[dst])
    BY <1>1, <1>2, <1>3, TakenTarget
  <2>2. dst \in loads => source[q.src].loc = "stack"
    BY <1>1, <1>2, <1>3, TakenTarget
  <2> QED BY <1>2, <2>1, <2>2, RegSlotFields
<1>5. PICK v \in Values : v = source[q.src].val /\ v = Before(q.src)
  BY <1>1, <1>2, PairTyped, SlotShape DEF IInv, Before
<1>6. /\ loads' = loads \cup {dst} /\ load' = [load EXCEPT ![dst] = ConstLoad(v)]
      /\ ok' = (ok /\ dst \notin loads)
  BY <1>3, <1>5 DEF LoadConst
<1>7. TypeOK /\ load \in [Regs -> Load] /\ loads \subseteq Regs
  BY DEF IInv, TypeOK
<1>8. /\ load' \in [Regs -> Load] /\ load'[dst] = ConstLoad(v)
      /\ \A r \in Regs \ {dst} : load'[r] = load[r]
  <2>1. ConstLoad(v) \in Load
    BY <1>5 DEF Load
  <2> QED BY <1>3, <1>6, <1>7, <2>1
<1>9. TypeOK'
  <2>1. loads' \subseteq Regs /\ ok' \in BOOLEAN
    BY <1>3, <1>6, <1>7
  <2> QED BY <1>1, <1>2, <1>7, <1>8, <2>1 DEF TypeOK, fixed, moving, position
<1>10. Counts' /\ RoomLeft'
  BY <1>1, <1>2 DEF IInv, Counts, Readers, RoomLeft, moving, position
<1>11. LoadsBelow'
  BY <1>1, <1>6, <1>7, <1>8 DEF IInv, LoadsBelow, ConstLoad, position
<1>12. RecipeOK'
  BY <1>1, <1>2, <1>4, <1>6 DEF IInv, RecipeOK, moving, position
<1>13. Asked'
  <2>1. \A d \in loads' : \E p \in pairs \ todo' :
          target[p.dst] = RegSlot(d) /\ source[p.src].loc # "reg" /\ load'[d] = LoadOf(p)
    <3> TAKE d \in loads'
    <3>1. CASE d = dst
      <4>1. q \in pairs \ todo'
        BY <1>1
      <4> QED BY <1>2, <1>3, <1>5, <1>8, <3>1, <4>1 DEF LoadOf
    <3>2. CASE d # dst
      <4>1. d \in loads /\ load'[d] = load[d]
        BY <1>6, <1>7, <1>8, <3>2
      <4>2. PICK p \in pairs \ todo :
              target[p.dst] = RegSlot(d) /\ source[p.src].loc # "reg" /\ load[d] = LoadOf(p)
        BY <1>1, <4>1 DEF IInv, Asked
      <4>3. p \in pairs \ todo'
        BY <1>1
      <4> QED BY <4>1, <4>2, <4>3
    <3> QED BY <3>1, <3>2
  <2>2. /\ \A p \in todo' : source[p.src].loc = "stack" => mem[p.src] = mem0[p.src]
        /\ \A d \in moves : \E p \in pairs \ todo' :
             target[p.dst] = RegSlot(d) /\ source[p.src] = RegSlot(from[d])
        /\ regs = regs0 /\ spot = SourceHeight + 1
    BY <1>1 DEF IInv, Asked
  <2> QED BY <1>1, <1>2, <2>1, <2>2 DEF Asked, LoadOf, fixed, moving, position
<1>14. AllArrive'
  <2> SUFFICES ASSUME NEW p \in pairs \ todo' PROVE Arrives(p)'
    BY <1>1 DEF AllArrive, fixed
  <2>1. CASE p = q
    <3>1. RegArrives(dst, Before(q.src))'
      BY <1>1, <1>5, <1>6, <1>8 DEF RegArrives, Loaded, ConstLoad
    <3> QED BY <1>1, <1>2, <1>3, <2>1, <3>1 DEF Arrives, fixed
  <2>2. CASE p # q
    <3>1. Arrives(p) /\ p \in pairs
      BY <1>1, <2>2 DEF IInv, AllArrive
    <3>2. CASE target[p.dst].loc # "reg"
      BY <1>1, <1>2, <3>1, <3>2 DEF Arrives, After, fixed
    <3>3. CASE target[p.dst].loc = "reg"
      <4>1. PICK r : r = target[p.dst].reg /\ r \in Regs /\ target[p.dst] = RegSlot(r)
        BY <3>1, <3>3, PairTyped, SlotShape DEF IInv
      <4>2. r # dst
        BY <1>1, <1>2, <1>3, <2>2, <3>1, <3>3, <4>1, SameTarget DEF IInv
      <4>3. RegArrives(r, Before(p.src))
        BY <3>1, <3>3, <4>1 DEF Arrives
      <4>4. RegArrives(r, Before(p.src))'
        BY <1>1, <1>2, <1>6, <1>8, <4>1, <4>2, <4>3 DEF RegArrives, Loaded, moving
      <4> QED BY <1>1, <3>3, <4>1, <4>4 DEF Arrives, fixed
    <3> QED BY <3>2, <3>3
  <2> QED BY <2>1, <2>2
<1>15. ~Float => ok'
  BY <1>4, <1>6 DEF IInv
<1> QED BY <1>1, <1>9, <1>10, <1>11, <1>12, <1>13, <1>14, <1>15 DEF IInv

LEMMA LoadStackSlotInv ==
  ASSUME IInv, NEW q \in todo, LoadStackSlot(q)
  PROVE  IInv'
<1>1. /\ UNCHANGED <<fixed, position, regs>> /\ phase = "plan"
      /\ todo' = todo \ {q} /\ todo' \subseteq todo /\ q \in pairs
      /\ pairs \ todo' = (pairs \ todo) \cup {q}
      /\ PairsApart' /\ \A s : Before(s)' = Before(s)
  <2>1. Plan(q)
    BY DEF LoadStackSlot
  <2> QED BY <2>1, PlanStep
<1>2. UNCHANGED <<moving, mem, ok>> /\ target[q.dst].loc = "reg" /\ source[q.src].loc = "stack"
  BY DEF LoadStackSlot
<1>3. PICK dst : dst = target[q.dst].reg /\ dst \in Regs /\ target[q.dst] = RegSlot(dst)
  BY <1>1, <1>2, TakenTarget
<1>4. dst \notin moves
  <2>1. dst \in moves => source[q.src] = RegSlot(from[dst])
    BY <1>1, <1>2, <1>3, TakenTarget
  <2> QED BY <1>2, <2>1, RegSlotFields
<1>5. q.src \in Frame /\ q.src \in 1 .. SourceHeight /\ mem[q.src] = Before(q.src)
  <2>1. mem[q.src] = mem0[q.src]
    BY <1>1, <1>2 DEF IInv, Asked
  <2> QED BY <1>1, <1>2, <2>1, PairTyped DEF IInv, Before
<1>6. /\ loads' = loads \cup {dst}
      /\ load' = IF dst \in loads THEN load ELSE [load EXCEPT ![dst] = StackLoad(q.src)]
  BY <1>3 DEF LoadStackSlot, AddStackLoad
<1>7. TypeOK /\ load \in [Regs -> Load] /\ loads \subseteq Regs
  BY DEF IInv, TypeOK
<1>8. /\ load' \in [Regs -> Load]
      /\ \A r \in Regs \ {dst} : load'[r] = load[r]
      /\ dst \in loads => load'[dst] = load[dst]
      /\ dst \notin loads => load'[dst] = StackLoad(q.src)
  <2>1. StackLoad(q.src) \in Load
    BY <1>5 DEF Load
  <2>2. CASE dst \in loads
    BY <1>6, <1>7, <2>2
  <2>3. CASE dst \notin loads
    BY <1>3, <1>6, <1>7, <2>1, <2>3
  <2> QED BY <2>2, <2>3
<1>9. TypeOK'
  <2>1. loads' \subseteq Regs
    BY <1>3, <1>6, <1>7
  <2> QED BY <1>1, <1>2, <1>7, <1>8, <2>1 DEF TypeOK, fixed, moving, position
<1>10. Counts' /\ RoomLeft'
  BY <1>1, <1>2 DEF IInv, Counts, Readers, RoomLeft, moving, position
<1>11. LoadsBelow'
  <2>1. SourceHeight = spot - 1 /\ spot' = spot
    BY <1>1, StackTransferAssumption DEF IInv, Asked, position
  <2>2. StackLoad(q.src).kind = "stack" /\ StackLoad(q.src).arg \in 1 .. spot - 1
    BY <1>5, <2>1 DEF StackLoad
  <2> QED BY <1>6, <1>7, <1>8, <2>1, <2>2 DEF IInv, LoadsBelow
<1>12. RecipeOK'
  BY <1>1, <1>2, <1>4, <1>6 DEF IInv, RecipeOK, moving, position
<1>13. Asked'
  <2>1. \A d \in loads' : \E p \in pairs \ todo' :
          target[p.dst] = RegSlot(d) /\ source[p.src].loc # "reg" /\ load'[d] = LoadOf(p)
    <3> TAKE d \in loads'
    <3>1. CASE d \notin loads
      <4>1. q \in pairs \ todo' /\ d = dst
        BY <1>1, <1>6, <3>1
      <4> QED BY <1>2, <1>3, <1>8, <3>1, <4>1 DEF LoadOf
    <3>2. CASE d \in loads
      <4>1. load'[d] = load[d]
        BY <1>7, <1>8, <3>2
      <4>2. PICK p \in pairs \ todo :
              target[p.dst] = RegSlot(d) /\ source[p.src].loc # "reg" /\ load[d] = LoadOf(p)
        BY <1>1, <3>2 DEF IInv, Asked
      <4>3. p \in pairs \ todo'
        BY <1>1
      <4> QED BY <4>1, <4>2, <4>3
    <3> QED BY <3>1, <3>2
  <2>2. /\ \A p \in todo' : source[p.src].loc = "stack" => mem[p.src] = mem0[p.src]
        /\ \A d \in moves : \E p \in pairs \ todo' :
             target[p.dst] = RegSlot(d) /\ source[p.src] = RegSlot(from[d])
        /\ regs = regs0 /\ spot = SourceHeight + 1
    BY <1>1 DEF IInv, Asked
  <2> QED BY <1>1, <1>2, <2>1, <2>2 DEF Asked, LoadOf, fixed, moving, position
<1>14. Loaded(dst)' = Before(q.src)
  <2>1. CASE dst \notin loads
    BY <1>2, <1>5, <1>8, <2>1 DEF Loaded, StackLoad
  <2>2. CASE dst \in loads
    <3>1. PICK p \in pairs \ todo : target[p.dst] = RegSlot(dst)
      BY <1>1, <2>2 DEF IInv, Asked
    <3>2. Before(p.src) = Before(q.src)
      BY <1>1, <1>2, <1>3, <3>1, SameTarget DEF IInv
    <3>3. RegArrives(dst, Before(p.src))
      BY <3>1, RegSlotFields DEF IInv, AllArrive, Arrives
    <3>4. Loaded(dst) = Before(p.src)
      BY <1>4, <2>2, <3>3 DEF RegArrives
    <3>5. Loaded(dst)' = Loaded(dst)
      BY <1>2, <1>8, <2>2 DEF Loaded
    <3> QED BY <3>2, <3>4, <3>5
  <2> QED BY <2>1, <2>2
<1>15. AllArrive'
  <2> SUFFICES ASSUME NEW p \in pairs \ todo' PROVE Arrives(p)'
    BY <1>1 DEF AllArrive, fixed
  <2>1. RegArrives(dst, Before(q.src))'
    BY <1>1, <1>6, <1>14 DEF RegArrives
  <2>2. CASE p = q
    BY <1>1, <1>2, <1>3, <2>1, <2>2 DEF Arrives, fixed
  <2>3. CASE p # q
    <3>1. Arrives(p) /\ p \in pairs
      BY <1>1, <2>3 DEF IInv, AllArrive
    <3>2. CASE target[p.dst].loc # "reg"
      BY <1>1, <1>2, <3>1, <3>2 DEF Arrives, After, fixed
    <3>3. CASE target[p.dst].loc = "reg"
      <4>1. PICK r : r = target[p.dst].reg /\ r \in Regs /\ target[p.dst] = RegSlot(r)
        BY <3>1, <3>3, PairTyped, SlotShape DEF IInv
      <4>2. CASE r = dst
        <5>1. Before(p.src) = Before(q.src)
          BY <1>1, <1>3, <2>3, <3>1, <3>3, <4>1, <4>2, SameTarget DEF IInv
        <5> QED BY <1>1, <2>1, <3>3, <4>1, <4>2, <5>1 DEF Arrives, fixed
      <4>3. CASE r # dst
        <5>1. RegArrives(r, Before(p.src))
          BY <3>1, <3>3, <4>1 DEF Arrives
        <5>2. RegArrives(r, Before(p.src))'
          BY <1>1, <1>2, <1>6, <1>8, <4>1, <4>3, <5>1 DEF RegArrives, Loaded, moving
        <5> QED BY <1>1, <3>3, <4>1, <5>2 DEF Arrives, fixed
      <4> QED BY <4>2, <4>3
    <3> QED BY <3>2, <3>3
  <2> QED BY <2>2, <2>3
<1> QED BY <1>1, <1>2, <1>9, <1>10, <1>11, <1>12, <1>13, <1>15 DEF IInv

-----------------------------------------------------------------------------
(* Steps that execute a move. *)

\* What every execution of a pending move does to the counts.
LEMMA Cleared ==
  ASSUME TypeOK, Counts, RecipeOK, NEW e \in moves, ClearExecuted(e)
  PROVE  /\ moves' = moves \ {e} /\ from' = from /\ moves' \subseteq Regs
         /\ uses' \in [Regs -> Nat] /\ uses[from[e]] > 0
         /\ chain' \in Regs \cup {NoReg}
         /\ chain' # NoReg => chain' \in moves' /\ uses'[chain'] = 0
         /\ Counts'
         /\ Cardinality(moves) \in Nat /\ Cardinality(moves) > 0
         /\ Cardinality(moves') = Cardinality(moves) - 1
         /\ uses[e] = 0 => \A d \in moves : from[d] # e
<1>1. PICK s \in Regs : s = from[e] /\ s # e
  BY DEF RecipeOK
<1>2. /\ moves' = moves \ {e} /\ from' = from /\ uses' = [uses EXCEPT ![s] = uses[s] - 1]
      /\ chain' = IF uses[s] = 1 /\ s \in moves THEN s ELSE NoReg
  BY <1>1 DEF ClearExecuted
<1>3. moves \subseteq Regs /\ uses \in [Regs -> Nat]
  BY DEF TypeOK
<1>4. \A r \in Regs : /\ IsFiniteSet(Readers(r)) /\ Cardinality(Readers(r)) \in Nat
                      /\ Cardinality(Readers(r)) <= uses[r]
  <2> TAKE r \in Regs
  <2>1. Readers(r) \subseteq Regs
    BY <1>3 DEF Readers
  <2> QED BY <2>1, RegsFinite DEF Counts
<1>5. \A r \in Regs : Readers(r) # {} => uses[r] > 0
  <2> SUFFICES ASSUME NEW r \in Regs, Readers(r) # {} PROVE uses[r] > 0
    OBVIOUS
  <2>1. Cardinality(Readers(r)) # 0
    BY <1>4, FS_EmptySet
  <2> QED BY <1>3, <1>4, <2>1
<1>6. uses[s] > 0 /\ uses[s] \in Nat
  <2>1. e \in Readers(s)
    BY <1>1 DEF Readers
  <2> QED BY <1>3, <1>5, <2>1
<1>7. /\ uses' \in [Regs -> Nat] /\ uses'[s] = uses[s] - 1
      /\ \A r \in Regs \ {s} : uses'[r] = uses[r]
  <2>1. uses[s] - 1 \in Nat
    BY <1>6
  <2> QED BY <1>2, <1>3, <2>1
<1>8. Counts'
  <2> SUFFICES ASSUME NEW r \in Regs PROVE Cardinality(Readers(r)') <= uses'[r]
    BY DEF Counts
  <2>1. Cardinality(Readers(r)) <= uses[r] /\ Cardinality(Readers(r)) \in Nat /\ IsFiniteSet(Readers(r))
    BY <1>4
  <2>2. CASE r = s
    <3>1. Readers(r)' = Readers(r) \ {e} /\ e \in Readers(r)
      BY <1>1, <1>2, <2>2 DEF Readers
    <3>2. Cardinality(Readers(r) \ {e}) = Cardinality(Readers(r)) - 1
      BY <2>1, <3>1, FS_RemoveElement
    <3>3. uses'[r] = uses[r] - 1 /\ uses[r] \in Nat
      BY <1>6, <1>7, <2>2
    <3> QED BY <2>1, <3>1, <3>2, <3>3
  <2>3. CASE r # s
    <3>1. Readers(r)' = Readers(r)
      BY <1>1, <1>2, <2>3 DEF Readers
    <3> QED BY <1>7, <2>1, <2>3, <3>1
  <2> QED BY <2>2, <2>3
<1>9. chain' # NoReg => chain' \in moves' /\ uses'[chain'] = 0
  BY <1>1, <1>2, <1>7
<1>10. chain' \in Regs \cup {NoReg} /\ moves' \subseteq Regs
  BY <1>1, <1>2, <1>3
<1>11. /\ Cardinality(moves) \in Nat /\ Cardinality(moves) > 0
       /\ Cardinality(moves') = Cardinality(moves) - 1
  <2>1. IsFiniteSet(moves) /\ Cardinality(moves) \in Nat
    BY <1>3, RegsFinite
  <2>2. Cardinality(moves) # 0
    BY <2>1, FS_EmptySet
  <2>3. Cardinality(moves \ {e}) = Cardinality(moves) - 1
    BY <2>1, FS_RemoveElement
  <2> QED BY <1>2, <2>1, <2>2, <2>3
<1>12. ASSUME uses[e] = 0, NEW d \in moves PROVE from[d] # e
  <2>1. Readers(e) = {}
    BY <1>3, <1>5, <1>12
  <2> QED BY <2>1 DEF Readers
<1> QED BY <1>1, <1>2, <1>6, <1>7, <1>8, <1>9, <1>10, <1>11, <1>12

LEMMA ExecuteMoveInv ==
  ASSUME IInv, NEW e \in moves, uses[e] = 0, phase \in {"moves", "cycles"},
         ExecuteMove(e), next' \in Nat
  PROVE  IInv'
<1>1. /\ UNCHANGED <<fixed, todo, loading, phase, spot, mem>> /\ ClearExecuted(e)
      /\ regs' = [regs EXCEPT ![e] = regs[from[e]]]
      /\ ok' = (ok /\ uses[e] = 0 /\ e # from[e] /\ uses[from[e]] > 0)
  BY DEF ExecuteMove
<1>2. PairsApart' /\ \A s : Before(s)' = Before(s)
  BY <1>1, FixedStep DEF IInv
<1>3. /\ moves' = moves \ {e} /\ from' = from /\ moves' \subseteq Regs
      /\ uses' \in [Regs -> Nat] /\ uses[from[e]] > 0
      /\ chain' \in Regs \cup {NoReg}
      /\ chain' # NoReg => chain' \in moves' /\ uses'[chain'] = 0
      /\ Counts'
      /\ Cardinality(moves) \in Nat /\ Cardinality(moves') = Cardinality(moves) - 1
      /\ \A d \in moves : from[d] # e
  BY <1>1, Cleared DEF IInv
<1>4. TypeOK /\ RecipeOK /\ todo = {} /\ e \in Regs /\ moves \subseteq Regs
      /\ (\A d \in moves : from[d] \in Regs /\ from[d] # d) /\ e \notin loads
  BY DEF IInv, TypeOK, RecipeOK
<1>5. /\ regs' \in [Regs -> Values] /\ regs'[e] = regs[from[e]]
      /\ \A r \in Regs \ {e} : regs'[r] = regs[r]
  <2>1. regs \in [Regs -> Values] /\ regs[from[e]] \in Values
    BY <1>4 DEF TypeOK
  <2> QED BY <1>1, <1>4, <2>1
<1>6. TypeOK'
  <2>1. ok' \in BOOLEAN
    BY <1>1
  <2> QED BY <1>1, <1>3, <1>4, <1>5, <2>1 DEF TypeOK, fixed, loading
<1>7. LoadsBelow'
  BY <1>1 DEF IInv, LoadsBelow, loading
<1>8. RoomLeft'
  <2>1. spot + Cardinality(moves) <= SourceHeight + 1 + Cardinality(Regs)
    BY DEF IInv, RoomLeft
  <2>2. spot \in Nat /\ SourceHeight \in Nat /\ Cardinality(Regs) \in Nat
    BY <1>4, StackTransferAssumption, RegsAssumption, RegsFinite DEF TypeOK
  <2>3. spot' = spot
    BY <1>1
  <2> QED BY <1>3, <2>1, <2>2, <2>3 DEF RoomLeft
<1>9. RecipeOK'
  BY <1>1, <1>3, <1>4 DEF RecipeOK, loading
<1>10. Asked'
  BY <1>1 DEF Asked
<1>11. AllArrive'
  <2> SUFFICES ASSUME NEW p \in pairs PROVE Arrives(p)'
    BY <1>1 DEF AllArrive, fixed
  <2>1. Arrives(p)
    BY <1>4 DEF IInv, AllArrive
  <2>2. CASE target[p.dst].loc # "reg"
    BY <1>1, <1>2, <2>1, <2>2 DEF Arrives, After, fixed
  <2>3. CASE target[p.dst].loc = "reg"
    <3>1. PICK r : r = target[p.dst].reg /\ r \in Regs
      BY <1>4, <2>3, PairTyped, SlotShape
    <3>2. RegArrives(r, Before(p.src))
      BY <2>1, <2>3, <3>1 DEF Arrives
    <3>3. CASE r = e
      <4>1. regs'[e] = Before(p.src)
        BY <1>4, <1>5, <3>2, <3>3 DEF RegArrives
      <4>2. e \notin moves' \cup loads'
        BY <1>1, <1>3, <1>4 DEF loading
      <4>3. RegArrives(r, Before(p.src))'
        BY <1>2, <3>3, <4>1, <4>2 DEF RegArrives
      <4> QED BY <1>1, <2>3, <3>1, <4>3 DEF Arrives, fixed
    <3>4. CASE r # e
      <4>1. r \in moves => regs'[from'[r]] = regs[from[r]]
        BY <1>3, <1>4, <1>5
      <4>2. Loaded(r)' = Loaded(r)
        BY <1>1 DEF Loaded, loading
      <4>3. RegArrives(r, Before(p.src))'
        BY <1>1, <1>2, <1>3, <1>5, <3>1, <3>2, <3>4, <4>1, <4>2 DEF RegArrives, loading
      <4> QED BY <1>1, <2>3, <3>1, <4>3 DEF Arrives, fixed
    <3> QED BY <3>3, <3>4
  <2> QED BY <2>2, <2>3
<1>12. ~Float => ok'
  BY <1>1, <1>3, <1>4 DEF IInv
<1> QED BY <1>2, <1>3, <1>6, <1>7, <1>8, <1>9, <1>10, <1>11, <1>12 DEF IInv

LEMMA SweepInv ==
  ASSUME IInv, Sweep
  PROVE  IInv'
<1>1. phase = "moves" /\ Executable # {} /\ ExecuteMove(FirstOf(Executable))
      /\ next' = FirstOf(Executable) + 1
  BY DEF Sweep
<1>2. moves \subseteq Nat
  BY RegsAssumption DEF IInv, TypeOK
<1>3. Executable \in SUBSET Nat
  BY <1>2 DEF Executable
<1>4. FirstOf(Executable) \in Executable
  BY <1>1, <1>3, FirstOfIsLeast
<1>5. PICK e \in moves : e = FirstOf(Executable) /\ uses[e] = 0 /\ e \in Nat
  BY <1>2, <1>4 DEF Executable
<1>6. next' \in Nat
  BY <1>1, <1>5
<1> QED BY <1>1, <1>5, <1>6, ExecuteMoveInv

LEMMA FollowInv ==
  ASSUME IInv, Follow
  PROVE  IInv'
<1>1. chain \in moves /\ uses[chain] = 0 /\ phase \in {"moves", "cycles"}
  BY DEF IInv, RecipeOK, Follow
<1>2. ExecuteMove(chain) /\ next' \in Nat
  BY DEF IInv, TypeOK, Follow
<1> QED BY <1>1, <1>2, ExecuteMoveInv

LEMMA BreakCycleInv ==
  ASSUME IInv, BreakCycle
  PROVE  IInv'
<1>1. moves \subseteq Nat /\ moves # {}
  BY RegsAssumption DEF IInv, TypeOK, BreakCycle
<1>2. PICK e \in moves : e = FirstOf(moves)
  BY <1>1, FirstOfIsLeast
<1>3. /\ UNCHANGED <<fixed, todo, phase, next, regs>> /\ spot' = spot + 1 /\ phase = "cycles"
      /\ mem' = [mem EXCEPT ![spot] = regs[from[e]]]
      /\ AddStackLoad(e, spot) /\ ClearExecuted(e)
      /\ ok' = (ok /\ uses[from[e]] > 0)
  BY <1>2 DEF BreakCycle
<1>4. PairsApart' /\ \A s : Before(s)' = Before(s)
  BY <1>3, FixedStep DEF IInv
<1>5. /\ moves' = moves \ {e} /\ from' = from /\ moves' \subseteq Regs
      /\ uses' \in [Regs -> Nat] /\ uses[from[e]] > 0
      /\ chain' \in Regs \cup {NoReg}
      /\ chain' # NoReg => chain' \in moves' /\ uses'[chain'] = 0
      /\ Counts'
      /\ Cardinality(moves) \in Nat /\ Cardinality(moves) > 0
      /\ Cardinality(moves') = Cardinality(moves) - 1
  BY <1>3, Cleared DEF IInv
<1>6. TypeOK /\ RecipeOK /\ todo = {} /\ e \in Regs /\ moves \subseteq Regs
      /\ (\A d \in moves : from[d] \in Regs /\ from[d] # d) /\ e \notin loads
      /\ load \in [Regs -> Load] /\ loads \subseteq Regs
  BY <1>3 DEF IInv, TypeOK, RecipeOK
<1>7. /\ spot \in Nat /\ SourceHeight \in Nat /\ SourceHeight < spot
      /\ spot <= MaxHeight /\ MaxHeight \in Nat
      /\ spot' + Cardinality(moves') <= SourceHeight + 1 + Cardinality(Regs)
  <2>1. spot + Cardinality(moves) <= SourceHeight + 1 + Cardinality(Regs)
    BY DEF IInv, RoomLeft
  <2>2. spot \in SourceHeight + 1 .. MaxHeight + 1
    BY <1>6 DEF TypeOK
  <2>3. /\ SourceHeight \in Nat /\ Cardinality(Regs) \in Nat /\ MaxHeight \in Nat
        /\ SourceHeight + Cardinality(Regs) <= MaxHeight
    BY StackTransferAssumption, RegsAssumption, RegsFinite
  <2> QED BY <1>3, <1>5, <2>1, <2>2, <2>3
<1>8. /\ mem' \in [Frame -> Values] /\ mem'[spot] = regs[from[e]] /\ spot \in Frame
      /\ \A i \in Frame \ {spot} : mem'[i] = mem[i]
  <2>1. spot \in Frame
    BY <1>7 DEF Frame
  <2>2. mem \in [Frame -> Values] /\ regs[from[e]] \in Values
    BY <1>6 DEF TypeOK
  <2> QED BY <1>3, <2>1, <2>2
<1>9. /\ loads' = loads \cup {e} /\ load' \in [Regs -> Load] /\ load'[e] = StackLoad(spot)
      /\ \A r \in Regs \ {e} : load'[r] = load[r]
  <2>1. loads' = loads \cup {e} /\ load' = [load EXCEPT ![e] = StackLoad(spot)]
    BY <1>3, <1>6 DEF AddStackLoad
  <2>2. StackLoad(spot) \in Load
    BY <1>8 DEF Load
  <2> QED BY <1>6, <2>1, <2>2
<1>10. TypeOK'
  <2>1. ok' \in BOOLEAN /\ spot' \in SourceHeight + 1 .. MaxHeight + 1 /\ loads' \subseteq Regs
    BY <1>3, <1>6, <1>7, <1>9
  <2> QED BY <1>3, <1>5, <1>6, <1>8, <1>9, <2>1 DEF TypeOK, fixed
<1>11. \A d \in loads : d \in Regs /\ d # e /\ (load[d].kind = "const" \/
          (load[d].kind = "stack" /\ load[d].arg \in 1 .. spot - 1))
  BY <1>6 DEF IInv, LoadsBelow
<1>12. LoadsBelow'
  <2> SUFFICES ASSUME NEW d \in loads'
               PROVE  \/ load'[d].kind = "const"
                      \/ load'[d].kind = "stack" /\ load'[d].arg \in 1 .. spot' - 1
    BY DEF LoadsBelow
  <2>1. CASE d = e
    <3>1. load'[d].kind = "stack" /\ load'[d].arg = spot
      BY <1>9, <2>1 DEF StackLoad
    <3>2. spot \in 1 .. spot' - 1
      BY <1>3, <1>7
    <3> QED BY <3>1, <3>2
  <2>2. CASE d # e
    <3>1. d \in loads /\ load'[d] = load[d]
      BY <1>6, <1>9, <2>2
    <3>2. \A i \in 1 .. spot - 1 : i \in 1 .. spot' - 1
      BY <1>3, <1>7
    <3> QED BY <1>11, <3>1, <3>2
  <2> QED BY <2>1, <2>2
<1>13. RoomLeft'
  BY <1>7 DEF RoomLeft
<1>14. RecipeOK'
  BY <1>3, <1>5, <1>6, <1>9 DEF RecipeOK
<1>15. Asked'
  BY <1>3 DEF Asked
<1>16. ASSUME NEW d \in loads PROVE Loaded(d)' = Loaded(d)
  <2>1. load'[d] = load[d]
    BY <1>9, <1>11
  <2>2. CASE load[d].kind = "const"
    BY <2>1, <2>2 DEF Loaded
  <2>3. CASE load[d].kind # "const"
    <3>1. PICK i \in 1 .. spot - 1 : i = load[d].arg
      BY <1>11, <2>3
    <3>2. i \in Frame \ {spot}
      BY <1>7, <3>1 DEF Frame
    <3> QED BY <1>8, <2>1, <2>3, <3>1, <3>2 DEF Loaded
  <2> QED BY <2>2, <2>3
<1>17. AllArrive'
  <2> SUFFICES ASSUME NEW p \in pairs PROVE Arrives(p)'
    BY <1>3 DEF AllArrive, fixed
  <2>1. Arrives(p)
    BY <1>6 DEF IInv, AllArrive
  <2>2. CASE target[p.dst].loc # "reg"
    <3>1. p.dst \in Frame \ {spot}
      <4>1. p.dst \in 1 .. SourceHeight /\ p.dst \in Frame
        BY <1>6, PairTyped
      <4> QED BY <1>7, <4>1
    <3> QED BY <1>3, <1>4, <1>8, <2>1, <2>2, <3>1 DEF Arrives, After, fixed
  <2>3. CASE target[p.dst].loc = "reg"
    <3>1. PICK r : r = target[p.dst].reg /\ r \in Regs
      BY <1>6, <2>3, PairTyped, SlotShape
    <3>2. RegArrives(r, Before(p.src))
      BY <2>1, <2>3, <3>1 DEF Arrives
    <3>3. CASE r = e
      <4>1. regs[from[e]] = Before(p.src)
        BY <1>6, <3>2, <3>3 DEF RegArrives
      <4>2. Loaded(e)' = regs[from[e]]
        BY <1>8, <1>9 DEF Loaded, StackLoad
      <4>3. RegArrives(r, Before(p.src))'
        BY <1>4, <1>9, <3>3, <4>1, <4>2 DEF RegArrives
      <4> QED BY <1>3, <2>3, <3>1, <4>3 DEF Arrives, fixed
    <3>4. CASE r # e
      <4>1. RegArrives(r, Before(p.src))'
        BY <1>3, <1>4, <1>5, <1>9, <1>16, <3>1, <3>2, <3>4 DEF RegArrives
      <4> QED BY <1>3, <2>3, <3>1, <4>1 DEF Arrives, fixed
    <3> QED BY <3>3, <3>4
  <2> QED BY <2>2, <2>3
<1>18. ~Float => ok'
  BY <1>3, <1>5 DEF IInv
<1> QED BY <1>4, <1>5, <1>10, <1>12, <1>13, <1>14, <1>15, <1>17, <1>18 DEF IInv

LEMMA ExecuteLoadInv ==
  ASSUME IInv, ExecuteLoad
  PROVE  IInv'
<1>1. loads \subseteq Regs /\ loads \subseteq Nat /\ loads # {}
  BY RegsAssumption DEF IInv, TypeOK, ExecuteLoad
<1>2. PICK e \in loads : e = FirstOf(loads)
  BY <1>1, FirstOfIsLeast
<1>3. /\ UNCHANGED <<fixed, todo, moving, load, position, ok, mem>> /\ phase = "loads"
      /\ regs' = [regs EXCEPT ![e] = Loaded(e)] /\ loads' = loads \ {e}
  BY <1>2 DEF ExecuteLoad, Loaded
<1>4. PairsApart' /\ \A s : Before(s)' = Before(s)
  BY <1>3, FixedStep DEF IInv
<1>5. TypeOK /\ RecipeOK /\ todo = {} /\ moves = {}
  BY <1>3 DEF IInv, RecipeOK
<1>6. Loaded(e) \in Values
  <2>1. load[e] \in Load
    BY <1>1, <1>5 DEF TypeOK
  <2>2. load[e].kind \in {"const", "stack"}
    BY DEF IInv, LoadsBelow
  <2>3. mem \in [Frame -> Values]
    BY <1>5 DEF TypeOK
  <2> QED BY <2>1, <2>2, <2>3, LoadShape DEF Loaded
<1>7. /\ regs' \in [Regs -> Values] /\ regs'[e] = Loaded(e)
      /\ \A r \in Regs \ {e} : regs'[r] = regs[r]
  <2>1. regs \in [Regs -> Values]
    BY <1>5 DEF TypeOK
  <2> QED BY <1>1, <1>3, <1>6, <2>1
<1>8. TypeOK'
  BY <1>1, <1>3, <1>5, <1>7 DEF TypeOK, fixed, moving, position
<1>9. Counts' /\ LoadsBelow' /\ RoomLeft'
  BY <1>3 DEF IInv, Counts, Readers, LoadsBelow, RoomLeft, moving, position
<1>10. RecipeOK' /\ Asked'
  BY <1>3, <1>5 DEF RecipeOK, Asked, moving, position
<1>11. AllArrive'
  <2> SUFFICES ASSUME NEW p \in pairs PROVE Arrives(p)'
    BY <1>3 DEF AllArrive, fixed
  <2>1. Arrives(p)
    BY <1>5 DEF IInv, AllArrive
  <2>2. CASE target[p.dst].loc # "reg"
    BY <1>3, <1>4, <2>1, <2>2 DEF Arrives, After, fixed
  <2>3. CASE target[p.dst].loc = "reg"
    <3>1. PICK r : r = target[p.dst].reg /\ r \in Regs
      BY <1>5, <2>3, PairTyped, SlotShape
    <3>2. RegArrives(r, Before(p.src))
      BY <2>1, <2>3, <3>1 DEF Arrives
    <3>3. Loaded(r)' = Loaded(r) /\ moves' = {}
      BY <1>3, <1>5 DEF Loaded, moving
    <3>4. RegArrives(r, Before(p.src))'
      BY <1>3, <1>4, <1>5, <1>7, <3>1, <3>2, <3>3 DEF RegArrives
    <3> QED BY <1>3, <2>3, <3>1, <3>4 DEF Arrives, fixed
  <2> QED BY <2>2, <2>3
<1> QED BY <1>3, <1>4, <1>8, <1>9, <1>10, <1>11 DEF IInv

-----------------------------------------------------------------------------
(* The theorems. *)

LEMMA NextInv == IInv /\ [Next]_vars => IInv'
<1> SUFFICES ASSUME IInv, [Next]_vars PROVE IInv'
  OBVIOUS
<1>1. ASSUME NEW q \in todo, StoreInFrame(q) PROVE IInv'   BY <1>1, StoreInFrameInv
<1>2. ASSUME NEW q \in todo, KeepConstant(q) PROVE IInv'   BY <1>2, KeepConstantInv
<1>3. ASSUME NEW q \in todo, MoveRegister(q) PROVE IInv'   BY <1>3, MoveRegisterInv
<1>4. ASSUME NEW q \in todo, LoadConst(q) PROVE IInv'      BY <1>4, LoadConstInv
<1>5. ASSUME NEW q \in todo, LoadStackSlot(q) PROVE IInv'  BY <1>5, LoadStackSlotInv
<1>6. CASE Planned \/ EndSweep \/ EndMoves \/ EndLoads     BY <1>6, PhaseStep
<1>7. CASE Sweep                                           BY <1>7, SweepInv
<1>8. CASE Follow                                          BY <1>8, FollowInv
<1>9. CASE BreakCycle                                      BY <1>9, BreakCycleInv
<1>10. CASE ExecuteLoad                                    BY <1>10, ExecuteLoadInv
<1>11. CASE UNCHANGED vars
  <2>1. PairsApart' /\ \A s : Before(s)' = Before(s)
    BY <1>11, FixedStep DEF IInv, vars
  <2>2. TypeOK'
    BY <1>11 DEF IInv, TypeOK, vars, fixed, moving, loading, position
  <2>3. Counts' /\ LoadsBelow' /\ RoomLeft'
    BY <1>11 DEF IInv, Counts, Readers, LoadsBelow, RoomLeft, vars, moving, loading, position
  <2>4. RecipeOK' /\ Asked'
    BY <1>11 DEF IInv, RecipeOK, Asked, LoadOf, vars, fixed, moving, loading, position
  <2>5. AllArrive'
    BY <1>11, <2>1 DEF IInv, AllArrive, Arrives, RegArrives, Loaded, After,
                       vars, fixed, moving, loading, position
  <2> QED BY <1>11, <2>1, <2>2, <2>3, <2>4, <2>5 DEF IInv, vars
<1> QED BY <1>1, <1>2, <1>3, <1>4, <1>5, <1>6, <1>7, <1>8, <1>9, <1>10, <1>11 DEF Next

\* The inductive invariant holds throughout.
THEOREM TransferInv == Spec => []IInv
<1>1. Init => IInv                    BY InitInv
<1>2. IInv /\ [Next]_vars => IInv'    BY NextInv
<1> QED BY <1>1, <1>2, PTL DEF Spec

\* TypeOK: the recipe names registers and frame slots of the function only,
\* the slots that break cycles among them.
THEOREM RecipesStayInFrame == Spec => []TypeOK
<1>1. IInv => TypeOK  BY DEF IInv
<1> QED BY <1>1, TransferInv, PTL

\* StackTransferRecipe is a simultaneous assignment: when all is emitted every
\* slot of the target holds what its source held before the transfer.
THEOREM TransfersAreSimultaneous == Spec => []Simultaneous
<1>1. IInv => Simultaneous
  <2> SUFFICES ASSUME IInv, phase = "done", NEW p \in pairs PROVE After(p.dst) = Before(p.src)
    BY DEF Simultaneous
  <2>1. todo = {} /\ moves = {} /\ loads = {}
    BY DEF IInv, RecipeOK
  <2>2. Arrives(p)
    BY <2>1 DEF IInv, AllArrive
  <2> QED BY <2>1, <2>2 DEF Arrives, RegArrives, After
<1> QED BY <1>1, TransferInv, PTL

\* No assert of the recipe fails for the general purpose registers.  (For the
\* floating point ones the assert of move_register does.)
THEOREM TransferAssertsHold == ~Float => (Spec => []AssertsHold)
<1> SUFFICES ASSUME ~Float PROVE Spec => []AssertsHold
  OBVIOUS
<1>1. IInv => AssertsHold
  BY DEF IInv, AssertsHold
<1> QED BY <1>1, TransferInv, PTL

=============================================================================
