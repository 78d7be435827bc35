----------------------------- MODULE LabelsProofs -----------------------------
(***************************************************************************)
(* Labels for any set of labels, any reach of a short jump and any order   *)
(* of jumps and bindings: the lists in the code are exact, no assert       *)
(* fails, and every jump goes to where its label is bound (LabelSpec).     *)
(***************************************************************************)
EXTENDS Labels, TLAPS

-----------------------------------------------------------------------------
(* The invariant. *)

\* Every jump is behind the end of the code.
JumpsBehind == \A j \in DOMAIN jumps : 1 <= j /\ j + jumps[j].width <= pc

\* A label has jumps of one kind only, and one kind of list.
KindsApart ==
  /\ \A j \in waiting : jumps[j].width = IF jumps[j].label \in NearLabel THEN 1 ELSE 4
  /\ \A l \in Label : IF l \in NearLabel THEN ~IsLinked(l) ELSE label[l].near = 0

\* What the callers keep: a Near jump that waits still reaches.
InReach == \A j \in waiting : jumps[j].width = 1 => pc - (j + 1) <= Int8Max

\* The label that is being bound is not bound yet, and the first loop only has
\* labels with Far jumps.
BindingOK ==
  /\ ~Idle => ~IsBound(binding.label)
  /\ binding.phase = "far" => IsLinked(binding.label)

\* Nothing waits for a label that is bound.
BoundDone == \A l \in Label : IsBound(l) => Waiting(l) = {}

\* A jump that does not wait goes to its label, or to where that is being bound.
Settled(j) ==
  LET l == jumps[j].label
  IN  \/ IsBound(l) /\ Lands(j) = LabelPos(l)
      \/ ~Idle /\ binding.label = l /\ Lands(j) = pc

AllSettled == \A j \in DOMAIN jumps \ waiting : Settled(j)

IInv ==
  /\ TypeOK /\ AssertsHold /\ ListsExact
  /\ JumpsBehind /\ KindsApart /\ InReach
  /\ BindingOK /\ BoundDone /\ AllSettled

LEMMA InitInv == Init => IInv
<1> SUFFICES ASSUME Init PROVE IInv
  OBVIOUS
<1>1. TypeOK
  BY LabelsAssumption DEF Init, TypeOK, NoBinding, Positions
<1>2. \A l \in Label : ListExact(l)
  BY DEF Init, ListExact, IsListed, InFarLoop, NoBinding, IsLinked, IsNearLinked, Waiting
<1> QED
  BY <1>1, <1>2 DEF Init, IInv, AssertsHold, ListsExact, JumpsBehind, KindsApart, InReach,
    BindingOK, BoundDone, AllSettled, NoBinding, Idle, IsLinked, IsBound, Waiting

-----------------------------------------------------------------------------
(* Steps of the lists and steps of LabelSpec. *)

\* Labels are bound where they were.
PlacesKept ==
  \A m \in Label : /\ IsBound(m)' <=> IsBound(m)
                   /\ IsBound(m) => LabelPos(m)' = LabelPos(m)

\* A step that only touches operands of labels that are not bound does nothing
\* there.
LEMMA StutterRefines ==
  ASSUME TypeOK, PlacesKept, jumps' = jumps,
         \A j \in DOMAIN jumps : IsBound(jumps[j].label) => operand'[j] = operand[j]
  PROVE  UNCHANGED Abstract!vars
<1>1. \A j \in DOMAIN jumps : jumps[j].label \in Label
  BY DEF TypeOK
<1>2. \A j \in DOMAIN jumps : IsBound(jumps[j].label) => Lands(j)' = Lands(j)
  BY DEF Lands
<1>3. \A j \in DOMAIN jumps : IsBound(jumps[j].label)' <=> IsBound(jumps[j].label)
  BY <1>1 DEF PlacesKept, IsBound
<1>4. [j \in DOMAIN jumps |-> IF IsBound(jumps[j].label) THEN Lands(j) ELSE OpenPlace]'
      = [j \in DOMAIN jumps |-> IF IsBound(jumps[j].label) THEN Lands(j) ELSE OpenPlace]
  BY <1>2, <1>3 DEF OpenPlace
<1>5. [m \in Label |-> IF IsBound(m) THEN LabelPos(m) ELSE OpenPlace]'
      = [m \in Label |-> IF IsBound(m) THEN LabelPos(m) ELSE OpenPlace]
  BY DEF PlacesKept, OpenPlace
<1> QED BY <1>4, <1>5 DEF Abstract!vars

-----------------------------------------------------------------------------
(* Jumps. *)

\* What Put changes: one jump more, at the end of the code.
PutDone(l, j, width, v) ==
  /\ pc \in Nat /\ pc' = j + width /\ pc' \in Positions
  /\ j \notin DOMAIN jumps /\ j \in Positions
  /\ DOMAIN jumps' = DOMAIN jumps \cup {j}
  /\ jumps'[j] = [label |-> l, width |-> width] /\ operand'[j] = v
  /\ \A k \in DOMAIN jumps : jumps'[k] = jumps[k] /\ operand'[k] = operand[k]
  /\ jumps' \in [DOMAIN jumps' -> [label : Label, width : {1, 4}]]
  /\ operand' \in [DOMAIN jumps' -> Int]
  /\ \A k \in waiting : jumps[k].width = 1 => pc' - (k + 1) <= Int8Max
  /\ JumpsBehind'
  /\ binding' = binding

LEMMA PutFacts ==
  ASSUME IInv, Idle, NEW l \in Label, NEW width \in {1, 4}, NEW v \in Int,
         NEW j \in {pc + 1, pc + 2}, Put(l, j, width, v)
  PROVE  PutDone(l, j, width, v)
<1>1. /\ pc \in Nat /\ DOMAIN operand = DOMAIN jumps
      /\ \A k \in DOMAIN jumps : k \in Nat /\ operand[k] \in Int
                                 /\ jumps[k] \in [label : Label, width : {1, 4}]
  BY DEF IInv, TypeOK, Positions
<1>2. /\ pc' = j + width /\ Reaches(pc') /\ binding' = binding
      /\ operand' = [k \in DOMAIN jumps \cup {j} |-> IF k = j THEN v ELSE operand[k]]
      /\ jumps' = [k \in DOMAIN jumps \cup {j} |->
                     IF k = j THEN [label |-> l, width |-> width] ELSE jumps[k]]
  BY <1>1 DEF Put
<1>3. pc' \in Positions /\ j \in Positions
  BY <1>1, <1>2, LabelsAssumption DEF Reaches, Positions
<1>4. j \notin DOMAIN jumps
  BY <1>1 DEF IInv, JumpsBehind
<1>5. JumpsBehind'
  <2> SUFFICES ASSUME NEW k \in DOMAIN jumps' PROVE 1 <= k /\ k + jumps'[k].width <= pc'
    BY DEF JumpsBehind
  <2>1. CASE k = j
    BY <2>1, <1>1, <1>2
  <2>2. CASE k # j
    BY <2>2, <1>1, <1>2 DEF IInv, JumpsBehind
  <2> QED BY <2>1, <2>2
<1>6. \A k \in waiting : jumps[k].width = 1 => pc' - (k + 1) <= Int8Max
  BY <1>2 DEF Reaches
<1> QED BY <1>1, <1>2, <1>3, <1>4, <1>5, <1>6 DEF PutDone

\* A new jump goes to its label, if that is bound.
LEMMA JumpRefines ==
  ASSUME TypeOK, PlacesKept, NEW l \in Label, NEW width \in {1, 4}, NEW v \in Int, NEW j,
         PutDone(l, j, width, v), IsBound(l) => j + width + v = LabelPos(l)
  PROVE  Abstract!Next
<1>1. /\ j \notin DOMAIN jumps /\ j \in Positions
      /\ DOMAIN jumps' = DOMAIN jumps \cup {j}
      /\ jumps'[j] = [label |-> l, width |-> width] /\ operand'[j] = v
      /\ \A k \in DOMAIN jumps : jumps'[k] = jumps[k] /\ operand'[k] = operand[k]
  BY DEF PutDone
<1>2. \A k \in DOMAIN jumps : jumps[k].label \in Label
  BY DEF TypeOK
<1>3. /\ \A k \in DOMAIN jumps : Lands(k)' = Lands(k)
      /\ Lands(j)' = j + width + v
  BY <1>1 DEF Lands
<1>4. /\ \A k \in DOMAIN jumps : IsBound(jumps[k].label)' <=> IsBound(jumps[k].label)
      /\ IsBound(jumps[j].label)' <=> IsBound(l)
  BY <1>1, <1>2 DEF PlacesKept, IsBound
<1>5. [k \in DOMAIN jumps |-> jumps[k].label]'
      = [k \in DOMAIN jumps \cup {j} |-> IF k = j THEN l ELSE jumps[k].label]
  BY <1>1
<1>6. [k \in DOMAIN jumps |-> IF IsBound(jumps[k].label) THEN Lands(k) ELSE OpenPlace]'
      = [k \in DOMAIN jumps \cup {j} |->
           IF k = j THEN IF IsBound(l) THEN LabelPos(l) ELSE OpenPlace
           ELSE IF IsBound(jumps[k].label) THEN Lands(k) ELSE OpenPlace]
  BY <1>1, <1>3, <1>4 DEF OpenPlace
<1>7. [m \in Label |-> IF IsBound(m) THEN LabelPos(m) ELSE OpenPlace]'
      = [m \in Label |-> IF IsBound(m) THEN LabelPos(m) ELSE OpenPlace]
  BY DEF PlacesKept, OpenPlace
<1>8. Abstract!Jump(j, l)
  BY <1>1, <1>5, <1>6, <1>7 DEF Abstract!Jump
<1> QED BY <1>1, <1>8 DEF Abstract!Next

\* A list that no part of has changed is still exact.
LEMMA ListKept ==
  ASSUME NEW m, ListExact(m),
         Waiting(m)' = Waiting(m),
         IsListed(m)' <=> IsListed(m),
         Waiting(m) # {} => Head(m)' = Head(m),
         \A j \in Waiting(m) : Link(j)' = Link(j)
  PROVE  ListExact(m)'
BY DEF ListExact

LEMMA JumpBackInv ==
  ASSUME IInv, NEW l \in Label, NEW opcode \in {1, 2}, JumpBack(l, opcode)
  PROVE  IInv' /\ Abstract!Next
<1>1. Idle /\ IsBound(l) /\ label' = label /\ ok' = ok /\ waiting' = waiting
  BY DEF JumpBack
<1>2. pc \in Nat /\ LabelPos(l) \in Int
  BY DEF IInv, TypeOK, Positions, LabelPos
<1>3. PICK j \in {pc + 1, pc + 2}, width \in {1, 4}, v \in Int :
        Put(l, j, width, v) /\ j + width + v = LabelPos(l)
  <2>1. CASE IsInt8(LabelPos(l) - pc - 2)
    <3>1. Put(l, pc + 1, 1, LabelPos(l) - pc - 2)
      BY <2>1 DEF JumpBack
    <3> QED BY <3>1, <1>2
  <2>2. CASE ~IsInt8(LabelPos(l) - pc - 2)
    <3>1. Put(l, pc + opcode, 4, LabelPos(l) - pc - opcode - 4)
      BY <2>2 DEF JumpBack
    <3> QED BY <3>1, <1>2
  <2> QED BY <2>1, <2>2
<1>4a. PutDone(l, j, width, v)
  BY <1>1, <1>3, PutFacts
<1>4. /\ pc' = j + width /\ pc' \in Positions
      /\ j \notin DOMAIN jumps /\ j \in Positions
      /\ DOMAIN jumps' = DOMAIN jumps \cup {j}
      /\ jumps'[j] = [label |-> l, width |-> width] /\ operand'[j] = v
      /\ \A k \in DOMAIN jumps : jumps'[k] = jumps[k] /\ operand'[k] = operand[k]
      /\ jumps' \in [DOMAIN jumps' -> [label : Label, width : {1, 4}]]
      /\ operand' \in [DOMAIN jumps' -> Int]
      /\ \A k \in waiting : jumps[k].width = 1 => pc' - (k + 1) <= Int8Max
      /\ JumpsBehind'
      /\ binding' = binding
  BY <1>4a DEF PutDone
<1>5. waiting \subseteq DOMAIN jumps
  BY DEF IInv, TypeOK
<1>6. TypeOK'
  <2>1. label' \in [Label -> [pos : -pc' - 1 .. pc', near : 0 .. pc']]
    BY <1>1, <1>2, <1>4 DEF IInv, TypeOK
  <2> QED BY <1>1, <1>4, <1>5, <2>1 DEF IInv, TypeOK, Positions
<1>7. ListsExact'
  <2> SUFFICES ASSUME NEW m \in Label PROVE ListExact(m)'
    BY DEF ListsExact
  <2>1. \A k \in waiting : jumps'[k] = jumps[k] /\ Link(k)' = Link(k)
    BY <1>4, <1>5 DEF Link
  <2>2. Waiting(m)' = Waiting(m)
    BY <1>1, <2>1 DEF Waiting
  <2>3. (IsListed(m)' <=> IsListed(m)) /\ Head(m)' = Head(m)
    BY <1>1, <1>4 DEF IsListed, InFarLoop, IsLinked, IsNearLinked, Head, NearLinkPos,
      LabelPos, IsBound, Idle
  <2> QED BY <2>1, <2>2, <2>3, ListKept DEF IInv, ListsExact, Waiting
<1>8. KindsApart' /\ InReach' /\ BindingOK'
  BY <1>1, <1>4, <1>5 DEF IInv, KindsApart, InReach, BindingOK, IsLinked, IsBound, Idle
<1>9. BoundDone'
  BY <1>1, <1>4, <1>5 DEF IInv, BoundDone, Waiting, IsBound
<1>10. AllSettled'
  <2> SUFFICES ASSUME NEW k \in DOMAIN jumps' \ waiting PROVE Settled(k)'
    BY <1>1 DEF AllSettled
  <2>1. CASE k = j
    BY <2>1, <1>1, <1>3, <1>4 DEF Settled, IsBound, LabelPos, Lands
  <2>2. CASE k # j
    BY <2>2, <1>1, <1>4 DEF IInv, AllSettled, Settled, IsBound, LabelPos, Lands, Idle
  <2> QED BY <2>1, <2>2
<1>11. Abstract!Next
  <2>1. PlacesKept /\ TypeOK
    BY <1>1 DEF PlacesKept, IsBound, LabelPos, IInv
  <2> QED BY <2>1, <1>3, <1>4a, JumpRefines
<1> QED BY <1>1, <1>4, <1>6, <1>7, <1>8, <1>9, <1>10, <1>11 DEF IInv, AssertsHold

\* A jump that waits becomes the head of its label's list, and points to the
\* head before it, or to itself.
LEMMA LinkInv ==
  ASSUME IInv, Idle, NEW l \in Label, ~IsBound(l),
         NEW width \in {1, 4}, width = IF l \in NearLabel THEN 1 ELSE 4,
         NEW v \in Int, NEW j \in {pc + 1, pc + 2}, Put(l, j, width, v),
         waiting' = waiting \cup {j}, ok',
         width = 4 => /\ label' = [label EXCEPT ![l].pos = j + 1]
                      /\ v = IF Waiting(l) # {} THEN Head(l) ELSE j,
         width = 1 => /\ label' = [label EXCEPT ![l].near = j + 1]
                      /\ j + v = IF Waiting(l) # {} THEN Head(l) ELSE j
  PROVE  IInv' /\ Abstract!Next
<1>1a. PutDone(l, j, width, v)
  BY PutFacts
<1>1. /\ pc \in Nat /\ pc' = j + width /\ pc' \in Positions
      /\ j \notin DOMAIN jumps /\ j \in Positions
      /\ DOMAIN jumps' = DOMAIN jumps \cup {j}
      /\ jumps'[j] = [label |-> l, width |-> width] /\ operand'[j] = v
      /\ \A k \in DOMAIN jumps : jumps'[k] = jumps[k] /\ operand'[k] = operand[k]
      /\ jumps' \in [DOMAIN jumps' -> [label : Label, width : {1, 4}]]
      /\ operand' \in [DOMAIN jumps' -> Int]
      /\ \A k \in waiting : jumps[k].width = 1 => pc' - (k + 1) <= Int8Max
      /\ JumpsBehind'
      /\ binding' = binding
  BY <1>1a DEF PutDone
<1>2. /\ waiting \subseteq DOMAIN jumps
      /\ label \in [Label -> [pos : -pc - 1 .. pc, near : 0 .. pc]]
  BY DEF IInv, TypeOK
<1>3. /\ \A m \in Label : m # l => label'[m] = label[m]
      /\ width = 4 => label'[l].pos = j + 1 /\ label'[l].near = label[l].near
      /\ width = 1 => label'[l].near = j + 1 /\ label'[l].pos = label[l].pos
  BY <1>2
<1>4. TypeOK'
  <2>1. label' \in [Label -> [pos : -pc' - 1 .. pc', near : 0 .. pc']]
    <3>1. \A m \in Label : label[m] \in [pos : -pc' - 1 .. pc', near : 0 .. pc']
      BY <1>1, <1>2
    <3>2. j + 1 \in 1 .. pc'
      BY <1>1
    <3>3. [label[l] EXCEPT !.pos = j + 1] \in [pos : -pc' - 1 .. pc', near : 0 .. pc']
      BY <1>1, <3>1, <3>2
    <3>4. [label[l] EXCEPT !.near = j + 1] \in [pos : -pc' - 1 .. pc', near : 0 .. pc']
      BY <1>1, <3>1, <3>2
    <3> QED BY <1>2, <3>1, <3>3, <3>4
  <2>2. waiting' \subseteq DOMAIN jumps' /\ ok' \in BOOLEAN
    BY <1>1, <1>2
  <2> QED BY <1>1, <2>1, <2>2 DEF IInv, TypeOK, Positions
<1>5. \A k \in waiting : jumps'[k] = jumps[k] /\ Link(k)' = Link(k)
  BY <1>1, <1>2 DEF Link
<1>6. \A m \in Label : Waiting(m)' = IF m = l THEN Waiting(m) \cup {j} ELSE Waiting(m)
  BY <1>1, <1>2, <1>5 DEF Waiting
<1>7. ListExact(l)'
  <2>1. /\ IsListed(l)' /\ Head(l)' = j
    BY <1>1, <1>2, <1>3 DEF IInv, KindsApart, IsListed, InFarLoop, IsLinked, IsNearLinked, Head,
      NearLinkPos, LabelPos, IsBound, Idle
  <2>2. Link(j)' = IF Waiting(l) # {} THEN Head(l) ELSE j
    BY <1>1 DEF Link
  <2>3. \A k \in Waiting(l) : k \in Nat /\ k < j
    BY <1>1, <1>2 DEF IInv, TypeOK, JumpsBehind, Waiting, Positions
  <2>4. ListExact(l)
    BY DEF IInv, ListsExact
  <2>5. \A k \in Waiting(l) : Link(k)' = Link(k)
    BY <1>5 DEF Waiting
  <2>6. Waiting(l)' = Waiting(l) \cup {j} /\ j \in Nat
    BY <1>1, <1>6
  <2>7. CASE Waiting(l) = {}
    BY <2>1, <2>2, <2>6, <2>7 DEF ListExact
  <2>8. CASE Waiting(l) # {}
    <3>1. /\ Head(l) \in Waiting(l)
          /\ \A k \in Waiting(l) : k <= Head(l)
      BY <2>4, <2>8 DEF ListExact
    <3>2. \A k \in Waiting(l)' : k <= j
      BY <2>3, <2>6
    <3>3. \A k \in Waiting(l) :
            /\ Link(k)' \in Waiting(l)' /\ Link(k)' <= k
            /\ \A i \in Waiting(l)' : i < k => i <= Link(k)' /\ Link(k)' < k
      BY <2>3, <2>4, <2>5, <2>6 DEF ListExact
    <3>4. /\ Link(j)' \in Waiting(l)' /\ Link(j)' <= j
          /\ \A i \in Waiting(l)' : i < j => i <= Link(j)' /\ Link(j)' < j
      BY <2>2, <2>3, <2>6, <2>8, <3>1
    <3> QED BY <2>1, <2>6, <3>2, <3>3, <3>4 DEF ListExact
  <2> QED BY <2>7, <2>8
<1>8. ListsExact'
  <2> SUFFICES ASSUME NEW m \in Label, m # l PROVE ListExact(m)'
    BY <1>7 DEF ListsExact
  <2>1. (IsListed(m)' <=> IsListed(m)) /\ Head(m)' = Head(m)
    BY <1>1, <1>3 DEF IsListed, InFarLoop, IsLinked, IsNearLinked, Head, NearLinkPos,
      LabelPos, IsBound, Idle
  <2>2. Waiting(m)' = Waiting(m) /\ \A k \in Waiting(m) : Link(k)' = Link(k)
    BY <1>5, <1>6 DEF Waiting
  <2>3. ListExact(m)
    BY DEF IInv, ListsExact
  <2> QED BY <2>1, <2>2, <2>3, ListKept
<1>9. KindsApart'
  <2>1. \A k \in waiting' : jumps'[k].width = IF jumps'[k].label \in NearLabel THEN 1 ELSE 4
    BY <1>1, <1>5 DEF IInv, KindsApart
  <2>2. \A m \in Label : IF m \in NearLabel THEN ~IsLinked(m)' ELSE label'[m].near = 0
    BY <1>3 DEF IInv, KindsApart, IsLinked
  <2> QED BY <2>1, <2>2 DEF KindsApart
<1>10. InReach'
  BY <1>1, <1>5, LabelsAssumption DEF InReach
<1>11. BindingOK'
  BY <1>1 DEF IInv, BindingOK, Idle
<1>12. BoundDone'
  <2>1. ~IsBound(l)'
    BY <1>1, <1>3 DEF IsBound
  <2> QED BY <2>1, <1>3, <1>6 DEF IInv, BoundDone, IsBound
<1>13. AllSettled'
  <2> SUFFICES ASSUME NEW k \in DOMAIN jumps \ waiting PROVE Settled(k)'
    BY <1>1 DEF AllSettled
  <2>1. jumps[k].label # l
    BY DEF IInv, AllSettled, Settled
  <2>2. jumps[k].label \in Label
    BY DEF IInv, TypeOK
  <2> QED BY <2>1, <2>2, <1>1, <1>3 DEF IInv, AllSettled, Settled, IsBound, LabelPos, Lands, Idle
<1>14. Abstract!Next
  <2>1. PlacesKept
    <3> SUFFICES ASSUME NEW m \in Label
                 PROVE  /\ IsBound(m)' <=> IsBound(m)
                        /\ IsBound(m) => LabelPos(m)' = LabelPos(m)
      BY DEF PlacesKept
    <3>1. CASE m = l
      BY <3>1, <1>1, <1>3 DEF IsBound
    <3>2. CASE m # l
      BY <3>2, <1>3 DEF IsBound, LabelPos
    <3> QED BY <3>1, <3>2
  <2>2. TypeOK
    BY DEF IInv
  <2> QED BY <2>1, <2>2, <1>1a, JumpRefines
<1> QED BY <1>1, <1>4, <1>8, <1>9, <1>10, <1>11, <1>12, <1>13, <1>14 DEF IInv, AssertsHold

LEMMA JumpNearInv ==
  ASSUME IInv, NEW l \in Label, JumpNear(l)
  PROVE  IInv' /\ Abstract!Next
<1> DEFINE v == IF IsNearLinked(l) THEN NearLinkPos(l) - (pc + 1) ELSE 0
<1>1. /\ Idle /\ ~IsBound(l) /\ l \in NearLabel
      /\ Put(l, pc + 1, 1, v)
      /\ label' = [label EXCEPT ![l].near = pc + 2]
      /\ ok' = (IsNearLinked(l) => IsInt8(NearLinkPos(l) - (pc + 1)))
      /\ waiting' = waiting \cup {pc + 1}
  BY DEF JumpNear
<1>2. /\ pc \in Nat /\ label[l].near \in Nat
      /\ label \in [Label -> [pos : -pc - 1 .. pc, near : 0 .. pc]]
  BY DEF IInv, TypeOK, Positions
<1>3. v \in Int
  BY <1>2 DEF NearLinkPos
<1>4. /\ IsListed(l) <=> IsNearLinked(l)
      /\ IsNearLinked(l) => Head(l) = NearLinkPos(l)
  BY <1>1 DEF IInv, KindsApart, IsListed, Head, InFarLoop, Idle
<1>5. pc + 1 + v = IF Waiting(l) # {} THEN Head(l) ELSE pc + 1
  BY <1>2, <1>4 DEF IInv, ListsExact, ListExact, NearLinkPos
<1>6. ok'
  <2> SUFFICES ASSUME IsNearLinked(l) PROVE IsInt8(NearLinkPos(l) - (pc + 1))
    BY <1>1
  <2>1. Head(l) \in Waiting(l)
    BY <1>4 DEF IInv, ListsExact, ListExact
  <2>2. /\ NearLinkPos(l) \in waiting
        /\ NearLinkPos(l) \in DOMAIN jumps
        /\ jumps[NearLinkPos(l)].width = 1
    BY <1>1, <1>4, <2>1 DEF IInv, TypeOK, KindsApart, Waiting
  <2>3. Reaches(pc + 2)
    BY <1>2, <1>1 DEF Put
  <2>4. /\ NearLinkPos(l) \in Nat
        /\ NearLinkPos(l) + 1 <= pc
        /\ pc + 2 - (NearLinkPos(l) + 1) <= Int8Max
    BY <2>2, <2>3 DEF IInv, TypeOK, JumpsBehind, Reaches, Positions
  <2> QED BY <2>4, <1>2, LabelsAssumption DEF IsInt8
<1>7. label' = [label EXCEPT ![l].near = (pc + 1) + 1]
  <2>1. (pc + 1) + 1 = pc + 2
    BY <1>2
  <2> QED BY <1>1, <2>1
<1> HIDE DEF v
<1>8. 1 \in {1, 4} /\ 1 # 4 /\ 1 = (IF l \in NearLabel THEN 1 ELSE 4) /\ pc + 1 \in {pc + 1, pc + 2}
  BY <1>1
<1> QED BY <1>1, <1>3, <1>5, <1>6, <1>7, <1>8, LinkInv

LEMMA JumpFarInv ==
  ASSUME IInv, NEW l \in Label, NEW opcode \in {1, 2}, JumpFar(l, opcode)
  PROVE  IInv' /\ Abstract!Next
<1> DEFINE j == pc + opcode
           v == IF IsLinked(l) THEN LabelPos(l) ELSE j
<1>1. /\ Idle /\ ~IsBound(l) /\ l \notin NearLabel
      /\ Put(l, j, 4, v)
      /\ label' = [label EXCEPT ![l].pos = j + 1]
      /\ ok' = (IsLinked(l) \/ IsUnused(l))
      /\ waiting' = waiting \cup {j}
  BY DEF JumpFar
<1>2. /\ pc \in Nat /\ label[l].pos \in Int /\ j \in {pc + 1, pc + 2}
      /\ label \in [Label -> [pos : -pc - 1 .. pc, near : 0 .. pc]]
  BY DEF IInv, TypeOK, Positions
<1>3. v \in Int
  BY <1>2 DEF LabelPos
<1>4. /\ label[l].near = 0
      /\ IsListed(l) <=> IsLinked(l)
      /\ IsLinked(l) => Head(l) = LabelPos(l)
  BY <1>1 DEF IInv, KindsApart, IsListed, Head, InFarLoop, Idle, IsNearLinked
<1>5. v = IF Waiting(l) # {} THEN Head(l) ELSE j
  BY <1>4 DEF IInv, ListsExact, ListExact
<1>6. ok'
  <2>1. IsLinked(l) \/ IsUnused(l)
    BY <1>1, <1>2, <1>4 DEF IsLinked, IsUnused, IsBound
  <2> QED BY <1>1, <2>1
<1> HIDE DEF v, j
<1> DEFINE w == 4
<1>7. w \in {1, 4} /\ w # 1 /\ w = IF l \in NearLabel THEN 1 ELSE 4
  BY <1>1
<1>8. Put(l, j, w, v) /\ Idle /\ ~IsBound(l) /\ waiting' = waiting \cup {j}
  BY <1>1
<1>9. w = 4 => /\ label' = [label EXCEPT ![l].pos = j + 1]
               /\ v = IF Waiting(l) # {} THEN Head(l) ELSE j
  BY <1>1, <1>5
<1>10. w = 1 => /\ label' = [label EXCEPT ![l].near = j + 1]
                /\ j + v = IF Waiting(l) # {} THEN Head(l) ELSE j
  BY <1>7
<1>11. j \in {pc + 1, pc + 2}
  BY <1>2
<1> HIDE DEF w
<1> QED BY <1>3, <1>6, <1>7, <1>8, <1>9, <1>10, <1>11, LinkInv

LEMMA EmitInv ==
  ASSUME IInv, NEW n \in Gaps, Emit(n)
  PROVE  IInv' /\ UNCHANGED Abstract!vars
<1>1. /\ Idle /\ Reaches(pc + n) /\ pc' = pc + n
      /\ UNCHANGED <<operand, label, binding, ok, jumps, waiting>>
      /\ pc \in Nat /\ n \in Nat
  BY LabelsAssumption DEF Emit, IInv, TypeOK, Positions
<1>2. TypeOK'
  <2>1. label' \in [Label -> [pos : -pc' - 1 .. pc', near : 0 .. pc']]
    BY <1>1 DEF IInv, TypeOK
  <2>2. pc' \in Positions
    BY <1>1, LabelsAssumption DEF Reaches, Positions
  <2> QED BY <1>1, <2>1, <2>2 DEF IInv, TypeOK
<1>3. ListsExact'
  BY <1>1 DEF IInv, ListsExact, ListExact, Waiting, IsListed, InFarLoop, IsLinked, Idle,
    IsNearLinked, Head, NearLinkPos, LabelPos, IsBound, Link
<1>4. JumpsBehind' /\ InReach'
  <2>1. \A j \in DOMAIN jumps : j \in Nat /\ jumps[j].width \in {1, 4}
    BY DEF IInv, TypeOK, Positions
  <2>2. JumpsBehind'
    BY <1>1, <2>1 DEF IInv, JumpsBehind
  <2>3. InReach'
    BY <1>1 DEF Reaches, InReach
  <2> QED BY <2>2, <2>3
<1>5. KindsApart' /\ BindingOK' /\ BoundDone' /\ AssertsHold'
  BY <1>1 DEF IInv, KindsApart, BindingOK, BoundDone, Waiting, IsLinked, IsBound, Idle, AssertsHold
<1>6. AllSettled'
  BY <1>1 DEF IInv, AllSettled, Settled, IsBound, LabelPos, Lands, Idle
<1>7. UNCHANGED Abstract!vars
  <2>1. TypeOK /\ PlacesKept /\ operand' = operand /\ jumps' = jumps
    BY <1>1 DEF IInv, PlacesKept, IsBound, LabelPos
  <2> QED BY <2>1, StutterRefines
<1> QED BY <1>2, <1>3, <1>4, <1>5, <1>6, <1>7 DEF IInv

-----------------------------------------------------------------------------
(* Binding. *)

LEMMA BindLabelInv ==
  ASSUME IInv, NEW l \in Label, BindLabel(l)
  PROVE  IInv' /\ UNCHANGED Abstract!vars
<1>1. /\ Idle /\ ~IsBound(l)
      /\ binding' = [phase |-> IF IsLinked(l) THEN "far" ELSE "near",
                     label |-> l, current |-> IF IsLinked(l) THEN LabelPos(l) ELSE 0]
      /\ UNCHANGED <<pc, operand, label, ok, jumps, waiting>>
      /\ label[l].pos \in Int
  BY DEF BindLabel, IInv, TypeOK, Positions
<1>2. TypeOK'
  <2>1. binding' \in [phase : {"idle", "far", "near"}, label : Label, current : Nat]
    BY <1>1 DEF LabelPos, IsLinked, IsBound
  <2> QED BY <1>1, <2>1 DEF IInv, TypeOK
<1>3. ListsExact'
  <2> SUFFICES ASSUME NEW m \in Label PROVE ListExact(m)'
    BY DEF ListsExact
  <2>1. /\ Waiting(m)' = Waiting(m)
        /\ \A j \in Waiting(m) : Link(j)' = Link(j)
        /\ ListExact(m)
    BY <1>1 DEF Waiting, Link, IInv, ListsExact
  <2>2. m = l /\ IsLinked(l) => label[l].near = 0
    BY DEF IInv, KindsApart
  <2>3. (IsListed(m)' <=> IsListed(m)) /\ (IsListed(m) => Head(m)' = Head(m))
    BY <1>1, <2>2 DEF IsListed, InFarLoop, IsLinked, IsNearLinked, Head, NearLinkPos,
      LabelPos, IsBound, Idle
  <2>4. Waiting(m) # {} => Head(m)' = Head(m)
    BY <2>1, <2>3 DEF ListExact
  <2> QED BY <2>1, <2>3, <2>4, ListKept
<1>4. JumpsBehind' /\ InReach' /\ KindsApart' /\ BoundDone' /\ AssertsHold'
  BY <1>1 DEF IInv, JumpsBehind, InReach, KindsApart, BoundDone, Waiting, IsLinked, IsBound,
    AssertsHold
<1>5. BindingOK'
  BY <1>1 DEF BindingOK, IsLinked, IsBound, Idle
<1>6. AllSettled'
  BY <1>1 DEF IInv, AllSettled, Settled, IsBound, LabelPos, Lands, Idle
<1>7. UNCHANGED Abstract!vars
  <2>1. TypeOK /\ PlacesKept /\ operand' = operand /\ jumps' = jumps
    BY <1>1 DEF IInv, PlacesKept, IsBound, LabelPos
  <2> QED BY <2>1, StutterRefines
<1> QED BY <1>2, <1>3, <1>4, <1>5, <1>6, <1>7 DEF IInv

\* Patching the head of the list of l takes it off the list.
LEMMA PatchInv ==
  ASSUME IInv, NEW l \in Label, ~Idle, binding.label = l,
         IsListed(l),
         NEW j, j = Head(l),
         waiting' = waiting \ {j},
         operand' = [operand EXCEPT ![j] = pc - (j + jumps[j].width)],
         IsListed(l)' <=> Link(j) # j,
         Link(j) # j => Head(l)' = Link(j),
         \A m \in Label : m # l => label'[m] = label[m],
         label'[l].pos = label[l].pos, binding'.label = l, ~Idle',
         UNCHANGED <<pc, jumps>>,
         TypeOK', ok', KindsApart', BindingOK'
  PROVE  IInv' /\ UNCHANGED Abstract!vars
<1>1. /\ ListExact(l) /\ j \in Waiting(l) /\ \A k \in Waiting(l) : k <= j
      /\ Link(j) \in Waiting(l) /\ Link(j) <= j
      /\ \A k \in Waiting(l) : k < j => k <= Link(j) /\ Link(j) < j
  BY DEF IInv, ListsExact, ListExact
<1>2. /\ waiting \subseteq DOMAIN jumps
      /\ \A k \in DOMAIN jumps : k \in Nat /\ jumps[k].label \in Label
      /\ DOMAIN operand = DOMAIN jumps
      /\ pc \in Nat
  BY DEF IInv, TypeOK, Positions
<1>3. j \in waiting /\ jumps[j].label = l /\ jumps[j].width \in {1, 4}
  BY <1>1, <1>2 DEF Waiting, IInv, TypeOK
<1>4. \A k \in DOMAIN jumps : k # j => operand'[k] = operand[k] /\ Link(k)' = Link(k)
  BY <1>2 DEF Link
<1>5. \A m \in Label : Waiting(m)' = Waiting(m) \ {j}
  BY DEF Waiting
<1>6. ListExact(l)'
  <2>1. \A k \in Waiting(l) : k \in Nat
    BY <1>2 DEF Waiting
  <2>2. \A k \in Waiting(l)' : Link(k)' = Link(k) /\ k \in Waiting(l) /\ k < j
    BY <1>1, <1>2, <1>4, <1>5, <2>1 DEF Waiting
  <2>3. CASE Link(j) = j
    <3>1. Waiting(l)' = {}
      BY <1>1, <2>1, <2>2, <2>3
    <3> QED BY <2>3, <3>1 DEF ListExact
  <2>4. CASE Link(j) # j
    <3>1. Link(j) \in Waiting(l)' /\ Head(l)' = Link(j) /\ IsListed(l)'
      BY <1>1, <1>5, <2>4
    <3>2. \A k \in Waiting(l)' : k <= Link(j)
      BY <1>1, <2>2
    <3>3. \A k \in Waiting(l)' :
            /\ Link(k)' \in Waiting(l) /\ Link(k)' <= k
            /\ \A i \in Waiting(l)' : i < k => i <= Link(k)' /\ Link(k)' < k
      BY <1>1, <2>2 DEF ListExact
    <3>4. \A k \in Waiting(l)' : Link(k)' \in Waiting(l)'
      BY <1>3, <1>2, <1>5, <2>1, <2>2, <3>3
    <3> QED BY <3>1, <3>2, <3>3, <3>4 DEF ListExact
  <2> QED BY <2>3, <2>4
<1>7. ListsExact'
  <2> SUFFICES ASSUME NEW m \in Label, m # l PROVE ListExact(m)'
    BY <1>6 DEF ListsExact
  <2>1. (IsListed(m)' <=> IsListed(m)) /\ Head(m)' = Head(m)
    BY DEF IsListed, InFarLoop, IsLinked, IsNearLinked, Head, NearLinkPos, LabelPos, IsBound, Idle
  <2>2. Waiting(m)' = Waiting(m) /\ j \notin Waiting(m)
    BY <1>3, <1>5 DEF Waiting
  <2>3. \A k \in Waiting(m) : Link(k)' = Link(k)
    BY <1>2, <1>4, <2>2 DEF Waiting
  <2>4. ListExact(m)
    BY DEF IInv, ListsExact
  <2> QED BY <2>1, <2>2, <2>3, <2>4, ListKept
<1>8. JumpsBehind' /\ InReach' /\ AssertsHold'
  BY <1>2 DEF IInv, JumpsBehind, InReach, AssertsHold
<1>9. BoundDone'
  BY <1>5 DEF IInv, BoundDone, IsBound
<1>10. AllSettled'
  <2> SUFFICES ASSUME NEW k \in DOMAIN jumps, k = j \/ k \notin waiting PROVE Settled(k)'
    BY DEF AllSettled
  <2>1. CASE k = j
    BY <2>1, <1>2, <1>3 DEF Settled, Lands
  <2>2. CASE k # j
    BY <2>2, <1>2, <1>4 DEF IInv, AllSettled, Settled, IsBound, LabelPos, Lands
  <2> QED BY <2>1, <2>2
<1>11. UNCHANGED Abstract!vars
  <2>1. PlacesKept
    <3> SUFFICES ASSUME NEW m \in Label
                 PROVE  /\ IsBound(m)' <=> IsBound(m)
                        /\ IsBound(m) => LabelPos(m)' = LabelPos(m)
      BY DEF PlacesKept
    <3>1. CASE m = l
      BY <3>1 DEF IsBound, LabelPos
    <3>2. CASE m # l
      BY <3>2 DEF IsBound, LabelPos
    <3> QED BY <3>1, <3>2
  <2>2. ~IsBound(l)
    BY DEF IInv, BindingOK
  <2>3. \A k \in DOMAIN jumps : IsBound(jumps[k].label) => operand'[k] = operand[k]
    BY <2>2, <1>3, <1>4
  <2>4. TypeOK
    BY DEF IInv
  <2> QED BY <2>1, <2>3, <2>4, StutterRefines
<1> QED BY <1>7, <1>8, <1>9, <1>10, <1>11 DEF IInv

LEMMA PatchFarInv ==
  ASSUME IInv, PatchFar
  PROVE  IInv' /\ UNCHANGED Abstract!vars
<1> PICK l, j : l = binding.label /\ j = binding.current
  OBVIOUS
<1>1. /\ binding.phase = "far"
      /\ operand' = [operand EXCEPT ![j] = pc - (j + 4)]
      /\ binding' = IF operand[j] # j THEN [binding EXCEPT !.current = operand[j]]
                    ELSE [binding EXCEPT !.phase = "near", !.current = 0]
      /\ waiting' = waiting \ {j}
      /\ UNCHANGED <<pc, label, ok, jumps>>
  BY DEF PatchFar
<1>2. /\ l \in Label /\ ~Idle /\ IsListed(l) /\ j = Head(l)
      /\ binding \in [phase : {"idle", "far", "near"}, label : Label, current : Nat]
  BY <1>1 DEF IInv, TypeOK, Idle, IsListed, Head, InFarLoop
<1>3. /\ j \in Waiting(l) /\ Link(j) \in Waiting(l)
  BY <1>2 DEF IInv, ListsExact, ListExact
<1>4. IsLinked(l) /\ l \notin NearLabel /\ label[l].near = 0
  BY <1>1, <1>2 DEF IInv, BindingOK, KindsApart
<1>5. jumps[j].width = 4 /\ Link(j) = operand[j] /\ j \in DOMAIN jumps
  BY <1>3, <1>4 DEF IInv, TypeOK, KindsApart, Waiting, Link
<1>6. Link(j) \in Nat
  BY <1>3 DEF IInv, TypeOK, Waiting, Positions
<1>7. /\ IsListed(l)' <=> Link(j) # j
      /\ Link(j) # j => Head(l)' = Link(j)
      /\ binding'.label = l /\ ~Idle'
  BY <1>1, <1>2, <1>4, <1>5 DEF IsListed, Head, InFarLoop, IsLinked, IsNearLinked, Idle
<1>8. TypeOK'
  <2>1. binding' \in [phase : {"idle", "far", "near"}, label : Label, current : Nat]
    BY <1>1, <1>2, <1>5, <1>6
  <2>2. operand' \in [DOMAIN jumps -> Int]
    <3>1. operand \in [DOMAIN jumps -> Int] /\ pc \in Nat
      BY DEF IInv, TypeOK, Positions
    <3>2. j \in Nat
      BY <1>2
    <3>3. pc - (j + 4) \in Int
      BY <3>1, <3>2
    <3> QED BY <1>1, <3>1, <3>3
  <2> QED BY <1>1, <2>1, <2>2 DEF IInv, TypeOK
<1>9. KindsApart' /\ BindingOK' /\ ok'
  BY <1>1, <1>2, <1>4 DEF IInv, AssertsHold, KindsApart, BindingOK, IsLinked, IsBound, Idle
<1>10. operand' = [operand EXCEPT ![j] = pc - (j + jumps[j].width)]
  BY <1>1, <1>5
<1>11. \A m \in Label : m # l => label'[m] = label[m]
  BY <1>1
<1> QED BY <1>1, <1>2, <1>7, <1>8, <1>9, <1>10, <1>11, PatchInv

LEMMA PatchNearInv ==
  ASSUME IInv, PatchNear
  PROVE  IInv' /\ UNCHANGED Abstract!vars
<1> PICK l, j : l = binding.label /\ j = NearLinkPos(l)
  OBVIOUS
<1>1. /\ binding.phase = "near" /\ IsNearLinked(l)
      /\ ok' = (operand[j] <= 0 /\ IsInt8(pc - (j + 1)))
      /\ operand' = [operand EXCEPT ![j] = pc - (j + 1)]
      /\ label' = [label EXCEPT ![l].near = IF operand[j] < 0 THEN j + operand[j] + 1 ELSE 0]
      /\ waiting' = waiting \ {j}
      /\ UNCHANGED <<pc, binding, jumps>>
  BY DEF PatchNear
<1>2. /\ l \in Label /\ ~Idle /\ IsListed(l) /\ j = Head(l)
      /\ label \in [Label -> [pos : -pc - 1 .. pc, near : 0 .. pc]]
      /\ pc \in Nat
  BY <1>1 DEF IInv, TypeOK, Idle, IsListed, Head, InFarLoop, Positions
<1>3. /\ j \in Waiting(l) /\ Link(j) \in Waiting(l) /\ Link(j) <= j
  BY <1>2 DEF IInv, ListsExact, ListExact
<1>4. l \in NearLabel /\ ~IsLinked(l)
  BY <1>1, <1>2 DEF IInv, KindsApart, IsNearLinked
<1>5. /\ jumps[j].width = 1 /\ Link(j) = j + operand[j]
      /\ j \in DOMAIN jumps /\ j \in waiting
  BY <1>3, <1>4 DEF IInv, TypeOK, KindsApart, Waiting, Link
<1>6. /\ Link(j) \in Nat /\ j \in Nat /\ operand[j] \in Int
      /\ 1 <= Link(j) /\ Link(j) <= j /\ j + 1 <= pc /\ pc - (j + 1) <= Int8Max
  <2>1. Link(j) \in DOMAIN jumps
    BY <1>3 DEF IInv, TypeOK, Waiting
  <2> QED BY <1>3, <1>5, <2>1 DEF IInv, TypeOK, JumpsBehind, InReach, Positions
<1>7. label'[l].near = IF Link(j) # j THEN Link(j) + 1 ELSE 0
  BY <1>1, <1>2, <1>3, <1>5, <1>6
<1>8. /\ label'[l].pos = label[l].pos
      /\ \A m \in Label : m # l => label'[m] = label[m]
  BY <1>1, <1>2
<1>9. /\ IsListed(l)' <=> Link(j) # j
      /\ Link(j) # j => Head(l)' = Link(j)
  <2>1. ~InFarLoop(l)' /\ ~IsLinked(l)'
    BY <1>1, <1>4, <1>8 DEF InFarLoop, IsLinked
  <2>2. IsNearLinked(l)' <=> label'[l].near > 0
    BY <1>1 DEF IsNearLinked
  <2>4. label'[l].near > 0 <=> Link(j) # j
    BY <1>6, <1>7
  <2>3. Link(j) # j => NearLinkPos(l)' = Link(j)
    BY <1>1, <1>6, <1>7 DEF NearLinkPos
  <2> QED BY <2>1, <2>2, <2>3, <2>4 DEF IsListed, Head
<1>10. ok'
  <2>1. operand[j] <= 0
    BY <1>5, <1>6
  <2>2. IsInt8(pc - (j + 1))
    BY <1>2, <1>6, LabelsAssumption DEF IsInt8
  <2> QED BY <1>1, <2>1, <2>2
<1>11. TypeOK'
  <2>1. label' \in [Label -> [pos : -pc - 1 .. pc, near : 0 .. pc]]
    <3>1. (IF operand[j] < 0 THEN j + operand[j] + 1 ELSE 0) \in 0 .. pc
      BY <1>2, <1>5, <1>6
    <3> QED BY <1>1, <1>2, <3>1
  <2>2. operand' \in [DOMAIN jumps -> Int]
    <3>1. operand \in [DOMAIN jumps -> Int] /\ pc - (j + 1) \in Int
      BY <1>2, <1>6 DEF IInv, TypeOK
    <3> QED BY <1>1, <3>1
  <2> QED BY <1>1, <1>10, <2>1, <2>2 DEF IInv, TypeOK
<1>12. KindsApart' /\ BindingOK'
  BY <1>1, <1>2, <1>4, <1>8 DEF IInv, KindsApart, BindingOK, IsLinked, IsBound, Idle
<1>13. operand' = [operand EXCEPT ![j] = pc - (j + jumps[j].width)] /\ ~Idle'
  BY <1>1, <1>2, <1>5 DEF Idle
<1> QED BY <1>1, <1>2, <1>8, <1>9, <1>10, <1>11, <1>12, <1>13, PatchInv

LEMMA BindDoneInv ==
  ASSUME IInv, BindDone
  PROVE  IInv' /\ Abstract!Next
<1> PICK l : l = binding.label
  OBVIOUS
<1>1. /\ binding.phase = "near" /\ ~IsNearLinked(l)
      /\ label' = [label EXCEPT ![l].pos = -pc - 1]
      /\ binding' = NoBinding
      /\ UNCHANGED <<pc, operand, ok, jumps, waiting>>
  BY DEF BindDone
<1>2. /\ l \in Label /\ ~Idle /\ ~IsBound(l)
      /\ label \in [Label -> [pos : -pc - 1 .. pc, near : 0 .. pc]]
      /\ pc \in Nat
  BY <1>1 DEF IInv, TypeOK, BindingOK, Idle, Positions
<1>3. /\ label'[l].pos = -pc - 1 /\ label'[l].near = label[l].near
      /\ \A m \in Label : m # l => label'[m] = label[m]
      /\ Idle' /\ IsBound(l)' /\ LabelPos(l)' = pc
  BY <1>1, <1>2 DEF NoBinding, Idle, IsBound, LabelPos
<1>4. Waiting(l) = {} /\ ~IsListed(l)
  BY <1>1, <1>2 DEF IInv, ListsExact, ListExact, IsListed, InFarLoop, Idle
<1>5. \A j \in DOMAIN jumps : jumps[j].label = l => Lands(j) = pc
  BY <1>2, <1>4 DEF IInv, AllSettled, Settled, Waiting
<1>6. TypeOK'
  <2>1. NoBinding \in [phase : {"idle", "far", "near"}, label : Label, current : Nat]
    BY LabelsAssumption DEF NoBinding
  <2>2. label' \in [Label -> [pos : -pc - 1 .. pc, near : 0 .. pc]]
    BY <1>1, <1>2
  <2> QED BY <1>1, <2>1, <2>2 DEF IInv, TypeOK
<1>7. ListsExact'
  <2> SUFFICES ASSUME NEW m \in Label PROVE ListExact(m)'
    BY DEF ListsExact
  <2>1. /\ Waiting(m)' = Waiting(m)
        /\ \A j \in Waiting(m) : Link(j)' = Link(j)
        /\ ListExact(m)
    BY <1>1 DEF Waiting, Link, IInv, ListsExact
  <2>2. IsListed(m)' <=> IsListed(m)
    BY <1>1, <1>2, <1>3, <1>4 DEF IsListed, InFarLoop, IsLinked, IsNearLinked, Idle
  <2>3. Waiting(m) # {} => Head(m)' = Head(m)
    BY <1>1, <1>3, <1>4 DEF InFarLoop, IsNearLinked, Head, NearLinkPos, LabelPos, IsBound, Idle
  <2> QED BY <2>1, <2>2, <2>3, ListKept
<1>8. JumpsBehind' /\ InReach' /\ AssertsHold' /\ BindingOK'
  BY <1>1, <1>3 DEF IInv, JumpsBehind, InReach, AssertsHold, BindingOK, Idle
<1>9. KindsApart'
  BY <1>1, <1>2, <1>3 DEF IInv, KindsApart, IsLinked
<1>10. BoundDone'
  BY <1>1, <1>3, <1>4 DEF IInv, BoundDone, Waiting, IsBound
<1>11. AllSettled'
  <2> SUFFICES ASSUME NEW j \in DOMAIN jumps \ waiting PROVE Settled(j)'
    BY <1>1 DEF AllSettled
  <2>1. CASE jumps[j].label = l
    BY <2>1, <1>1, <1>3, <1>5 DEF Settled, Lands
  <2>2. CASE jumps[j].label # l
    <3>1. jumps[j].label \in Label
      BY DEF IInv, TypeOK
    <3>2. IsBound(jumps[j].label) /\ Lands(j) = LabelPos(jumps[j].label)
      BY <2>2 DEF IInv, AllSettled, Settled
    <3>3. label'[jumps[j].label] = label[jumps[j].label] /\ Lands(j)' = Lands(j) /\ jumps' = jumps
      BY <2>2, <3>1, <1>1, <1>3 DEF Lands
    <3> QED BY <3>2, <3>3 DEF Settled, IsBound, LabelPos
  <2> QED BY <2>1, <2>2
<1>12. Abstract!Next
  <2>1. \A j \in DOMAIN jumps :
          IsBound(jumps[j].label)' <=> jumps[j].label = l \/ IsBound(jumps[j].label)
    BY <1>1, <1>2, <1>3 DEF IInv, TypeOK, IsBound
  <2>2. [j \in DOMAIN jumps |-> jumps[j].label]' = [j \in DOMAIN jumps |-> jumps[j].label]
    BY <1>1
  <2>3. [j \in DOMAIN jumps |-> IF IsBound(jumps[j].label) THEN Lands(j) ELSE OpenPlace]'
        = [j \in DOMAIN jumps |->
             IF jumps[j].label = l THEN pc
             ELSE IF IsBound(jumps[j].label) THEN Lands(j) ELSE OpenPlace]
    <3>1. \A j \in DOMAIN jumps : Lands(j)' = Lands(j)
      BY <1>1 DEF Lands
    <3> QED BY <1>1, <1>5, <2>1, <3>1 DEF OpenPlace
  <2>4. [m \in Label |-> IF IsBound(m) THEN LabelPos(m) ELSE OpenPlace]'
        = [[m \in Label |-> IF IsBound(m) THEN LabelPos(m) ELSE OpenPlace] EXCEPT ![l] = pc]
    <3>1. \A m \in Label : m # l => (IsBound(m)' <=> IsBound(m)) /\ LabelPos(m)' = LabelPos(m)
      BY <1>3 DEF IsBound, LabelPos
    <3> QED BY <1>2, <1>3, <3>1 DEF OpenPlace
  <2>5. Abstract!Bind(l, pc)
    BY <1>2, <2>2, <2>3, <2>4 DEF Abstract!Bind
  <2> QED BY <1>2, <2>5 DEF Abstract!Next, IInv, TypeOK
<1> QED BY <1>6, <1>7, <1>8, <1>9, <1>10, <1>11, <1>12 DEF IInv

LEMMA NextInv == IInv /\ [Next]_vars => IInv' /\ [Abstract!Next]_(Abstract!vars)
<1> SUFFICES ASSUME IInv, [Next]_vars PROVE IInv' /\ (Abstract!Next \/ UNCHANGED Abstract!vars)
  OBVIOUS
<1>1. ASSUME NEW n \in Gaps, Emit(n) PROVE IInv' /\ UNCHANGED Abstract!vars
  BY <1>1, EmitInv
<1>2. ASSUME NEW l \in Label, NEW opcode \in {1, 2}, JumpBack(l, opcode)
      PROVE  IInv' /\ Abstract!Next
  BY <1>2, JumpBackInv
<1>3. ASSUME NEW l \in Label, NEW opcode \in {1, 2}, JumpFar(l, opcode)
      PROVE  IInv' /\ Abstract!Next
  BY <1>3, JumpFarInv
<1>4. ASSUME NEW l \in Label, JumpNear(l) PROVE IInv' /\ Abstract!Next
  BY <1>4, JumpNearInv
<1>5. ASSUME NEW l \in Label, BindLabel(l) PROVE IInv' /\ UNCHANGED Abstract!vars
  BY <1>5, BindLabelInv
<1>6. CASE PatchFar
  BY <1>6, PatchFarInv
<1>7. CASE PatchNear
  BY <1>7, PatchNearInv
<1>8. CASE BindDone
  BY <1>8, BindDoneInv
<1>9. CASE UNCHANGED vars
  <2>1. IInv'
    BY <1>9 DEF vars, IInv, TypeOK, AssertsHold, ListsExact, ListExact, JumpsBehind, KindsApart,
      InReach, BindingOK, BoundDone, AllSettled, Settled, Waiting, IsListed, InFarLoop, IsLinked,
      Idle, IsNearLinked, Head, NearLinkPos, LabelPos, IsBound, Link, Lands
  <2>2. PlacesKept /\ TypeOK /\ jumps' = jumps /\ operand' = operand
    BY <1>9 DEF vars, PlacesKept, IsBound, LabelPos, IInv
  <2> QED BY <2>1, <2>2, StutterRefines
<1> QED BY <1>1, <1>2, <1>3, <1>4, <1>5, <1>6, <1>7, <1>8, <1>9 DEF Next, Walk

LEMMA InitRefines == Init => Abstract!Init
<1> SUFFICES ASSUME Init PROVE Abstract!Init
  OBVIOUS
<1>1. DOMAIN jumps = {} /\ \A m \in Label : ~IsBound(m)
  BY DEF Init, IsBound
<1>2. /\ [j \in DOMAIN jumps |-> jumps[j].label] = [j \in {} |-> j]
      /\ [j \in DOMAIN jumps |-> IF IsBound(jumps[j].label) THEN Lands(j) ELSE OpenPlace]
         = [j \in {} |-> j]
      /\ [m \in Label |-> IF IsBound(m) THEN LabelPos(m) ELSE OpenPlace]
         = [m \in Label |-> OpenPlace]
  BY <1>1
<1> QED BY <1>2 DEF Abstract!Init, Abstract!Empty

-----------------------------------------------------------------------------
(* Theorems. *)

\* The strengthening holds in every state, in the middle of a walk too.
THEOREM Inductive == Spec => []IInv
<1> QED BY InitInv, NextInv, PTL DEF Spec

\* Positions stay in the code and labels, operands and the loop of bind_label
\* are well formed.
THEOREM TypeCorrect == Spec => []TypeOK
<1>1. IInv => TypeOK
  BY DEF IInv
<1> QED BY <1>1, Inductive, PTL

\* The asserts of emit_jmp_label, emit_jcc and bind_label hold.
THEOREM NoAssertFails == Spec => []AssertsHold
<1>1. IInv => AssertsHold
  BY DEF IInv
<1> QED BY <1>1, Inductive, PTL

\* The list threaded through the code is exactly the label's waiting jumps.
THEOREM ListsAreExact == Spec => []ListsExact
<1>1. IInv => ListsExact
  BY DEF IInv
<1> QED BY <1>1, Inductive, PTL

\* Every behaviour of the lists is one of LabelSpec: a step of bind_label's
\* loops is no step there, and the last one settles all the label's jumps.
THEOREM ListsImplement == Spec => ImplementsLabels
<1> QED BY InitRefines, InitInv, NextInv, Inductive, PTL DEF Spec, ImplementsLabels, Abstract!Spec

=============================================================================
