------------------------------- MODULE Labels -------------------------------
(***************************************************************************)
(* Labels and the jumps to them (assembler.c).  A label has no list of the *)
(* jumps that wait for it: the list is threaded through the code.  The     *)
(* operand of a Far jump holds the position of the operand before it, that *)
(* of the first one its own; the operand of a Near jump, a byte, holds the *)
(* distance back, and the first one 0.  bind_label walks both lists and    *)
(* puts the distance to the label in place of each link.                   *)
(*                                                                         *)
(* A step of its loops is an action: nothing else runs between two, but    *)
(* whether the walk ends, and what it has met, is what is to be shown.     *)
(***************************************************************************)
EXTENDS Integers, FiniteSets

CONSTANTS Label,
          NearLabel,  \* the labels whose jumps are Near: no caller mixes them
          Int8Max,    \* 127
          MaxCode,    \* bytes of code
          MaxJumps,   \* jumps in it
          Gaps        \* bytes that other code takes, between jumps

ASSUME LabelsAssumption ==
  /\ Label # {} /\ NearLabel \subseteq Label
  /\ Int8Max \in Nat /\ MaxCode \in Nat /\ MaxJumps \in Nat
  /\ Gaps \subseteq Nat

VARIABLES pc,       \* pc_offset(output)
          operand,  \* the operands of the jumps in the code, by position
          label,    \* the label_t of each label: pos and near_link_pos
          binding,  \* the loop of bind_label: phase, label, current
          ok,       \* FALSE once an assert has failed
          jumps,    \* not in the program: label and width of each operand
          waiting   \* not in the program: operands that still are links

vars == <<pc, operand, label, binding, ok, jumps, waiting>>

IsInt8(v) == v \in -Int8Max - 1 .. Int8Max

\* label_t: 0 is unused, p + 1 linked at p, -p - 1 bound to p.
IsBound(l)      == label[l].pos < 0
IsLinked(l)     == label[l].pos > 0
IsNearLinked(l) == label[l].near > 0
IsUnused(l)     == label[l].pos = 0 /\ label[l].near = 0
LabelPos(l)     == IF IsBound(l) THEN -label[l].pos - 1 ELSE label[l].pos - 1
NearLinkPos(l)  == label[l].near - 1

NoBinding == [phase |-> "idle", label |-> CHOOSE l \in Label : TRUE, current |-> 0]
Idle      == binding.phase = "idle"

Init ==
  /\ pc = 0
  /\ operand = [j \in {} |-> 0]
  /\ label = [l \in Label |-> [pos |-> 0, near |-> 0]]
  /\ binding = NoBinding
  /\ ok = TRUE
  /\ jumps = [j \in {} |-> 0]
  /\ waiting = {}

-----------------------------------------------------------------------------
(* Code and jumps. *)

\* The callers' part: a Near jump is bound before it is out of reach.
Reaches(end) ==
  /\ end <= MaxCode
  /\ \A j \in waiting : jumps[j].width = 1 => end - (j + 1) <= Int8Max

Emit(n) ==
  /\ Idle /\ ok /\ Reaches(pc + n)
  /\ pc' = pc + n
  /\ UNCHANGED <<operand, label, binding, ok, jumps, waiting>>

\* The jump to l whose operand of this width is at position j and holds v.
Put(l, j, width, v) ==
  /\ Reaches(j + width) /\ Cardinality(DOMAIN jumps) < MaxJumps
  /\ pc' = j + width
  /\ operand' = [k \in DOMAIN operand \cup {j} |-> IF k = j THEN v ELSE operand[k]]
  /\ jumps' = [k \in DOMAIN jumps \cup {j} |->
                 IF k = j THEN [label |-> l, width |-> width] ELSE jumps[k]]
  /\ UNCHANGED binding

\* Mutant: the long jcc is taken for as long as the jmp.
JumpBackShort(l, opcode) ==
  LET offset == LabelPos(l) - pc
  IN  /\ Idle /\ ok /\ IsBound(l)
      /\ IF IsInt8(offset - 2) THEN Put(l, pc + 1, 1, offset - 2)
                               ELSE Put(l, pc + opcode, 4, offset - 5)
      /\ UNCHANGED <<label, ok, waiting>>

\* The opcode before a long operand: one byte for a jmp, two for a jcc.
JumpBack(l, opcode) ==
  LET offset == LabelPos(l) - pc
  IN  /\ Idle /\ ok /\ IsBound(l)
      /\ IF IsInt8(offset - 2) THEN Put(l, pc + 1, 1, offset - 2)
                               ELSE Put(l, pc + opcode, 4, offset - opcode - 4)
      /\ UNCHANGED <<label, ok, waiting>>

\* Mutant: the link is a position, as that of a Far jump is.
JumpNearFar(l) ==
  /\ Idle /\ ok /\ ~IsBound(l) /\ l \in NearLabel
  /\ Put(l, pc + 1, 1, IF IsNearLinked(l) THEN NearLinkPos(l) ELSE 0)
  /\ label' = [label EXCEPT ![l].near = pc + 2]
  /\ ok' = (IsNearLinked(l) => IsInt8(NearLinkPos(l)))
  /\ waiting' = waiting \cup {pc + 1}

JumpNear(l) ==
  LET offset == NearLinkPos(l) - (pc + 1)
  IN  /\ Idle /\ ok /\ ~IsBound(l) /\ l \in NearLabel
      /\ Put(l, pc + 1, 1, IF IsNearLinked(l) THEN offset ELSE 0)
      /\ label' = [label EXCEPT ![l].near = pc + 2]
      /\ ok' = (IsNearLinked(l) => IsInt8(offset))
      /\ waiting' = waiting \cup {pc + 1}

\* Mutant: the label is linked to the end of the operand.
JumpFarBehind(l, opcode) ==
  LET current == pc + opcode
  IN  /\ Idle /\ ok /\ ~IsBound(l) /\ l \notin NearLabel
      /\ Put(l, current, 4, IF IsLinked(l) THEN LabelPos(l) ELSE current)
      /\ label' = [label EXCEPT ![l].pos = current + 5]
      /\ ok' = (IsLinked(l) \/ IsUnused(l))
      /\ waiting' = waiting \cup {current}

\* Mutant: the first jump holds 0, as if that were no position.
JumpFarFromZero(l, opcode) ==
  LET current == pc + opcode
  IN  /\ Idle /\ ok /\ ~IsBound(l) /\ l \notin NearLabel
      /\ Put(l, current, 4, IF IsLinked(l) THEN LabelPos(l) ELSE 0)
      /\ label' = [label EXCEPT ![l].pos = current + 1]
      /\ ok' = (IsLinked(l) \/ IsUnused(l))
      /\ waiting' = waiting \cup {current}

JumpFar(l, opcode) ==
  LET current == pc + opcode
  IN  /\ Idle /\ ok /\ ~IsBound(l) /\ l \notin NearLabel
      /\ Put(l, current, 4, IF IsLinked(l) THEN LabelPos(l) ELSE current)
      /\ label' = [label EXCEPT ![l].pos = current + 1]
      /\ ok' = (IsLinked(l) \/ IsUnused(l))
      /\ waiting' = waiting \cup {current}

-----------------------------------------------------------------------------
(* bind_label(output, label, pc_offset(output)). *)

BindLabel(l) ==
  /\ Idle /\ ok /\ ~IsBound(l)
  /\ binding' = [phase |-> IF IsLinked(l) THEN "far" ELSE "near",
                 label |-> l, current |-> IF IsLinked(l) THEN LabelPos(l) ELSE 0]
  /\ UNCHANGED <<pc, operand, label, ok, jumps, waiting>>

\* Mutant: the link is read after the operand is patched.
PatchFarFirst ==
  LET current == binding.current
      next    == pc - (current + 4)
  IN  /\ binding.phase = "far"
      /\ operand' = [operand EXCEPT ![current] = pc - (current + 4)]
      /\ binding' = IF next # current /\ next \in DOMAIN operand
                    THEN [binding EXCEPT !.current = next]
                    ELSE [binding EXCEPT !.phase = "near", !.current = 0]
      /\ waiting' = waiting \ {current}
      /\ UNCHANGED <<pc, label, ok, jumps>>

\* The last operand of the list is patched after the loop.
PatchFar ==
  LET current == binding.current
      next    == operand[current]
  IN  /\ binding.phase = "far"
      /\ operand' = [operand EXCEPT ![current] = pc - (current + 4)]
      /\ binding' = IF next # current THEN [binding EXCEPT !.current = next]
                    ELSE [binding EXCEPT !.phase = "near", !.current = 0]
      /\ waiting' = waiting \ {current}
      /\ UNCHANGED <<pc, label, ok, jumps>>

PatchNear ==
  LET l    == binding.label
      fix  == NearLinkPos(l)
      back == operand[fix]
      disp == pc - (fix + 1)
  IN  /\ binding.phase = "near" /\ IsNearLinked(l) /\ ok
      /\ ok' = (back <= 0 /\ IsInt8(disp))
      /\ operand' = [operand EXCEPT ![fix] = disp]
      /\ label' = [label EXCEPT ![l].near = IF back < 0 THEN fix + back + 1 ELSE 0]
      /\ waiting' = waiting \ {fix}
      /\ UNCHANGED <<pc, binding, jumps>>

BindDone ==
  LET l == binding.label
  IN  /\ binding.phase = "near" /\ ~IsNearLinked(l) /\ ok
      /\ label' = [label EXCEPT ![l].pos = -pc - 1]
      /\ binding' = NoBinding
      /\ UNCHANGED <<pc, operand, ok, jumps, waiting>>

Walk == PatchFar \/ PatchNear \/ BindDone

Next ==
  \/ \E n \in Gaps : Emit(n)
  \/ \E l \in Label : \/ \E opcode \in {1, 2} : JumpBack(l, opcode) \/ JumpFar(l, opcode)
                      \/ JumpNear(l)
                      \/ BindLabel(l)
  \/ Walk

\* bind_label is called, and runs until it returns.
Spec == Init /\ [][Next]_vars /\ WF_vars(Walk)

-----------------------------------------------------------------------------
(* Properties. *)

Positions == 0 .. MaxCode

TypeOK ==
  /\ pc \in Positions
  /\ DOMAIN jumps \subseteq Positions
  /\ jumps \in [DOMAIN jumps -> [label : Label, width : {1, 4}]]
  /\ operand \in [DOMAIN jumps -> Int]
  /\ label \in [Label -> [pos : -pc - 1 .. pc, near : 0 .. pc]]
  /\ binding \in [phase : {"idle", "far", "near"}, label : Label, current : Nat]
  /\ ok \in BOOLEAN
  /\ waiting \subseteq DOMAIN jumps

\* No assert of the emitters and of bind_label fails (assembler.c 193, 195,
\* 2045, 2059, 2119, 2131), as long as the callers keep Near jumps in reach.
AssertsHold == ok

\* The list of a label: where it starts, and what follows an operand in it, which
\* is the operand itself at the end.
InFarLoop(l) == binding.phase = "far" /\ binding.label = l
IsListed(l)  == \/ InFarLoop(l)
                \/ IsLinked(l) /\ (binding.label # l \/ Idle)
                \/ IsNearLinked(l)
Head(l)      == IF InFarLoop(l) THEN binding.current
                ELSE IF IsNearLinked(l) THEN NearLinkPos(l) ELSE LabelPos(l)
Link(j)      == IF jumps[j].width = 4 THEN operand[j] ELSE j + operand[j]
Waiting(l)   == {j \in waiting : jumps[j].label = l}

ListExact(l) ==
  /\ IsListed(l) <=> Waiting(l) # {}
  /\ Waiting(l) # {} => /\ Head(l) \in Waiting(l)
                        /\ \A j \in Waiting(l) : j <= Head(l)
  /\ \A j \in Waiting(l) :
       /\ Link(j) \in Waiting(l)
       /\ Link(j) <= j
       /\ \A k \in Waiting(l) : k < j => k <= Link(j) /\ Link(j) < j

\* However the jumps to different labels mix, and in the middle of a walk too,
\* the list of a label is exactly its jumps that wait, from the last one back to
\* the first: it skips none, takes none of another label, and has no cycle.
ListsExact == \A l \in Label : ListExact(l)

\* Where a jump goes: the operand counts from its own end.
Lands(j) == j + jumps[j].width + operand[j]

OpenPlace == -1
Abstract == INSTANCE LabelSpec WITH
  Address <- Positions,
  Open    <- OpenPlace,
  aim     <- [j \in DOMAIN jumps |-> jumps[j].label],
  lands   <- [j \in DOMAIN jumps |->
                IF IsBound(jumps[j].label) THEN Lands(j) ELSE OpenPlace],
  place   <- [l \in Label |-> IF IsBound(l) THEN LabelPos(l) ELSE OpenPlace]

\* The lists in the code do what is promised of labels: every jump goes to where
\* its label is bound, before it or after it, and no binding touches a jump to
\* another label.
ImplementsLabels == Abstract!Spec

\* bind_label returns: its loop has only the links in the code to end it.
BindEnds == binding.phase # "idle" ~> binding.phase = "idle"

=============================================================================
