------------------------------- MODULE CfgPass -------------------------------
(***************************************************************************)
(* The control-flow pass (pass_cfg.c): cuts the code of a function into    *)
(* units, one for each stretch between two borders of blocks, and notes    *)
(* for every unit where it may go.  Operators on the code emitted so far:  *)
(*                                                                         *)
(*   nodes  the units: fun_cfg, a unit's id is its position                *)
(*   refs   memory references, to be relocated (TsgxPass)                  *)
(*   size   pc_offset, counted in instructions                             *)
(*   tail   how the bytes of the last unit end                             *)
(*   last   the static last_branch                                         *)
(*   ok     FALSE once an assert has failed                                *)
(***************************************************************************)
EXTENDS Naturals, Sequences, FiniteSetsExt

Types  == {"block", "loop", "if", "else"}
States == {"functionStart", "controlStart", "controlEnd"}

\* How a unit ends: with nothing, ordinary code, a jump, a conditional jump, a
\* return, or with code that only looks like a jump: the e9 00 00 00 00 of a
\* select, whose label is right behind it when there is nothing to jump over, or
\* an immediate operand with eb as its last byte but one.
Tails    == {"none", "code", "jmp", "jcc", "ret", "lookalike"}
JumpLike == {"jmp", "lookalike"}

\* What is known of a branch target: TargetKnown, TargetLoopKnown, and
\* ElseUnknown, IfUnknown, BrUnknown.
Unknown     == {"elseUnknown", "ifUnknown", "brUnknown"}
TargetTypes == Unknown \cup {"known", "loopKnown"}

\* border is the type of the block that starts where a unit ends, if one does.
NewTarget(id, type, depth, border) ==
  [id |-> id, type |-> type, depth |-> depth, border |-> border]

NewNode(offset, depth, type, state) ==
  [offset |-> offset, size |-> 0, depth |-> depth, type |-> type,
   state |-> state, targets |-> <<>>]

LastNode(u)  == u.nodes[Len(u.nodes)]
AddTarget(u, t) == [u EXCEPT !.nodes[Len(u.nodes)].targets = Append(@, t)]

IsEndingWithJmp(u) == u.tail \in JumpLike

-----------------------------------------------------------------------------
(* Branches whose target comes later. *)

\* Mutant: the end of an inner block is taken for that of the outer one.
ResolvedByAnyEnd(node, type, depth) ==
  \/ /\ type \in {"elseUnknown", "brUnknown"}
     /\ node.state = "controlEnd"
     /\ depth >= node.depth
  \/ /\ type = "ifUnknown"
     /\ node.state = "controlStart" /\ node.type = "else" /\ depth = node.depth

\* A target of this type and absolute depth is the unit that node begins.
ResolvedBy(node, type, depth) ==
  \/ /\ type \in {"elseUnknown", "brUnknown"}
     /\ node.state = "controlEnd"
     /\ depth = node.depth + 1
  \/ /\ type = "ifUnknown"
     /\ \/ node.state = "controlStart" /\ node.type = "else" /\ depth = node.depth
        \/ node.state = "controlEnd" /\ node.type = "if" /\ depth = node.depth + 1

\* Mutant: only the unit just closed is looked at.
TryPatchLastTarget(u) ==
  LET id       == Len(u.nodes)
      Patch(n) == [n EXCEPT !.targets = [k \in DOMAIN n.targets |->
                    LET t == n.targets[k]
                    IN  IF ResolvedBy(LastNode(u), t.type, n.depth - t.depth)
                        THEN [t EXCEPT !.id = id, !.type = "known"]
                        ELSE t]]
  IN  [u EXCEPT !.nodes[id - 1] = Patch(@)]

TryPatchTarget(u) ==
  LET id       == Len(u.nodes)
      Patch(n) == [n EXCEPT !.targets = [k \in DOMAIN n.targets |->
                    LET t == n.targets[k]
                    IN  IF ResolvedBy(LastNode(u), t.type, n.depth - t.depth)
                        THEN [t EXCEPT !.id = id, !.type = "known"]
                        ELSE t]]
  IN  [u EXCEPT !.nodes = [i \in 1 .. id |-> IF i < id THEN Patch(u.nodes[i])
                                             ELSE u.nodes[i]]]

\* A branch to a loop goes back: the most recent unit at the depth it names is
\* looked up.  Only for br 0 is a unit that begins with the end of an inner
\* block exchanged for the one that begins its own block.
UpdateBranch(u, t) ==
  LET depth     == LastNode(u).depth - t.depth
      At        == {i \in DOMAIN u.nodes : u.nodes[i].depth = depth}
      latest    == Max(At)
      StartsAt  == {i \in At : i < latest /\ u.nodes[i].state = "controlStart"}
      inLoop    == /\ t.depth = 0
                   /\ u.nodes[latest].state = "controlEnd"
                   /\ u.nodes[Max(StartsAt)].type = "loop"
      found     == IF inLoop THEN Max(StartsAt) ELSE latest
      IsLoop(i) == u.nodes[i].type = "loop" /\ u.nodes[i].state = "controlStart"
  IN  IF IsLoop(found) THEN [t EXCEPT !.id = found, !.type = "loopKnown"] ELSE t

\* assert(target_node != NULL), assert(start_node != NULL).
UpdateBranchOK(u, t) ==
  LET depth    == LastNode(u).depth - t.depth
      At       == {i \in DOMAIN u.nodes : u.nodes[i].depth = depth}
      Starts   == {i \in At : i < Max(At) /\ u.nodes[i].state = "controlStart"}
  IN  At # {} /\ (t.depth = 0 /\ u.nodes[Max(At)].state = "controlEnd" => Starts # {})

-----------------------------------------------------------------------------
(* The hooks. *)

\* Mutant: the body of the function does not count as a block.
FunctionStartAtZero(u) ==
  [u EXCEPT !.nodes = <<NewNode(0, 0, "block", "functionStart")>>]

FunctionStart(u) ==
  [u EXCEPT !.nodes = <<NewNode(0, 1, "block", "functionStart")>>]

\* A unit is closed and the next one begins.
Close(u, depth, type, state) ==
  LET id     == Len(u.nodes)
      closed == [u.nodes EXCEPT ![id].size = u.size - u.nodes[id].offset]
  IN  TryPatchTarget([u EXCEPT
        !.nodes = Append(closed, NewNode(u.size, depth, type, state))])

\* Where a unit goes that is closed by the start of a block: on, except before
\* an else.
AtStart(u, type) ==
  IF LastNode(u).state = "controlStart" /\ type = "else"
  THEN NewTarget(0, "elseUnknown", 0, type)
  ELSE NewTarget(Len(u.nodes) + 1, "known", 0, type)

ControlStart(u, type, depth) ==
  LET skip == IsEndingWithJmp(u) /\ u.last # "br_if" /\ type # "block"
  IN  Close(IF skip THEN u ELSE AddTarget(u, AtStart(u, type)),
            depth, type, "controlStart")

ControlEnd(u, type, depth) ==
  LET skip == IsEndingWithJmp(u) /\ u.last # "br_if"
  IN  Close(IF skip THEN u
            ELSE AddTarget(u, NewTarget(Len(u.nodes) + 1, "known", 0, "end")),
            depth, type, "controlEnd")

\* Only the end of an if without else emits a jump for the opcode end.
UnknownFor(op) == IF op \in {"end", "else"} THEN "elseUnknown"
                  ELSE IF op = "if" THEN "ifUnknown"
                  ELSE "brUnknown"

BranchEnd(u, op, depth) ==
  LET t    == NewTarget(0, UnknownFor(op), depth, "branch")
      isBr == t.type = "brUnknown"
      ok   == isBr => UpdateBranchOK(u, t)
  IN  [AddTarget(u, IF isBr /\ ok THEN UpdateBranch(u, t) ELSE t)
         EXCEPT !.last = op, !.ok = @ /\ ok]

\* onInstructionEnd, after the last instruction of the function.
FunctionEnd(u) ==
  [u EXCEPT !.nodes[Len(u.nodes)].size = u.size - LastNode(u).offset]

=============================================================================
