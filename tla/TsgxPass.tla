------------------------------ MODULE TsgxPass ------------------------------
(***************************************************************************)
(* The T-SGX pass (pass_tsgx.c), which runs after the control-flow pass on *)
(* every hook: a unit that is closed gets a jump to where it goes on, and  *)
(* every jump becomes a memory reference that names the unit it goes to.   *)
(* With split, the jump goes by the springboard, which begins a new        *)
(* transaction and jumps to the address in r15.                            *)
(*                                                                         *)
(* A reference is lea (MEMREF_LEA_NEXT: offset of the instruction, unit    *)
(* where it was made, id of the target, its type and absolute depth) or    *)
(* springboard (MEMREF_SPRINGBOARD_NEXT).  goal is not in the program:     *)
(* the place that the jump is for.                                         *)
(***************************************************************************)
EXTENDS CfgPass

LeaNext(u, unit, t, offset, goal) ==
  [kind |-> "lea", offset |-> offset, unit |-> unit, id |-> t.id,
   type |-> t.type, depth |-> u.nodes[unit].depth - t.depth, goal |-> goal]

\* new_memref clears what is not set here.
SpringboardNext(offset) ==
  [kind |-> "springboard", offset |-> offset, unit |-> 1, id |-> 0,
   type |-> "none", depth |-> 0, goal |-> [of |-> 0, part |-> "springboard"]]

\* The jump at offset, or lea r15 there and a jump to the springboard.
Jump(u, unit, t, split, offset, goal) ==
  LET lea == LeaNext(u, unit, t, offset, goal)
  IN  IF split
      THEN [u EXCEPT !.refs = @ \o <<lea, SpringboardNext(offset + 1)>>,
                     !.size = offset + 2]
      ELSE [u EXCEPT !.refs = Append(@, lea), !.size = offset + 1]

\* Mutant: units that a br_if may end are not told apart.
SkipsAfterBrIf(u, targets) == IsEndingWithJmp(u)

\* Mutant: a unit without code is taken to need no jump.
SkipsEmpty(u, targets) ==
  \/ u.tail = "none"
  \/ u.last # "br_if" /\ IsEndingWithJmp(u)

\* "If the last instruction is already jmp, skip.": at the start of a block
\* only if the jump is not relocated yet.
Skips(u, targets) ==
  /\ u.last # "br_if"
  /\ \/ u.tail = "lookalike"
     \/ /\ u.tail = "jmp"
        /\ targets # <<>> => targets[Len(targets)].border # "block"

InsertJump(u, split, goal) ==
  LET unit    == Len(u.nodes) - 1
      targets == u.nodes[unit].targets
  IN  IF Skips(u, targets) THEN u
      ELSE Jump(u, unit, targets[Len(targets)], split, u.size, goal)

TryPatchRefs(u) ==
  LET node == LastNode(u)
  IN  [u EXCEPT !.refs = [k \in DOMAIN @ |->
         IF @[k].kind = "lea" /\ ResolvedBy(node, @[k].type, @[k].depth)
         THEN [@[k] EXCEPT !.id = Len(u.nodes), !.type = "known"]
         ELSE @[k]]]

\* Mutant: the unit begun still counts the inserted jump as its own.
BorderUnmoved(u, goal) ==
  LET split == LastNode(u).type = "loop"
      v     == InsertJump(u, split, goal)
  IN  TryPatchRefs([v EXCEPT !.nodes[Len(u.nodes) - 1].size = @ + (v.size - u.size),
                             !.tail = "none"])

\* onControlStart and onControlEnd, for the unit closed and the one begun.
Border(u, goal) ==
  LET split == LastNode(u).type = "loop"
      v     == InsertJump(u, split, goal)
      extra == v.size - u.size
      n     == Len(u.nodes)
  IN  TryPatchRefs([v EXCEPT !.nodes[n - 1].size = @ + extra,
                             !.nodes[n].offset = u.size + extra,
                             !.tail = "none"])

\* onBranchEnd: the jump just emitted is replaced, or only recorded.
BranchJump(u, goal) ==
  LET node  == LastNode(u)
      t     == node.targets[Len(node.targets)]
      split == node.type = "loop" /\ t.type # "loopKnown"
  IN  Jump(u, Len(u.nodes), t, split, u.size - 1, goal)

=============================================================================
