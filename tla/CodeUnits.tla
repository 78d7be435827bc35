------------------------------ MODULE CodeUnits ------------------------------
(***************************************************************************)
(* A function cut into code units and put together again: the hooks that   *)
(* compile.c calls while it compiles structured control flow, what the     *)
(* control-flow pass and the T-SGX pass do at each (CfgPass, TsgxPass),    *)
(* and how instantiate.c and relocate.c place the units and resolve the    *)
(* references.  The values on the stack play no part here; ControlFlow is  *)
(* about them.                                                             *)
(*                                                                         *)
(* After placing, no unit is next to the one that followed it: every way   *)
(* from a unit to another is a jump that the passes have recorded.         *)
(***************************************************************************)
EXTENDS TsgxPass, SequencesExt

CONSTANTS MaxDepth,  \* nesting of blocks, the body counts
          MaxUnits,  \* units of a function
          MaxRefs,   \* references of a function
          MaxSize,   \* its instructions, those of its borders not counted
          Code       \* how straight-line code may end

ASSUME CodeUnitsAssumption ==
  /\ {MaxDepth, MaxUnits, MaxRefs, MaxSize} \subseteq Nat \ {0}
  /\ Code \subseteq {"code", "lookalike"}

VARIABLES control,  \* the control stack, innermost block last
          code,     \* the code emitted and what the passes keep (CfgPass)
          bound,    \* unit that each place begins with; not in the program
          entries   \* relocation entries, once the function is placed

vars == <<control, code, bound, entries>>

-----------------------------------------------------------------------------
(* Blocks, and the places that jumps are for. *)

Reaches == {"reachable", "specOnly", "unreachable"}

Block(id, type, reach) ==
  [id |-> id, type |-> type, reach |-> reach, endReached |-> FALSE,
   inner |-> FALSE]  \* inner: a block in it has ended

Depth      == Len(control)
Current    == control[Depth]
Target(k)  == control[Depth - k]
Live(c)    == c.reach = "reachable"
Compiling  == Depth > 0 /\ code.ok /\ Current.reach # "unreachable"
Inner(c)   == IF Live(c) THEN "reachable" ELSE "specOnly"

Label(id, part) == [of |-> id, part |-> part]
LabelOf(c)      == Label(c.id, IF c.type = "loop" THEN "start" ELSE "end")

\* stray marks the jump from inside an inner block to a loop that has had an
\* inner block before: Stray below.
Jumped(k) ==
  LET c == Target(k)
  IN  [of |-> c.id,
       part |-> IF c.type = "loop" THEN IF k > 0 /\ c.inner THEN "stray" ELSE "start"
                ELSE "end"]

Parts  == {"start", "else", "end", "stray", "next", "dropped", "dead", "springboard"}
Places == [of : 0 .. MaxUnits, part : Parts]

\* Where the last unit goes on when it is closed: with the next unit, if
\* execution gets to its end.  Code that only looks like a jump is set apart.
TakenForJump(u) == u.tail = "lookalike" /\ u.last # "br_if"

OnTo(falls, u) ==
  Label(Len(u.nodes) + 1,
        IF ~falls THEN "dead" ELSE IF TakenForJump(u) THEN "dropped" ELSE "next")

Bind(f, l, id) == [m \in DOMAIN f \cup {l} |-> IF m = l THEN id ELSE f[m]]

BindNext(f, falls, u) == Bind(f, OnTo(falls, u), Len(u.nodes) + 1)

-----------------------------------------------------------------------------
(* Emitting code, with the hooks of both passes. *)

Emit(u, tail) == [u EXCEPT !.size = @ + 1, !.tail = tail]

\* uncond_jmp and cond_jmp.
Branch(u, op, tail, k, goal) ==
  LET v == BranchEnd(Emit(u, tail), op, k)
  IN  IF v.ok THEN BranchJump(v, goal) ELSE v

StartUnit(u, type, depth, falls) ==
  LET v == ControlStart(u, type, depth)
  IN  Border(v, OnTo(falls, u))

EndUnit(u, type, depth, falls) ==
  LET v == ControlEnd(u, type, depth)
  IN  Border(v, OnTo(falls, u))

\* return_impl ends the function, anything else jumps to the label.
Outermost(k)     == k = Depth - 1
BrOrRet(u, op, k) == IF Outermost(k) THEN Emit(u, "ret")
                     ELSE Branch(u, op, "jmp", k, Jumped(k))

Reach(targets) ==
  [i \in DOMAIN control |->
     IF Depth - i \in targets /\ control[i].type # "loop"
     THEN [control[i] EXCEPT !.endReached = TRUE]
     ELSE control[i]]

EndControl(c) == [c EXCEPT ![Depth].reach = "unreachable"]

Init ==
  /\ control = <<Block(1, "block", "reachable")>>
  /\ \E last \in {"none", "br_if"} :  \* last_branch of the function before
       code = FunctionStart([nodes |-> <<>>, refs |-> <<>>, size |-> 0,
                             tail |-> "none", last |-> last, ok |-> TRUE])
  /\ bound = << >>
  /\ entries = << >>

-----------------------------------------------------------------------------
(* One action per opcode. *)

Space(n) == code.size + n <= MaxSize

\* Any code without branches.  Twice the same tells nothing new.
Straight ==
  /\ Compiling /\ Space(1)
  /\ \E tail \in Code \ {code.tail} : code' = Emit(code, tail)
  /\ UNCHANGED <<control, bound, entries>>

Room(n) == Len(code.nodes) + n <= MaxUnits
RefRoom(n) == Len(code.refs) + n <= MaxRefs

Opened(type) ==
  Append(control, Block(Len(code.nodes) + 1, type, Inner(Current)))

OpenBlock ==
  /\ Compiling /\ Depth < MaxDepth /\ Room(1)
  /\ control' = Opened("block")
  /\ code' = StartUnit(code, "block", Depth + 1, Live(Current))
  /\ bound' = BindNext(bound, Live(Current), code)
  /\ UNCHANGED entries

OpenLoop ==
  /\ Compiling /\ Depth < MaxDepth /\ Room(1)
  /\ control' = Opened("loop")
  /\ code' = StartUnit(code, "loop", Depth + 1, Live(Current))
  /\ bound' = Bind(BindNext(bound, Live(Current), code),
                   Label(Len(code.nodes) + 1, "start"), Len(code'.nodes))
  /\ UNCHANGED entries

OpenIf ==
  /\ Compiling /\ Depth < MaxDepth /\ Room(1) /\ RefRoom(1)
  /\ control' = Opened("if")
  /\ code' = Branch(StartUnit(code, "if", Depth + 1, Live(Current)),
                    "if", "jcc", 0, Label(Len(code.nodes) + 1, "else"))
  /\ bound' = BindNext(bound, Live(Current), code)
  /\ UNCHANGED entries

\* The jump over the else arm, if the arm before it ends.
EndArm(op) == IF Live(Current) THEN Branch(code, op, "jmp", 0, Label(Current.id, "end"))
              ELSE code

Else ==
  /\ Depth > 1 /\ code.ok /\ Current.type = "if" /\ Room(1) /\ RefRoom(2)
  /\ control' = [control EXCEPT
       ![Depth] = [Current EXCEPT !.type = "else", !.reach = Inner(control[Depth - 1]),
                                  !.endReached = Current.endReached \/ Live(Current)]]
  /\ code' = StartUnit(EndArm("else"), "else", Depth, FALSE)
  /\ bound' = Bind(bound, Label(Current.id, "else"), Len(code'.nodes))
  /\ UNCHANGED entries

\* The block that is left, and the one around it: reached only if something
\* reaches the end of the inner one.
Outside(reached) ==
  LET outer == Front(control)
      c     == outer[Depth - 1]
  IN  [outer EXCEPT ![Depth - 1] =
         [c EXCEPT !.reach = IF ~reached /\ Live(c) THEN "specOnly" ELSE c.reach,
                   !.inner = TRUE]]

End ==
  /\ Depth > 1 /\ code.ok /\ Current.type # "if" /\ Room(1)
  /\ control' = Outside(Live(Current) \/ Current.endReached)
  /\ code' = EndUnit(code, Current.type, Depth - 1, Live(Current))
  /\ bound' = Bind(BindNext(bound, Live(Current), code),
                   Label(Current.id, "end"), Len(code'.nodes))
  /\ UNCHANGED entries

\* An if without else gets one, with the code of a merge or with none.
EndOneArmedIf ==
  /\ Depth > 1 /\ code.ok /\ Current.type = "if" /\ Room(2) /\ RefRoom(2)
  /\ control' = Outside(TRUE)
  /\ \E tail \in {"none"} \cup Code :
       LET bare  == StartUnit(EndArm("end"), "else", Depth, FALSE)
           arm   == IF tail = "none" THEN bare ELSE Emit(bare, tail)
           falls == Live(control[Depth - 1])
       IN  /\ code' = EndUnit(arm, "if", Depth - 1, falls)
           /\ bound' = Bind(BindNext(Bind(bound, Label(Current.id, "else"), Len(arm.nodes)),
                                     falls, arm),
                            Label(Current.id, "end"), Len(code'.nodes))
  /\ UNCHANGED entries

Return ==
  /\ Compiling /\ Space(1)
  /\ control' = EndControl(control)
  /\ code' = Emit(code, "ret")
  /\ UNCHANGED <<bound, entries>>

\* Nothing is emitted for unreachable.  In an else arm compilation goes on as if
\* it were not there.
Unreachable ==
  /\ Compiling
  /\ Current.type # "else"
  /\ control' = EndControl(control)
  /\ UNCHANGED <<code, bound, entries>>

Br(k) ==
  /\ Compiling
  /\ Live(Current) \/ Outermost(k)
  /\ RefRoom(1) /\ Space(1)
  /\ control' = EndControl(IF Outermost(k) THEN control ELSE Reach({k}))
  /\ code' = BrOrRet(code, "br", k)
  /\ UNCHANGED <<bound, entries>>

\* In code that nothing reaches a jump is dropped.
BrDropped(k) ==
  /\ Compiling /\ ~Live(Current) /\ ~Outermost(k)
  /\ control' = EndControl(control)
  /\ UNCHANGED <<code, bound, entries>>

\* A jump over the branch, to a label of its own that is bound right behind it.
BrIf(k) ==
  /\ Compiling /\ Live(Current) /\ RefRoom(1) /\ Space(2)
  /\ control' = Reach({k})
  /\ code' = BrOrRet(Emit(code, "jcc"), "br_if", k)
  /\ UNCHANGED <<bound, entries>>

\* generate_br_case for one label after the other.
Cases(labels) ==
  LET case[n \in 0 .. Len(labels)] ==
        IF n = 0 THEN Emit(code, "jcc") ELSE BrOrRet(case[n - 1], "br_table", labels[n])
  IN  case[Len(labels)]

\* One case for every label, where the table first names it; the conditional
\* jumps between the cases stay in the unit.
BrTable(labels) ==
  /\ Compiling /\ Live(Current) /\ RefRoom(Len(labels)) /\ Space(Len(labels) + 1)
  /\ control' = EndControl(Reach(Range(labels)))
  /\ code' = Cases(labels)
  /\ UNCHANGED <<bound, entries>>

\* The last end, or a return just before it.
EndFunction ==
  /\ Depth = 1 /\ code.ok
  /\ control' = << >>
  /\ code' = FunctionEnd(Emit(code, "ret"))
  /\ UNCHANGED <<bound, entries>>

-----------------------------------------------------------------------------
(* Placing and relocation. *)

\* Mutant: a reference that opens its unit is taken for the one before.
UnitBefore(ref) ==
  LET Before == {j \in 2 .. Len(code.nodes) : code.nodes[j].offset < ref.offset}
  IN  IF Before = {} THEN ref.unit ELSE Max(Before)

\* convert_to_unit_relo_info: the last unit that begins at or before the
\* reference; those of the first unit are left as they are.
UnitAt(ref) ==
  LET Before == {j \in 2 .. Len(code.nodes) : code.nodes[j].offset <= ref.offset}
  IN  IF Before = {} THEN ref.unit ELSE Max(Before)

\* RELO_LEA_NEXT: empty units have no place, the next one stands for them.
Placed(id) == Min({j \in id .. Len(code.nodes) : code.nodes[j].size > 0})

Lea(r) == r.kind = "lea"

Relocated(r) ==
  LET unit == UnitAt(r)
  IN  [unit |-> unit, offset |-> r.offset - code.nodes[unit].offset,
       target |-> IF Lea(r) THEN Placed(r.id) ELSE 0]

TrackSize ==
  LET track[n \in 0 .. Len(code.nodes)] ==
        IF n = 0 THEN 0 ELSE track[n - 1] + code.nodes[n].size
  IN  track[Len(code.nodes)]

\* assert(track_size == code_size), assert(target != NULL).
RelocatesOK ==
  /\ TrackSize = code.size
  /\ \A k \in DOMAIN code.refs :
       Lea(code.refs[k]) =>
         \E j \in code.refs[k].id .. Len(code.nodes) : j > 0 /\ code.nodes[j].size > 0

Relocate ==
  /\ Depth = 0 /\ code.ok /\ entries = << >> /\ code.refs # << >>
  /\ code' = [code EXCEPT !.ok = RelocatesOK]
  /\ entries' = IF RelocatesOK
                THEN [k \in DOMAIN code.refs |-> Relocated(code.refs[k])]
                ELSE << >>
  /\ UNCHANGED <<control, bound>>

Next ==
  \/ Straight
  \/ OpenBlock \/ OpenLoop \/ OpenIf
  \/ Else \/ End \/ EndOneArmedIf
  \/ Return \/ Unreachable
  \/ \E k \in 0 .. Depth - 1 : Br(k) \/ BrDropped(k) \/ BrIf(k)
  \/ \E ks \in SUBSET (0 .. Depth - 1) \ {{}} : \E labels \in SetToSeqs(ks) : BrTable(labels)
  \/ EndFunction
  \/ Relocate

Spec == Init /\ [][Next]_vars

-----------------------------------------------------------------------------
(* Properties. *)

TypeOK ==
  /\ \A i \in DOMAIN control :
       control[i] \in [id : 1 .. MaxUnits, type : Types, reach : Reaches,
                      endReached : BOOLEAN, inner : BOOLEAN]
  /\ \A i \in DOMAIN code.nodes :
       LET n == code.nodes[i]
       IN  /\ n.type \in Types /\ n.state \in States /\ n.depth \in 1 .. MaxDepth
           /\ \A k \in DOMAIN n.targets :
                /\ n.targets[k].type \in TargetTypes
                /\ n.targets[k].id \in 0 .. MaxUnits
  /\ \A k \in DOMAIN code.refs : code.refs[k].goal \in Places
  /\ code.tail \in Tails
  /\ DOMAIN bound \subseteq Places

\* No assert of the two passes and of relocation fails (pass_cfg.c 138 and 161,
\* relocate.c 336 and 713).
AssertsHold == code.ok

\* A branch is resolved exactly when its place is bound, and to the unit that
\* begins there, however many blocks lie between; a jump on to the next unit
\* goes to the next unit.  Jumps back to a loop out of an inner block, past
\* another inner block, are left out: LoopsEntered is about them.
JumpsArrive ==
  \A k \in DOMAIN code.refs :
    LET r == code.refs[k]
    IN  r.goal.part \in {"start", "else", "end", "next"} =>
          /\ (r.type \in Unknown) = (r.goal \notin DOMAIN bound)
          /\ r.type \notin Unknown => r.id = bound[r.goal]

\* A unit whose end can be reached ends with a jump to the next one, since the
\* two will not be neighbours.  Code that looks like a jump is left out:
\* FallsThrough is about it.
UnitsChained ==
  \A l \in DOMAIN bound : l.part = "next" =>
    \E k \in DOMAIN code.refs : code.refs[k].goal = l /\ code.refs[k].unit = l.of - 1

\* The two passes keep the targets of a unit apart and patch them apart, by the
\* same rules: they agree on every target that both have, and both have all but
\* the way on to the next unit.
Known(t) == <<t.id, t.type>>
Jumps(i) == {k \in DOMAIN code.refs : Lea(code.refs[k]) /\ code.refs[k].unit = i}
Nth(k)   == Cardinality({j \in Jumps(code.refs[k].unit) : j <= k})

GraphAgrees ==
  /\ \A k \in DOMAIN code.refs :
       LET targets == code.nodes[code.refs[k].unit].targets
       IN  Lea(code.refs[k]) => /\ Nth(k) \in DOMAIN targets
                                /\ Known(code.refs[k]) = Known(targets[Nth(k)])
  /\ \A i \in DOMAIN code.nodes :
       \A n \in DOMAIN code.nodes[i].targets :
         n > Cardinality(Jumps(i)) => code.nodes[i].targets[n].border # "branch"

\* The units lie end to end in the code, whatever the passes put in and take
\* out at their borders; only the size of the last is not known yet.
UnitsTile ==
  \A i \in 2 .. Len(code.nodes) :
    code.nodes[i].offset = code.nodes[i - 1].offset + code.nodes[i - 1].size

\* Every unit has code: randomize_layout passes over a unit without any, and takes
\* the address of the function from the first.
UnitsOccupied ==
  \A i \in DOMAIN code.nodes :
    i < Len(code.nodes) \/ Depth = 0 => code.nodes[i].size > 0

\* After placing, every reference is inside the unit whose code it patches, and
\* the address it gets is that of the unit its place begins with.
EntriesPatchTheirJumps ==
  \A k \in DOMAIN entries :
    LET e == entries[k]
        r == code.refs[k]
    IN  /\ e.offset \in 0 .. code.nodes[e.unit].size - 1
        /\ Lea(r) => e.unit = r.unit
        /\ r.goal \in DOMAIN bound => e.target = bound[r.goal]

\* "If the target of br if loop, which should be the beginning of the loop
\* (backward jmp). This case does not require patching (handled by
\* update_branch)" (pass_cfg.c 210).
LoopsEntered ==
  \A k \in DOMAIN code.refs :
    LET r == code.refs[k]
    IN  r.goal.part = "stray" => r.id = bound[Label(r.goal.of, "start")]

\* "If the last instruction is already jmp, skip." (pass_tsgx.c 380): a unit
\* that does not end with a jump is not skipped.
FallsThrough ==
  \A l \in DOMAIN bound : l.part = "dropped" =>
    \E k \in DOMAIN code.refs : code.refs[k].goal = l

=============================================================================
