---------------------------- MODULE StackTransfer ----------------------------
(***************************************************************************)
(* StackTransferRecipe (compile.c): the parallel assignment that takes the *)
(* machine from one cache state to another, at a merge point and for the   *)
(* arguments of a call.  Stores to the frame are emitted while the recipe  *)
(* is planned; register moves are collected and emitted so that no         *)
(* register is overwritten before it is read, cycles through frame slots   *)
(* above the stack; constants and frame slots are loaded last.             *)
(*                                                                         *)
(* Slots are planned in any order: a merge goes up the stack, the          *)
(* arguments of a call are taken from the last to the first.  One register *)
(* class and one type are modelled; slots are numbered from 1.             *)
(***************************************************************************)
EXTENDS RegisterCache

CONSTANTS SourceHeight,   \* height of the cache stack the values are read from
          Float           \* TRUE: the floating point registers

ASSUME StackTransferAssumption ==
  /\ SourceHeight \in Nat
  /\ SourceHeight + Cardinality(Regs) <= MaxHeight    \* room to break every cycle
  /\ Float \in BOOLEAN

VARIABLES source, target,        \* the two stacks: where the values are, where they go
          pairs,                 \* which source slot each target slot takes
          todo,                  \* the pairs not yet planned
          moves, from, uses,     \* move_dst_regs, register_moves[].src, src_reg_use_count
          loads, load,           \* load_dst_regs, register_loads
          phase, next, chain,    \* how far execute_transfers is
          spot,                  \* next_spill_spot
          ok,                    \* FALSE once an assert has failed
          regs, mem,             \* the machine
          regs0, mem0            \* the machine before the transfer

fixed    == <<source, target, pairs, regs0, mem0>>
moving   == <<moves, from, uses>>
loading  == <<loads, load>>
position == <<phase, next, chain, spot>>
vars     == <<fixed, todo, moving, loading, position, ok, regs, mem>>

\* Slot d of the target takes slot s of the source.
Pair(d, s) == [dst |-> d, src |-> s]

\* Sources of register_loads: LOC_NONE, LOC_CONST, LOC_STACK.
NoLoad       == [kind |-> "none",  arg |-> 0]
ConstLoad(v) == [kind |-> "const", arg |-> v]
StackLoad(i) == [kind |-> "stack", arg |-> i]

\* What source slot s held before the transfer.
Before(s) == IF source[s].loc = "reg" THEN regs0[source[s].reg]
             ELSE IF source[s].loc = "const" THEN source[s].val ELSE mem0[s]

-----------------------------------------------------------------------------
(* The transfers that are asked for. *)

\* merge_stack_with: the slots below the merge region stay where they are, the
\* arity slots on top slide down.  Arguments of a call are the case without an
\* arity in which every target is a register of its own.
PairsOf(height, arity) ==
  {Pair(d, d) : d \in 1 .. height - arity} \cup
  {Pair(d, SourceHeight - height + d) : d \in height - arity + 1 .. height}

\* A target constant is the constant of the source.  Target slots share a
\* register when the source slots did: one register, or the frame slots that
\* it was spilled to.
Compatible(p, q) ==
  /\ target[p.dst].loc = "const" => source[p.src] = target[p.dst]
  /\ p # q /\ target[p.dst].loc = "reg" /\ target[q.dst] = target[p.dst]
       => /\ source[p.src] = source[q.src] /\ source[p.src].loc # "const"
          /\ Before(p.src) = Before(q.src)

Init ==
  /\ source \in [1 .. SourceHeight -> Slot]
  /\ regs0 \in [Regs -> Values]
  /\ mem0 \in [Frame -> Values]
  /\ \E height \in 0 .. SourceHeight, arity \in {0, 1} :
       /\ arity <= height
       /\ target \in [1 .. height -> Slot]
       /\ pairs = PairsOf(height, arity)
  /\ \A p, q \in pairs : Compatible(p, q)
  /\ todo = pairs
  /\ regs = regs0 /\ mem = mem0
  /\ moves = {} /\ from = [r \in Regs |-> NoReg] /\ uses = [r \in Regs |-> 0]
  /\ loads = {} /\ load = [r \in Regs |-> NoLoad]
  /\ phase = "plan" /\ next = 0 /\ chain = NoReg /\ spot = SourceHeight + 1
  /\ ok = TRUE

-----------------------------------------------------------------------------
(* Planning: transfer_stack_slot and load_into_register, one pair a step. *)

Plan(p) == /\ phase = "plan" /\ p \in todo
           /\ todo' = todo \ {p}
           /\ UNCHANGED <<fixed, position, regs>>

\* The target is a frame slot: spill_to_stack, or move_stack_value by way of
\* the scratch register.
StoreInFrame(p) ==
  /\ Plan(p)
  /\ target[p.dst].loc = "stack"
  /\ mem' = [mem EXCEPT ![p.dst] = IF source[p.src].loc = "reg" THEN regs[source[p.src].reg]
                                   ELSE IF source[p.src].loc = "const" THEN source[p.src].val
                                   ELSE mem[p.src]]
  /\ UNCHANGED <<moving, loading, ok>>

KeepConstant(p) ==
  /\ Plan(p)
  /\ target[p.dst].loc = "const"
  /\ ok' = (ok /\ source[p.src].val = target[p.dst].val)
  /\ UNCHANGED <<moving, loading, mem>>

\* Mutant: the readers of the source register are not counted.
MoveRegisterUncounted(p) ==
  /\ Plan(p)
  /\ target[p.dst].loc = "reg" /\ source[p.src].loc = "reg"
  /\ LET dst == target[p.dst].reg
         src == source[p.src].reg
     IN  IF dst = src THEN UNCHANGED moving
         ELSE /\ moves' = moves \cup {dst}
              /\ from' = [from EXCEPT ![dst] = src]
              /\ UNCHANGED uses
  /\ UNCHANGED <<loading, mem, ok>>

\* move_register; a move that is there already is counted again.  The assert
\* on the types equates "not a floating point register" with "same type".
MoveRegister(p) ==
  /\ Plan(p)
  /\ target[p.dst].loc = "reg" /\ source[p.src].loc = "reg"
  /\ LET dst == target[p.dst].reg
         src == source[p.src].reg
     IN  IF dst = src THEN UNCHANGED <<moving, ok>>
         ELSE /\ moves' = moves \cup {dst}
              /\ from' = [from EXCEPT ![dst] = src]
              /\ uses' = [uses EXCEPT ![src] = @ + 1]
              /\ ok' = (ok /\ (dst \in moves => from[dst] = src /\ ~Float))
  /\ UNCHANGED <<loading, mem>>

LoadConst(p) ==
  /\ Plan(p)
  /\ target[p.dst].loc = "reg" /\ source[p.src].loc = "const"
  /\ loads' = loads \cup {target[p.dst].reg}
  /\ load' = [load EXCEPT ![target[p.dst].reg] = ConstLoad(source[p.src].val)]
  /\ ok' = (ok /\ target[p.dst].reg \notin loads)
  /\ UNCHANGED <<moving, mem>>

\* Mutant: the slot below is loaded.
AddStackLoadBelow(dst, i) ==
  /\ loads' = loads \cup {dst}
  /\ load' = IF dst \in loads THEN load ELSE [load EXCEPT ![dst] = StackLoad(i - 1)]

\* load_stack_slot; a load that is there already is kept.
AddStackLoad(dst, i) ==
  /\ loads' = loads \cup {dst}
  /\ load' = IF dst \in loads THEN load ELSE [load EXCEPT ![dst] = StackLoad(i)]

LoadStackSlot(p) ==
  /\ Plan(p)
  /\ target[p.dst].loc = "reg" /\ source[p.src].loc = "stack"
  /\ AddStackLoad(target[p.dst].reg, p.src)
  /\ UNCHANGED <<moving, mem, ok>>

Planned == /\ phase = "plan" /\ todo = {}
           /\ phase' = "moves"
           /\ UNCHANGED <<fixed, todo, moving, loading, next, chain, spot, ok, regs, mem>>

-----------------------------------------------------------------------------
(* execute_moves. *)

\* clear_executed_move: the register the move read may be overwritten once no
\* other move reads it, and is at once if a move waits for that.
ClearExecuted(dst) ==
  /\ moves' = moves \ {dst}
  /\ uses' = [uses EXCEPT ![from[dst]] = @ - 1]
  /\ chain' = IF uses[from[dst]] = 1 /\ from[dst] \in moves THEN from[dst] ELSE NoReg
  /\ UNCHANGED from

ExecuteMove(dst) ==
  /\ ClearExecuted(dst)
  /\ regs' = [regs EXCEPT ![dst] = regs[from[dst]]]
  /\ ok' = (ok /\ uses[dst] = 0 /\ dst # from[dst] /\ uses[from[dst]] > 0)
  /\ UNCHANGED <<fixed, todo, loading, phase, spot, mem>>

\* Mutant: a register is overwritten although another move reads it.
ExecutableAny == {r \in moves : r >= next}

\* The first pass over the registers, in ascending order.
Executable == {r \in moves : r >= next /\ uses[r] = 0}

Sweep == /\ phase = "moves" /\ chain = NoReg /\ Executable # {}
         /\ ExecuteMove(FirstOf(Executable))
         /\ next' = FirstOf(Executable) + 1

Follow == /\ chain # NoReg
          /\ ExecuteMove(chain)
          /\ UNCHANGED next

EndSweep == /\ phase = "moves" /\ chain = NoReg /\ Executable = {}
            /\ phase' = "cycles"
            /\ UNCHANGED <<fixed, todo, moving, loading, next, chain, spot, ok, regs, mem>>

\* What is left after the pass waits in a cycle: the source of one move goes to
\* a frame slot above the stack.
BreakCycle ==
  /\ phase = "cycles" /\ chain = NoReg /\ moves # {}
  /\ LET dst == FirstOf(moves)
     IN  /\ mem' = [mem EXCEPT ![spot] = regs[from[dst]]]
         /\ AddStackLoad(dst, spot)
         /\ ClearExecuted(dst)
         /\ ok' = (ok /\ uses[from[dst]] > 0)
  /\ spot' = spot + 1
  /\ UNCHANGED <<fixed, todo, phase, next, regs>>

EndMoves == /\ phase = "cycles" /\ chain = NoReg /\ moves = {}
            /\ phase' = "loads"
            /\ UNCHANGED <<fixed, todo, moving, loading, next, chain, spot, ok, regs, mem>>

-----------------------------------------------------------------------------
(* execute_loads. *)

\* Mutant: the load is not crossed off.
ExecuteLoadAgain ==
  /\ phase = "loads" /\ loads # {}
  /\ LET dst == FirstOf(loads)
     IN  regs' = [regs EXCEPT ![dst] = IF load[dst].kind = "const" THEN load[dst].arg
                                       ELSE mem[load[dst].arg]]
  /\ UNCHANGED <<fixed, todo, moving, loading, position, ok, mem>>

ExecuteLoad ==
  /\ phase = "loads" /\ loads # {}
  /\ LET dst == FirstOf(loads)
     IN  /\ regs' = [regs EXCEPT ![dst] = IF load[dst].kind = "const" THEN load[dst].arg
                                          ELSE mem[load[dst].arg]]
         /\ loads' = loads \ {dst}
  /\ UNCHANGED <<fixed, todo, moving, load, position, ok, mem>>

EndLoads == /\ phase = "loads" /\ loads = {}
            /\ phase' = "done"
            /\ UNCHANGED <<fixed, todo, moving, loading, next, chain, spot, ok, regs, mem>>

Next == \/ \E p \in todo : \/ StoreInFrame(p) \/ KeepConstant(p) \/ MoveRegister(p)
                           \/ LoadConst(p) \/ LoadStackSlot(p)
        \/ Planned \/ Sweep \/ Follow \/ EndSweep \/ BreakCycle \/ EndMoves
        \/ ExecuteLoad \/ EndLoads

Spec == Init /\ [][Next]_vars /\ WF_vars(Next)

-----------------------------------------------------------------------------
(* Properties. *)

Load == {NoLoad} \cup {ConstLoad(v) : v \in Values} \cup {StackLoad(i) : i \in Frame}

\* The recipe names registers and frame slots of the function only.
TypeOK ==
  /\ source \in [1 .. SourceHeight -> Slot]
  /\ DOMAIN target \subseteq 1 .. SourceHeight /\ target \in [DOMAIN target -> Slot]
  /\ pairs \subseteq [dst : DOMAIN target, src : 1 .. SourceHeight] /\ todo \subseteq pairs
  /\ moves \subseteq Regs /\ from \in [Regs -> Regs \cup {NoReg}] /\ uses \in [Regs -> Nat]
  /\ loads \subseteq Regs /\ load \in [Regs -> Load]
  /\ phase \in {"plan", "moves", "cycles", "loads", "done"}
  /\ next \in Nat /\ chain \in Regs \cup {NoReg} /\ spot \in SourceHeight + 1 .. MaxHeight + 1
  /\ ok \in BOOLEAN
  /\ regs0 \in [Regs -> Values] /\ mem0 \in [Frame -> Values]
  /\ regs \in [Regs -> Values] /\ mem \in [Frame -> Values]

\* What slot d of the target reads from the machine.
After(d) == IF target[d].loc = "reg" THEN regs[target[d].reg]
            ELSE IF target[d].loc = "const" THEN target[d].val ELSE mem[d]

\* When all is emitted every target slot holds what its source slot held, as
\* if the whole state had been assigned at once: nothing was overwritten
\* before it was read.
Simultaneous == phase = "done" => \A p \in pairs : After(p.dst) = Before(p.src)

\* No assert of the recipe, of its execution or of Move fails.
AssertsHold == ok

\* Every recipe is executed to its end: no cycle of moves is left waiting.
Completes == <>(phase = "done")

=============================================================================
