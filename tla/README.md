# A formal model of Pridwen's load-time compiler

Pridwen runs WebAssembly programs inside an SGX enclave. At load time it parses
a module, compiles every function to x86-64 in one pass, hardens the code with
instrumentation passes chosen for the machine it runs on, lays the code out and
starts it. The repository carries several generations of the program; the
current one is `demo/pridwen`, and its core is
`demo/pridwen/Enclave/sgxwasm/`, the directory all file names below refer to.
The configuration modelled is the one of `config.h`: passes and control-flow
pass on, T-SGX on with simulated TSX, the other hardening passes off, asserts
compiled in.

The project models the compiler proper (register allocation, straight-line
code, parallel moves, merge points, structured control flow, labels) and what
is done to its code afterwards: cut into units by the control-flow pass and the
T-SGX pass, the units placed anywhere in the code region, and their jumps
relocated. A wrong register or jump in generated code does not crash anything in the compiler, shows only for some
sequences of opcodes under register pressure, and is found by no test that
compiles a handful of programs. That is what the models are for.

## 1. Inventory

| component | files | state | operations |
|---|---|---|---|
| register allocator | `register.c` | set of used registers, use count of each register, set of registers spilled in this round | `inc_used`, `dec_used`, `clear_used`, `reset_used_registers`, `unused_register`, `get_next_spill_reg` |
| cache stack | `compile.c` 586-842, 1488-1720 | for each local and operand where it lives: frame slot, register or constant; number of spill slots | `push_*`, `pop_stack`, `spill*`, `get_unused_register`, `pop_to_register` |
| straight-line compilation | `compile.c` 2253-3677, handlers in `sgxwasm_compile_function_body` | the cache stack | one handler per opcode: constants, locals, drop, select, arithmetic, memory, globals, calls |
| parallel moves | `compile.c` 979-1320 | recipe: pending register moves, use counts of their sources, pending loads, next spill spot | `transfer_stack_slot`, `move_register`, `load_*`, `execute_transfers` |
| merge points and control flow | `compile.c` 689-768, 844-869, 1760-2251, handlers of `block` ... `unreachable` | stack of control blocks, each with its reachability, flags, and the cache states of its label and of its else arm | `push_control`, `init_merge`, `merge_*_stack_with`, `br_impl`, `br_or_ret`, `generate_br_table`, `pop_control`, `finish_one_armed_if` |
| assembler | `assembler.c` | code buffer | `Move`, `Fill`, `Spill`, `LoadConstant`, one emitter per instruction |
| labels | `assembler.c` 88-207 | position, or head of a list of unresolved jumps threaded through the code | `link_to`, `bind_label` |
| pass manager, sensing | `pass.c`, `sense.c` | list of passes and their hooks | register a pass, run the hooks in order |
| control-flow pass | `pass_cfg.c` | tree of code units, unresolved branch targets | hooks on functions, blocks, branches, instructions |
| T-SGX and other hardening passes | `pass_*.c` | current code unit, its size, pending jumps | the same hooks |
| relocation and layout | `relocate.c` | code units, relocation entries, order of the units | `add_code_unit`, `relocate`, `randomize_layout`, `construct_springboard` |
| code region | `dynamic_runtime.c` | bitmap of units, pointer into the upper half | `sgxwasm_init_code_region`, `sgxwasm_allocate_code` |
| address reuse | `compile.c` 1324-1366 | the address r11 was last given | `set_register_use`, `find_register_use` |
| instantiation, linking | `instantiate.c`, `high_level.c`, `runtime.c` | module instances, tables, memories, globals | resolve imports, fill tables and memories, run the start function |
| parser | `parse.c` | cursor | decode sections |
| Emscripten runtime, enclave entry, ocall stubs | `emscripten.c`, `Enclave.c`, `ocall_stub.c`, `App/` | memory layout, file descriptors | wrappers of libc and system calls |

**How they interact.** `Enclave.c` starts the pass manager, senses the machine,
and instantiates the module, which compiles each function in turn. The compiler
reads opcodes and changes the cache stack and the control stack by plain calls;
the emitters append to the code buffer. Around every opcode, block and branch
it calls the hooks of the passes, which append code of their own and cut the
code into units. Relocation runs when all functions are compiled. Everything
is sequential: there are no threads, messages or callbacks that could come at
another time. State that outlives a function is the code buffer, the
relocation entries and a few globals (`allocable_reg_list`, the parameter
lists).

**What is hard.** Not interleavings, but long sequences of legal opcodes: two
records of one fact (used set and use counts), registers read after they were
released, the limit of nine registers, the implicit contract between the first
jump to a label and every later one, states saved when an `if` begins and used
when its other arm is compiled, code that is compiled though nothing reaches it,
and cyclic moves. In the machine, the generated code has many paths, and what
the compiler believes at a label must be true on each. `PROJECT.json` lists
each hazard at its line.

**What makes the parts correct.**

* allocator: counts, used set and the cache stack agree; reserved registers are
  never handed out; a victim for spilling is never pinned;
* straight-line code: reading each slot where the cache stack says it lives
  gives what the WebAssembly stack holds at that point;
* frame: no slot lies outside of what the prologue reserves;
* parallel moves: a recipe acts as one simultaneous assignment, and ends;
* merges: a label's slots do not change place once a jump to it is emitted;
  every merge finds stacks of fitting height; what is live after a block is
  what paths reach;
* address reuse: what the compiler believes r11 holds is there on every path;
* labels: every jump ends where its label is bound, before or after it; the list
  of jumps in the code is exact at any moment, and walking it ends;
* units and layout: every jump between units goes to the unit it was meant for,
  wherever units are placed; no unit runs on into what lies behind it; the
  passes agree on where jumps go;
* code region: no two pieces of code share a byte, all lie in the region, and a
  random search ends if there is room.

## 2. Plan

Written, in this order, the most important behaviour first:

1. `RegisterCache`, `WasmStack`, `ValueStack`: the allocator, the straight-line
   handlers, and what they have to implement. Type, counts, reserved
   registers and frame proved.
2. `StackTransfer`: parallel moves on their own, so that the other modules may
   take a transfer as one step.
3. `MergePoint`, `WasmControl`, `ControlFlow`: labels, merges and jumps.
4. `CfgPass`, `TsgxPass`, `CodeUnits`: the two passes at every hook of the
   compiler, and relocation.
5. `LabelSpec`, `Labels`: labels, and proofs for all of it, the refinement
   included.
6. `CodeRegion`: where code is placed; proved but for liveness.
7. `ScratchUse`: the reuse of r11 on all paths; proved.
8. Proofs for all safety properties of `StackTransfer`.
9. Proofs for all safety properties of `CodeUnits`.
10. Proofs that no assert fails in `ValueStack`, but for one.
11. Proofs for all safety properties of `ControlFlow` but the refinement.
12. The proof that `ValueStack` implements `WasmStack`.
13. The proof that `ControlFlow` implements `WasmControl`, on the lemmas of the
    one for `ValueStack`.

Left:

14. Units of fixed size (`FIX_SIZE_UNIT`), once a configuration uses them; the
    type tables of `instantiate.c` with the comparison at compile.c:3449-3484;
    `memory.grow` with a maximum followed by a merge.

Theorems worth stating are those that hold for all register files, numbers of
locals and stack heights; a refinement stays with TLC until the invariants
it needs are proved.

## 3. Modules

| module | role |
|---|---|
| `RegisterCache` | operators on a *context*: the cache stack, the allocator's sets and counts, the machine's registers and frame; the handlers that `ValueStack` and `ControlFlow` share |
| `WasmStack` | abstract: a frame of values, one action per kind of instruction |
| `ValueStack` | one action per opcode handler; the machine executes the emitted code on the spot; refines `WasmStack` |
| `StackTransfer` | `StackTransferRecipe`, one action per planned slot and per emitted move |
| `MergePoint` | operators `InitMerge` (`init_merge`) and `Merge` (`merge_stack_with`) |
| `WasmControl` | abstract: a frame, a stack of blocks, what a path carries to each label; uses `WasmStack` |
| `ControlFlow` | control blocks and jumps; uses `MergePoint` and an instance of `ValueStack`; refines `WasmControl` |
| `ScratchUse` | r11: what the compiler notes and what it may hold, over all paths; one action per opcode that matters |
| `CfgPass` | operators on the code emitted so far: what `pass_cfg.c` does at each hook |
| `TsgxPass` | the same for `pass_tsgx.c`; extends `CfgPass`, as its hooks run after those |
| `CodeUnits` | one action per control opcode, with the hooks the compiler calls in their order, and relocation |
| `LabelSpec` | abstract: jumps, labels, and where both end up |
| `Labels` | label records and operands in the code, one action per emitter and per round of `bind_label`'s loops; refines `LabelSpec` |
| `CodeRegion` | the bitmap, the pointer, and the random search as a sequence of tries |
| `RegisterCacheProofs`, `ValueStackProofs`, `StackTransferProofs`, `CodeUnitsProofs`, `LabelsProofs`, `CodeRegionProofs`, `ScratchUseProofs`, `ControlFlowProofs` | theorems |
| `MC...` | constants for TLC |

```
RegisterCache --- ValueStack --- (refines) WasmStack
      |               | instance               | instance
      +- MergePoint - ControlFlow -- (refines) WasmControl
      +- StackTransfer

CfgPass -- TsgxPass -- CodeUnits        Labels -- (refines) LabelSpec
ScratchUse                              CodeRegion
```

### Contexts

A context is `struct CacheState` with the machine next to it:

| field | code |
|---|---|
| `stack` | `stack_state`: sequence of slots, `loc` is `stack`, `reg` or `const` |
| `used`, `count`, `last` | `*used_registers`, `register_use_count`, `*last_spilled_regs` |
| `spills` | `num_used_spill_slots`, from which `patch_stack_frame` makes the frame |
| `ok` | FALSE once an assert has failed; nothing happens after that |
| `regs`, `mem` | contents of the registers and frame slots after the code emitted so far |

Register codes are those of `register.h` (rax 0, rcx 1, rdx 2, ...). Frame slot
`i` belongs to slot `i` of the stack, as in the code. A handler is an operator
from contexts to contexts built from the same calls as the C function, in the
same order; the action makes the result the next state. `Junk` is an unknown
value: what an instruction leaves undefined, and what calls and divisions
clobber.

Between handlers only registers and frame slots that some stack slot names can
be read by later code, so the model forgets the rest (`LiveRegs`, `LiveMem`).
Forgetting loses nothing: a slot created later is written when it is created.

### The effect of an opcode

`effect` has no counterpart in the program. It is set by every action to the opcode
just compiled, its immediate operands, and what its execution does outside of the
frame: the arguments and result of a call, what is stored where, what a jump to
a loop or a return carries. `WasmStack` and `WasmControl` set it from the
values on their stack, so that the refinement compares the two instruction by
instruction: a step that compiles `select` must be the abstract `select`, and
not any step that happens to leave the same stack.

### StackTransfer

`Init` is any pair of stacks that a merge can be asked to transfer
(`Compatible`): `MergePoint!Mergeable` states the same for the stacks
`ControlFlow` really produces, and `AssertsHold` of its runs checks it.
`StackTransfer` plans slots in any order, which covers merges (upwards) and
arguments (downwards). Together they let `Merge` be one step: `control` and
`paths` show that each merge is of the kind assumed, `transfer`
that each such transfer acts at once. `spot` starts above the source stack; the
cycle spots of a one-armed `if` are at the height of the other arm (see
section 7).

### ControlFlow

`control` is `ctx->control`: type, arity, base (`label_state.stack_base`),
`reach`, `reached` (`start_reached` of a loop, `end_reached` otherwise), the
states `label` and `else`. `height` is not in the code: it is the height of
the operand stack as the validator of WebAssembly sees it, unknown after a jump
(`AnyHeight`), and stands for the assumption that the module is valid.

* *The machine follows paths.* The compiler reads the body once. While live code
  is compiled the context holds the machine of one path that gets there. A jump
  to a label stores the machine, after the merge code of that jump, in the
  label; binding the label continues with it. If several jumps go to a label the
  last one compiled is kept, and since the first was checked against the abstract specification when it
  was made, every arrival is. Conditions are free: `br_if` both jumps and goes
  on. Jumps back to loops and returns are effects (`effect`) that carry the
  frame or the results.
* *Merges act at once*, as above.
* *Straight-line code* is a few handlers: constant, load, local.get, local.set,
  drop. They bring slots into every location; the rest of the handlers differ in
  what they compute, which `ValueStack` checks.
* *Code after a block that never ends* is compiled by the program as if it were
  reached, although the comment at compile.c:3729 says "Skip unreachable
  instructions.". The model compiles `end`, `else` and `unreachable` there and,
  with `CodeAfterDeadBlock`, also `drop`. In `control` the switch is TRUE: with
  one local and no result at most one operand is missing and the local stands in
  for it. Without a local the pop has nothing to take (assert at 684); the other
  runs keep the switch FALSE. `unreachable` in a live else arm needs
  `UnreachableInElse`, which only the run of finding 2 sets.
* Blocks have no parameters and at most one result (as in the code, where
  `in_arity` is 0), and a function at most one result. `br_table` takes any
  set of labels; its cases are compiled in ascending order of depth.
* `unreachable` emits no trap in the program (`// TODO: trap`), so what a
  machine does that gets there is not modelled.

### CodeUnits, CfgPass, TsgxPass

`code` is what the compiler and the two passes keep of a function. `nodes` is
`fun_cfg`; a node's `targets` are those of the control-flow pass, `refs` the
memory references the T-SGX pass makes, which hold the same targets once more.
Code is counted in instructions, not in bytes: the passes compare and move
offsets, but nothing depends on how long an instruction is. A reference has the offset of its
instruction; in the program it is that of the displacement inside it, a few
bytes on. So a reference of the model may lie where its unit begins, while the
program's lie behind that; it is looked up by offset all the same. What does depend on
bytes is `IsEndingWithJmp`, which looks at the last few of a unit: `tail` says
how they read, with `lookalike` for those of code that only looks like a jump.

Each handler of `compile.c` calls hooks in an order of its own (`passes_control_start`
before the block is pushed, `passes_control_end` after the label is bound, and so
on); each action composes the hooks in that order, for both passes. `bound` and
the `goal` of a reference are not in the program: when a jump is emitted `goal` says
which place it is for (start or end of which block, its else arm, or the next
unit), by the nesting of the WebAssembly code alone; when the place is reached
`bound` says which unit begins there. The properties compare the two with the
unit ids that the passes find by walking back over nodes.

`BrTable` takes any labels in any order, each once: `generate_br_table` walks down
to the cases in the order of the table, and the first case of a label is the one
that emits its branch; a later one jumps to the first, inside the unit.

`EndFunction` closes the last unit and `Relocate` does what instantiation does
for the function: `convert_to_unit_relo_info` and the resolution of
every entry. Units are looked up by their index, never by a neighbour, so where
they are placed is left out.

### Labels

The model's time is that of `assembler.c`: emitters are atomic, and each round
of the two loops of `bind_label` is an action (`PatchFar`, `PatchNear`), so that
the lists are looked at in the middle of a walk and the end of the walk can be a
liveness property. Positions are byte positions; opcodes have one byte (jmp) or two
(jcc), operands one or four, as in the code. `Int8Max` is scaled down. Callers in
`compile.c` use each label with Near or with Far only, and bind Near ones after a
few instructions: `NearLabel` and `Reaches` state this, and are the
only assumptions on callers. `Lands` is the address a jump goes to when
the processor executes it.

### CodeRegion

`__LARGE_PROGRAM__` is on in `config.h`, so the region has two halves: `Linear`
hands out the upper half in order, `Ask` starts a random search in the lower one
and `Try(index)` is the round of it that draws an index and finds it free; a round
that finds it taken changes nothing. The asserts behind the search, and the
exits when the region is full, end the program (`state`).

### ScratchUse

`note` is `register_reuse_map[ScratchGP2]`; `holds` is the set of all that r11 can
hold at this point of the code when it is run, and empty where nothing gets to.
Jumps forward add to what the label's place may find (`atEnd`, `atElse`); the
start of a loop may be reached with anything. At the borders of units r11 may
also be lost, as a springboard built to test for co-location writes to it
(relocate.c:554); `config.h` has `__COLOC_TEST__` off, so this allows more than happens.

## 4. Runs

| run | instance | distinct states | checks | shows |
|---|---|---|---|---|
| `refinement` | 3 registers, 1 local, 3 operands, calls of up to 2 parameters, two values | 83 492 | `TypeOK`, `CountsExact`, `AssertsHold`, `ReservedStayFree`, `FrameCoversSlots`, `ImplementsWasm` | the bookkeeping under pressure, and that the generated code computes the right values |
| `indirect` | 5 registers, 1 local, 2 operands, table, two values | 34 816 | `AssertsHold`, `ImplementsWasm` | the same for indirect calls |
| `transfer` | 3 registers, stacks of up to 3 slots | 240 338 | `TypeOK`, `Simultaneous`, `AssertsHold`, `Completes` | all transfers, all planning orders |
| `control` | 2 registers, 1 local, 2 operands, 1 nested block, one value | 151 047 | `TypeOK`, `AssertsHold`, `HeightsAgree`, `CountsExact`, `FrameCoversSlots`, `LabelsFixed` | labels, merges and saved states |
| `paths` | 2 registers, no local, 2 operands, 2 nested blocks, two values | 121 319 | `AssertsHold`, `ImplementsWasm` | every path carries the right values, across blocks |
| `paths_local` | 2 registers, 1 local, 1 operand, 1 nested block, function with a result | 5 411 | `ImplementsWasm` | the same with a local and a returned value |
| `units` | blocks nested 2 deep, 6 units, 6 references, 6 instructions | 953 121 | `TypeOK`, `AssertsHold`, `JumpsArrive`, `UnitsChained`, `GraphAgrees`, `UnitsTile`, `UnitsOccupied`, `EntriesPatchTheirJumps` | the two passes and relocation, for every shape of control flow of this size |
| `labels` | 2 labels with Far jumps, 1 with Near jumps, 4 jumps, 16 bytes, reach of a byte 6 | 442 773 | `TypeOK`, `AssertsHold`, `ListsExact`, `ImplementsLabels`, `BindEnds` | lists in the code, in the middle of a walk too |
| `region` | 16 units of 4 bytes, pages of 2 units, sizes 1 to 13 | 83 930 | `TypeOK`, `SearchInRegion`, `Exclusive`, `HalvesApart`, `SearchEnds` | placement in both halves |
| `scratch` | memory and one global, blocks nested 2 deep | 20 997 | `AccessRight` | the reuse of r11 on all paths |
| `units_loop` | blocks nested 3 deep, 7 units | | `LoopsEntered` violated | finding 1 |
| `unreachable_else` | `UnreachableInElse` | | `AssertsHold` violated | finding 2 |

Five more configurations belong to the remarks of section 5 and can be run by hand:
`call_indirect_pressure`, `first_function` (module `MCValueStack`), `float_alias`
(`MCStackTransfer`), `no_result` (`MCControlFlow`) and `units_select`
(`MCCodeUnits`). Each ends with the violation that its remark describes.
The constants of the passing runs keep clear of these cases and of finding 2, so their
properties say nothing about them: `indirect` has a register to spare, no run
compiles the first function, `transfer` has no floating point registers, `control` and
`paths` return no result, and `UnitsChained` leaves out units that end with
code that looks like a jump.
`allocation` (`MCValueStack`) is the larger instance of `refinement`, with two
locals and one value (89 754 states).

**Views.** `effect` holds only what the step just taken did (section 3). No action
reads it, so the passing runs of `ValueStack` and `ControlFlow` identify states
that differ in nothing else (`VIEW`). Nothing is lost: TLC evaluates the
step properties on every step it generates, also on one to a state already seen.

**Bounds.** `MaxHeight` bounds locals plus operands, `MaxParams` parameters of
callees, `MaxDepth` the nesting (the body counts), `SourceHeight` the stacks of
a transfer. The instances have fewer registers than slots, so that every way
out of pressure occurs: sharing a register, constants, spilling, a second
round of spilling. Three allocatable registers are the fewest the handlers can
work with (an instruction pins two and asks for a third; four with indirect
calls); the control-flow handlers pin one, so two do there. Three slots over
three registers give transfers every shape of move: chain, cycle,
two cycles' worth of swaps, fan-out, and a stack slot that moves. One nested block is
enough for a first and a second jump to a label; two for a jump that leaves an
inner block with something below its result (`paths`). Six units are enough for an
`if` with both arms and a block in one of them, or for a block that has ended inside
a loop that is branched to; six references for a `br_table` to three labels and the jumps
on. Four jumps give a list of three next to another list. Sizes in `region`
lie on both sides of one and of two units and of the threshold. One value is enough where only
the location of slots is at stake, two where contents are compared. No bound
is in the program; the operand stack of the code grows without limit.

**Deadlock** is checked in `ValueStack`, where a handler is always enabled. It is
switched off where the program comes to an end: `StackTransfer`, `ControlFlow` and
`CodeUnits` handle one recipe or one function, `CodeRegion` stops
when it is full, and `Labels` when all labels are bound or the bounds are met.

**Fairness.** Three properties need any. `Completes`: weak fairness of `Next` in
`StackTransfer`, and `BindEnds`: of `Walk` in `Labels`; both `execute_transfers` and
`bind_label` are plain sequential functions that run until they return and wait
for nothing, so a step that can be taken is. `SearchEnds`: of `Try(index)` for
each index in `CodeRegion`. `rand()` is `sgx_read_rand` (ocall_stub.c:17), drawn
anew in every round, so that an index that stays free is drawn in the end; the
loop has no other bound, and without room it never returns. All other properties
are safety and hold without fairness.

**Mutants.** Every property of a passing run is also checked against a
mutilated version of one definition (operators marked `Mutant:` just before the
definition they stand in for) and fails there: a missing increment, a register
left unpinned, a slot taken at the wrong height, a label not marked as reached.

## 5. Findings

1. A branch back to a loop is resolved at once, to the last unit at the loop's
   depth; a unit that the end of an inner block began is exchanged for the
   loop's own only for `br 0` (pass_cfg.c:150). Out of a second inner block the
   branch stays unknown and is patched at the loop's end, to the unit behind the
   loop, against the comment at pass_cfg.c:209-212. The T-SGX pass has the same
   rules. `LoopsEntered` states the comment; `units_loop` finds
   `loop block end block br 1 ...`.
2. `unreachable` leaves an else arm reachable (compile.c:4678); the end of the arm then
   merges stacks of different heights (assert at 1910): valid modules stop the
   compiler.

Remarks, each with a configuration that shows it:

* `call_indirect_pressure`: `call_indirect` (compile.c:3503) takes a copy of the
  table index with nothing pinned: with all registers in use the copy may be
  asked for in the index register itself, and `Move` asserts `dst != src`
  (assembler.c:2303).
* `first_function`: `sgxwasm_compile_function` reads the list of reserved
  registers (4796) before it is initialised (4806), so the first function compiled
  since start-up starts with none reserved, until its first call.
* `float_alias`: `move_register` (1000) asserts an equality of types where an
  implication is meant: two slots that share a floating point register, of one
  type, fail it.
* `no_result`: the end of a body that is not reached still returns a value (3930);
  with no local there is none, against the assert at 2153. With a local on the
  stack it takes the local for the result, in code that never runs.
* `units_select`: `insert_jump` takes a unit for one that ends with a jump by its
  last bytes (pass_tsgx.c:381), and last of all a `select` may leave a long jump
  there whose target is right behind it: such a unit gets no jump to the next one.
  `FallsThrough` states the comment at pass_tsgx.c:380.

## 6. What is proved

With TLAPS, for all constants that satisfy the named assumptions.

### The allocator and the cache stack

`RegisterCacheProofs` and `ValueStackProofs`, for any finite set of registers, any
reserved ones among them, any values, locals, heights and parameters.

| theorem | statement |
|---|---|
| `Inductive` | `Spec => []IInv` |
| `TypeCorrect` | `Spec => []TypeOK` |
| `CountsAreExact` | `Spec => []CountsExact` |
| `ReservedAreFree` | `Spec => []ReservedStayFree` |
| `FrameIsCovered` | `Spec => []FrameCoversSlots` |
| `OnlyIndexCopyFails` | `Spec => [][AssertStep]_vars`: a step fails an assert only if it is an indirect call, with every register in use after it |
| `AssertsDoHold` | `~HasTable => (Spec => []AssertsHold)` |
| `CodeImplementsWasm` | `MaxMemory = 0 => (Spec => ImplementsWasm)` |

Each assumes `~FirstFunction`, the case of the remark `first_function`, where `ReservedStayFree`
is false. `RegsAssumption` and `ValueStackAssumption` are the assumptions on
constants; the one with content asks for three allocatable registers (four with
a table); the program has nine.

The first five statements need each other: a spill frees a register only if its count
is exact; a fresh register is not reserved only if `used` contains all reserved
ones, which is part of exactness; a pop keeps the types only if a free register
exists, which follows from the number of allocatable registers and from victims
being found among the used ones. Hence one invariant,

    Good(c) == c \in Context /\ Exact(c) /\ Homes(c) /\ Covered(c)
    IInv    == Found(Ctx, 0) /\ effect is one of the kinds

where `Found` adds the bounds on the height. The argument is by contexts, not by
actions: each operator of `RegisterCache` maps good contexts to good ones
(`PushRegisterGood`, `SpillRegisterGood`, `GetUnusedGood`, `PopToRegisterGood`,
...), with what it does to the height; each handler is a composition of these
(`BinaryCodeWhole`, `SetLocalWhole`, `IndirectCallWhole`, ...); `Become` keeps a
good context good because it changes only contents. Two handlers leave
`Good` on the way and come back: `local.set` moves a slot between registers in
two halves (`VacateGood`, `OccupyGood`), and a call resets all counts
after it has spilled what lies below the arguments (`SpillBelowSaved`,
`FinishWhole`).

The asserts follow from exactness. `dec_used` is called with a count above zero
because the slot it is called for holds the register (`DecUsedShrinks`); a register
that is handed out or spilled has count zero afterwards; and no copy is asked for
in its own source, because the source was popped and is free, or is pinned while
the other register is chosen (`PoppedFromRegister`, `PoppedFromFrame`). The one
exception is the copy `call_indirect` makes of its table index: nothing pins that
register, and when all are in use the victim may be the index itself. So the steps
are proved about (`AssertStep`) rather than only the module without a table:
the run `call_indirect_pressure` fails in the only place that can.

`CodeImplementsWasm` is the statement all the others serve: the values found where the
cache says they live are those of a WebAssembly value stack that runs the same
instructions, for any meaning of the operators. A step is a step of `WasmStack`
because of what the handler's context becomes,

    Replaced(c, d, n, vs): n slots are gone from the top of c, slots that hold vs
                           are in their place, all others hold what they held

and each part of a handler has a lemma for what it leaves alone (`Intact`: spilling,
getting a register, pushing), for what it may overwrite (`Vacant`: a register that
no slot holds, a frame slot no operand lives in) and for what it yields
(`OperandsRead`, `LoadedValue`, `TransferredArgs`, `PassedArguments`). Exactness makes a
register with count zero vacant. `Contents(c)` is the sequence of values in the slots
of a context, `Holding` the second half of the invariant: no slot holds junk, so
that a caller-saved register that a call destroys was never the only place
of a value (`SavedValues`). `BecomeContents` then says that dropping the contents of free
registers and slots changes none of them, and `StepMeans` turns `Replaced` into `Wasm!Step`.

Two of its hypotheses are facts of the machine description that the handlers rely on
without saying so. The argument registers are distinct, or one argument of a
call would overwrite another. And `rax` is the first register of the enum and not an
argument register: the address of a callee is loaded into the first free
register after the arguments are in place, with nothing but its number to keep
that from being one of theirs. `MaxMemory = 0` leaves out `memory.grow`
on a memory with a maximum, which pushes an operand too many.

### Control flow

`ControlFlowProofs`, for any registers of which two can be allocated, any locals,
heights, results and nesting (`RegsAssumption`, `ControlFlowAssumption`).

| theorem | statement |
|---|---|
| `Inductive` | `Spec => []IInv` |
| `TypeCorrect` | `Spec => []TypeOK`, of every state kept for a label or an arm as well |
| `CountsAreExact` | `Spec => []CountsExact`, the same |
| `FrameIsCovered` | `Spec => []FrameCoversSlots`, the same |
| `HeightsDoAgree` | `Spec => []HeightsAgree` |
| `LabelsStayFixed` | `Spec => LabelsFixed` |
| `OnlyDeadCodeFails` | `Spec => [][ok' = ok \/ ~Live]_vars`: a step that compiles code some path gets to fails no assert |
| `AssertsDoHold` | `~CodeAfterDeadBlock /\ Arity <= NumLocals => (Spec => []AssertsHold)` |
| `PathsImplementWasm` | `Spec => ImplementsWasm`: the values on every path are those of the WebAssembly code |

Each assumes `~FirstFunction` and `~UnreachableInElse`: with the first,
`CountsExact` is false (remark `first_function`), with the second `AssertsHold`
(finding 2). `AssertsDoHold` also leaves out what the program gets wrong in code
that nothing reaches: handlers that pop operands that are not there, and the
return of a result from an empty stack (remark `no_result`). `OnlyDeadCodeFails` is
the statement without those two: they happen nowhere else.

The hard part are the asserts of a merge. A merge transfers the slots of the
arriving path to where the label has them, which is possible only if slots with
a register in common in the label hold the same thing on the path, and if a
constant in the label is that constant on the path (`MergeAsserts`). Nothing in
the label itself says so: the label was laid out for another path, the first that
jumped to it. It holds because the slots under a block are never operands of the code
inside, so that two paths differ there only in where they have spilled. Hence

    IInv == /\ Fits(Ctx) /\ Blocks(control, spills) /\ Level(Ctx, control, height)
            /\ Agreeing(Points(Ctx, control))

`Blocks` says that every label reached and every else arm is `Good` and as high as
its block asks for, and that results and locals have registers of their own
in a label (`Sole`: `init_merge` lets only slots below the block's base share one).
`Level` ties the height to the validator's where code runs. `Agreeing`
takes any two states that some path may still go on from (labels reached, else arms,
and the present one where code runs) and asks of the operands below both
blocks: a constant in one is that constant in the other, and slots that share a register
in one have one source in the other (`Admits`). Locals are left out, since a path
may assign to them; a merge gives each of them a place of its own.

Three kinds of lemmas carry it. Handlers: what a handler does not touch stays or
goes to its own frame slot (`Later`: `SpillLater`, `GetUnusedLater`,
`SetLocalLater`, ...), and such a state agrees with what the old one agreed with
(`AgreeingFollows`). Labels: `InitMerge` lays out a state that its path can be merged
into, and every path that agrees with that one (`InitMergeMerges`, from an
induction over the slots of each of its three regions: `PlacedStep`,
`ApartStep`, `TracksStep`; induction over numbers is available because it can be
stated with a set, `UpTo`). Merges: a path arrives with
the label's slots, and agrees with whatever it agreed with before
(`MergeArrives`, `ArrivalAgrees`). Every jump is then one lemma
(`JoinOnward`), a `br_table` a sequence of them (`BrAllJumps`), and `end` closes
blocks that take their points with them (`FewerArrivals`, `EndOfBlock`).

`PathsImplementWasm` needs no invariant beyond `IInv`. It maps the context to the frame
of the path (`Path`) and each control block to its scope (`Scopes`): the frames that
wait at its end and for its other arm. The heart of it is `MergeContents`: a merge
leaves in the label's slots what `WasmControl` says a path takes to a label,

    Contents(Kept(Merge(s, t, arity))) = Wasm!Leave(Contents(s), base, arity)

the operands below the block and the results on top. It rests on `Mergeable`, which
`IInv` gives for every label already reached and `InitMergeMerges` for a new one:
slots that share a register in the label hold one value on the path, so that it does
not matter which of them the register is loaded for (`MergeValues`). A jump then
delivers the path's frame to its label and to no other (`Delivered`,
`JoinDelivers`); a `br_table` delivers it to each of its labels from a state
with the contents it began with (`BrAllDelivers`); the arm of an `if` and the code after
a block go on with a frame that was kept for them (`ElseMeans`, `Resuming`,
`EndMeans`). Straight-line handlers have the lemmas of `ValueStack`
(`StraightMeans`). There is one lemma per opcode (`BrMeans`, `EndMeans`, ...).

The theorem holds with `CodeAfterDeadBlock`, too, and for any number of locals and
results: where nothing runs, `WasmControl` has no frame that could be wrong.

### Parallel moves

`StackTransferProofs`, for any set of registers, stacks of any height, any contents
and any order of planning, from `RegsAssumption` and `StackTransferAssumption`
(the frame has room above the stack for one slot per register).

| theorem | statement |
|---|---|
| `TransferInv` | `Spec => []IInv` |
| `RecipesStayInFrame` | `Spec => []TypeOK` |
| `TransfersAreSimultaneous` | `Spec => []Simultaneous` |
| `TransferAssertsHold` | `~Float => (Spec => []AssertsHold)` |

`IInv` says of every planned pair that its value has arrived or is on its way
(`Arrives`): a pending move reads it from a register, or a pending load from a
frame slot or the code, or it is in place. What keeps a value on its way unharmed
differs by phase. While stores are emitted, no slot that is stored to is the
source of another pair (`PairsApart`), and a pending load reads the slot of a
pair that is planned (`Asked`). While moves are executed, `Counts` does it: a
register with readers has a use count of at least their number, so that one with
count 0 may be overwritten. The count may be higher than the number of readers
(a move asked for twice is counted twice), which is why the pass may leave moves
that are in no cycle; the frame slot that breaks a cycle is above every slot that a
pending load reads (`LoadsBelow`) and within the frame because there is one for
every move (`RoomLeft`). That no register is moved to and loaded at the same time,
nor asked for with two sources, is `Compatible`, what a merge guarantees about
targets that share a register (`TakenTarget`).

### Code units

`CodeUnitsProofs`, for any nesting, any number of units, references and
instructions, with and without code that looks like a jump
(`CodeUnitsAssumption`).

| theorem | statement |
|---|---|
| `Inductive` | `Spec => []IInv` |
| `TypeCorrect` | `Spec => []TypeOK` |
| `NoAssertFails` | `Spec => []AssertsHold` |
| `JumpsDoArrive` | `Spec => []JumpsArrive` |
| `JumpsAreResolved` | `Spec => []Resolved`: no jump is left waiting when the function ends |
| `UnitsAreChained` | `Spec => []UnitsChained` |
| `GraphsDoAgree` | `Spec => []GraphAgrees` |
| `UnitsDoTile` | `Spec => []UnitsTile` |
| `UnitsAreOccupied` | `Spec => []UnitsOccupied` |
| `EntriesDoPatch` | `Spec => []EntriesPatchTheirJumps` |

The passes know nothing of the compiler's control stack. A jump back looks for the
last unit of some depth; a jump forward is kept with a type and a relative depth
until a unit begins that seems to be the one. That both find the right
unit is what has to be shown, and it needs nearly everything at once:

    Sound(u, ctl, bnd) == u.ok /\ CodeOK(u) /\ Nested(u, ctl) /\ PlacesOK(u, ctl, bnd)
                          /\ AllAimed(u, ctl, bnd) /\ Chained(u, bnd)
    IInv == Sound(code, control, bound) /\ NoDeadEnd(code, control)
            /\ at the end the last unit is closed, and the entries are those of its references

* `CodeOK` is about the code alone: units tile it and all but the last have code
  (`Tiled`), each reference lies in the unit it names (`RefsIn`), and the n-th lea of a
  unit is for its n-th target, with at most one target more in a unit that is closed
  (`Agreed`; `PatchedAlike` keeps it when either pass patches).
* `Nested` ties units to blocks: every open block has a unit that began it, and behind
  that one none of its depth but those that began where an inner block ended
  (`Begins`). From it follows where a jump back ends (`BranchBack`): at the loop's own
  unit unless an inner block of the loop has ended before, which is the
  case that `JumpsArrive` leaves out and finding 1 is about.
* `AllAimed` says of every jump that it is at its place, or that the place belongs to a
  block that is open and that the jump waits under the depth of that block, by which
  the end of that block and of no other will find it.
* `NoDeadEnd`: where execution reaches the end of the code so far, the last bytes
  are no jump unless `last_branch` is `br_if`. Without it `insert_jump` could skip a
  unit that goes on, and `Chained` would not be kept.

A hook is followed through both passes once (`StartSound`, `ElseSound`, `EndSound`,
`BrSound`), and every opcode is a composition of hooks. Two facts are about
recursive functions: the cases of a `br_table` (`CasesSound`) and the sum of sizes that
`randomize_layout` asserts (`TrackSizeIs`). They are proved by induction over the set
of numbers for which the claim holds (`UpTo`), which needs no theorem with an
operator for a parameter.

### Labels

`LabelsProofs`, for any labels, any reach of a byte, any code size and any number
of jumps, from `LabelsAssumption`.

| theorem | statement |
|---|---|
| `Inductive` | `Spec => []IInv` |
| `TypeCorrect` | `Spec => []TypeOK` |
| `NoAssertFails` | `Spec => []AssertsHold` |
| `ListsAreExact` | `Spec => []ListsExact` |
| `ListsImplement` | `Spec => ImplementsLabels` |

`ListsExact` says of every list that it starts at the last waiting jump and that
each link is the next one below: a local statement, which needs no path through
the list, so that no induction over it is needed. `IInv` adds that jumps lie one behind the other and end
before `pc` (a new jump is the highest), that a label has one kind of jump only,
that waiting Near jumps reach, and `AllSettled`: a jump that does not wait goes to
its label, or to `pc` if that is just being bound. A new jump (`LinkInv`) and a
patched one (`PatchInv`) are one argument each for Near and Far. The refinement
needs `AllSettled` at `BindDone`, where all jumps of the label settle in one
step of `LabelSpec`; the rounds before it stutter.

### The code region

`CodeRegionProofs`, for any sizes of unit, page and region of which half, and a
unit more, ends before the region (`CodeRegionAssumption`).

| theorem | statement |
|---|---|
| `Inductive` | `Spec => []IInv` |
| `TypeCorrect` | `Spec => []TypeOK` |
| `SearchStaysInRegion` | `Spec => []SearchInRegion` |
| `HalvesStayApart` | `Spec => []HalvesApart` |
| `CodeIsExclusive` | `Spec => []Exclusive` |

Chunks share no byte because they share no unit: `IInv` says that every chunk's
span is marked in the bitmap and that spans are disjoint; the arithmetic of
`size / UnitSize + 1` is in lemmas of its own.

### The reuse of r11

`ScratchUseProofs`, for any globals and any nesting: `NoteIsRight` and
`AccessIsRight` (`Spec => []AccessRight`), from the invariant that what the note
says is all that r11 may hold on any path. It is inductive because every place where
paths meet drops the note.

### Only model-checked

With a table `AssertsHold` of `ValueStack` is false once every register may be in use; that
it holds while the stack is too low for that (the run `indirect`) is only checked. `WasmControl` is
refined for functions that do not meet finding 2. Out of the prover's reach and left to TLC: `Completes`, `BindEnds`
and `SearchEnds` (liveness), and what recursive functions over sequences such as
`TransferArgs` compute in general, which would need induction over data.

## 7. Not modelled

* Floating point registers as a second class. The allocator treats the classes
  independently, with the same code; `float_alias` models the one place that
  tells them apart.
* The spill spots used to break cycles at the end of a one-armed `if`: the code
  places them above the stack of the arm just compiled, while the transfer
  moves that of the else arm. The two have the same height unless code that
  nothing reaches has popped operands.
* `memory.grow` in a memory with a maximum pops one operand and pushes two.
  `ValueStack` models it (`MaxMemory`), the runs keep to memories without a
  maximum: the stack of the model would no longer be that of valid code.
* Of the passes: the code they emit other than jumps between units (transaction
  begin and end, counters), which saves what it uses and does not change the cache
  state; units of fixed size (`FIX_SIZE_UNIT`, with `TSX_SUPPORT` 0 in
  `config.h`), and the passes that are switched off.
* Of relocation: the bytes of addresses, and the order of units, which nothing reads.
* Calls between functions: their references are resolved by function, with no
  state between.
* The parser, instantiation, the Emscripten runtime, enclave entry and ocall
  stubs: sequential input, output and table filling in one thread, with no state
  that a later step could find stale. What `instantiate.c` does with compiled
  functions is in `CodeUnits` (`Relocate`).
* Type tables: compile.c:3449-3484 finds two types equal only if they have parameters;
  what follows for an indirect call depends on how `instantiate.c` numbers
  types.
* Older generations (`src/sgx-wasm`, `src/sgx-wasmjit`, `src/wasmjit`) and
  vendored code and benchmarks (SGX-Shield, SQLite, libjpeg, lighttpd).
