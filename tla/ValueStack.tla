------------------------------ MODULE ValueStack ------------------------------
(***************************************************************************)
(* Straight-line compilation: one action per opcode handler of             *)
(* sgxwasm_compile_function_body (compile.c) that works on the cache       *)
(* stack, with the instructions it emits executed on the spot.             *)
(*                                                                         *)
(* Between two handlers only the registers and frame slots that some cache *)
(* slot names may be relied on, so the model forgets the others.           *)
(***************************************************************************)
EXTENDS RegisterCache

CONSTANTS UnaryOp, BinaryOp,        \* the meaning of the arithmetic opcodes
          Immediates,               \* the constants that occur in the code
          NumLocals, NumParams,     \* locals of the function, parameters among them
          MaxParams,                \* bound on the parameters of a callee
          RAX, RCX, RDX,            \* registers with a fixed role
          ScratchGP,                \* assembler scratch, r10
          ParamRegs,                \* GPParameterList: registers of the first parameters
          FirstFunction,            \* TRUE: the first function compiled since start-up
          HasTable,                 \* TRUE: the module has a table for indirect calls
          MaxMemory                 \* max_memory_size, 0 when the module sets none

ASSUME ValueStackAssumption ==
  /\ UnaryOp \in [Values -> Values]
  /\ BinaryOp \in [Values \X Values -> Values]
  /\ Immediates \subseteq Values
  /\ NumLocals \in Nat /\ NumParams \in 0 .. NumLocals /\ NumLocals <= MaxHeight
  /\ MaxParams \in Nat
  /\ {RAX, RCX, RDX} \subseteq Regs \ Reserved
  \* No handler pins more than two registers and asks for another, but
  \* call_indirect, which pins three.
  /\ Cardinality(Regs \ Reserved) >= (IF HasTable THEN 4 ELSE 3)
  /\ ScratchGP \in Reserved
  /\ ParamRegs \in Seq(Regs \ Reserved)
  \* The register that holds the address of a callee is the first free one of
  \* the enum, rax, which no parameter is passed in.
  /\ \A r \in Regs \ Reserved : RAX <= r
  /\ \A i, j \in DOMAIN ParamRegs : ParamRegs[i] # RAX /\ (ParamRegs[i] = ParamRegs[j] => i = j)
  /\ FirstFunction \in BOOLEAN /\ HasTable \in BOOLEAN /\ MaxMemory \in Nat

VARIABLES stack, used, count, last, spills, ok,   \* the compiler's cache state
          regs, mem,                              \* the machine running the code
          effect                                  \* the last opcode compiled, and what
                                                  \* its code did outside the frame

cache == <<stack, used, count, last, spills, ok>>
vars  == <<cache, regs, mem, effect>>

Ctx == [stack |-> stack, used |-> used, count |-> count, last |-> last,
        spills |-> spills, ok |-> ok, regs |-> regs, mem |-> mem]

Become(c) == /\ Height(c) <= MaxHeight
             /\ stack' = c.stack /\ used' = c.used /\ count' = c.count /\ last' = c.last
             /\ spills' = c.spills /\ ok' = c.ok
             /\ regs' = LiveRegs(c) /\ mem' = LiveMem(c)

Emit(k, args) == effect' = [kind |-> k, args |-> args]

\* Validated code never pops below its locals; nothing runs after a failed assert.
Ready(n) == ok /\ Len(stack) - NumLocals >= n

-----------------------------------------------------------------------------
(* Two operands at most reach a machine instruction; junk in, junk out. *)

Unary(v)     == IF v \in Values THEN UnaryOp[v] ELSE Junk
Binary(v, w) == IF v \in Values /\ w \in Values THEN BinaryOp[<<v, w>>] ELSE Junk

\* F64_ADD of EmitBinOp: a two-address instruction after a move.
EmitTwoAddress(c, dst, lhs, rhs) ==
  IF dst = lhs THEN SetReg(c, dst, Binary(c.regs[lhs], c.regs[lhs]))
  ELSE LET m == Move(c, dst, lhs)
       IN  SetReg(m, dst, Binary(m.regs[dst], m.regs[rhs]))

\* EmitShiftOp: the amount has to be in rcx.
EmitShift(c, dst, src, amount) ==
  IF dst = RCX
  THEN LET a == Move(c, ScratchGP, src)
           b == IF amount = RCX THEN a ELSE Move(a, RCX, amount)
           s == SetReg(b, ScratchGP, Binary(b.regs[ScratchGP], b.regs[RCX]))
       IN  Move(s, RCX, ScratchGP)
  ELSE LET save == amount # RCX /\ (src = RCX \/ RCX \in c.used)
           a    == IF save THEN Move(c, ScratchGP, RCX) ELSE c
           from == IF amount # RCX /\ src = RCX THEN ScratchGP ELSE src
           b    == IF amount = RCX THEN a ELSE Move(a, RCX, amount)
           d    == IF dst = from THEN b ELSE Move(b, dst, from)
           s    == SetReg(d, dst, Binary(d.regs[dst], d.regs[RCX]))
       IN  IF save THEN Move(s, RCX, ScratchGP) ELSE s

\* emit_div_or_rem: dividend in rax, rdx zeroed, quotient in rax, remainder in rdx.
EmitDivision(c, dst, lhs, rhs, result) ==
  LET a   == IF rhs \in {RAX, RDX} THEN Move(c, ScratchGP, rhs) ELSE c
      by  == IF rhs \in {RAX, RDX} THEN ScratchGP ELSE rhs
      b   == IF lhs = RAX THEN a ELSE Move(a, RAX, lhs)
      q   == Binary(b.regs[RAX], SetReg(b, RDX, Junk).regs[by])
      d   == SetReg(SetReg(b, RAX, IF result = RAX THEN q ELSE Junk),
                    RDX, IF result = RDX THEN q ELSE Junk)
  IN  IF dst = result THEN d ELSE Move(d, dst, result)

-----------------------------------------------------------------------------
(* Function entry: sgxwasm_compile_function. *)

\* process_parameters and the zero-initialised locals, slot by slot.
EntrySlot(i) == IF i <= NumParams THEN RegSlot(ParamRegs[i]) ELSE ConstSlot(0)

Init ==
  /\ NumParams <= Len(ParamRegs)
  /\ stack = [i \in 1 .. NumLocals |-> EntrySlot(i)]
  /\ used = (IF FirstFunction THEN {} ELSE Reserved)
            \cup {ParamRegs[i] : i \in 1 .. NumParams}
  /\ count = [r \in Regs |-> Cardinality({i \in 1 .. NumParams : ParamRegs[i] = r})]
  /\ last = {} /\ spills = 0 /\ ok = TRUE
  /\ \E v \in [1 .. NumParams -> Values] :
       regs = [r \in Regs |-> IF \E i \in 1 .. NumParams : ParamRegs[i] = r
                              THEN v[CHOOSE i \in 1 .. NumParams : ParamRegs[i] = r] ELSE Junk]
  /\ mem = [i \in Frame |-> Junk]
  /\ effect = [kind |-> "none", args |-> <<>>]

-----------------------------------------------------------------------------
(* Constants, globals, locals. *)

I32Const(v) == Ready(0) /\ Become(PushConst(Ctx, v)) /\ Emit("const", <<v>>)

\* I64_CONST beyond 32 bits, F32_CONST, F64_CONST, GET_GLOBAL.
LoadValue(v) == Ready(0) /\ Become(LoadedValue(Ctx, v)) /\ Emit("const", <<v>>)

GetLocal(x) == Ready(0) /\ Become(CopyLocal(Ctx, x)) /\ Emit("get_local", <<x>>)

SetLocal(x) == Ready(1) /\ Become(SetLocalImpl(Ctx, x, FALSE)) /\ Emit("set_local", <<x>>)
TeeLocal(x) == Ready(1) /\ Become(SetLocalImpl(Ctx, x, TRUE)) /\ Emit("tee_local", <<x>>)

Drop == Ready(1) /\ Become(DropTop(Ctx)) /\ Emit("drop", <<>>)

-----------------------------------------------------------------------------
(* Arithmetic. *)

\* EmitUnOp and EmitTypeConversion: the operand's register is tried first.
UnaryCode(c) ==
  LET src == PopToRegister(c, {})
      d   == GetUnused(src.c, {src.reg}, {})
  IN  PushRegister(SetReg(d.c, d.reg, Unary(d.c.regs[src.reg])), d.reg)

UnOp == Ready(1) /\ Become(UnaryCode(Ctx)) /\ Emit("unary", <<>>)

\* Mutant: the register of one operand is not pinned while the other is filled.
PopOperandsUnpinned(c) ==
  LET rhs == PopToRegister(c, {})
      lhs == PopToRegister(rhs.c, {})
      d   == GetUnused(lhs.c, {}, {rhs.reg, lhs.reg})
  IN  [c |-> d.c, dst |-> d.reg, lhs |-> lhs.reg, rhs |-> rhs.reg]

\* EmitBinOp: both operands stay pinned while the result register is chosen.
PopOperands(c) ==
  LET rhs == PopToRegister(c, {})
      lhs == PopToRegister(rhs.c, {rhs.reg})
      d   == GetUnused(lhs.c, {}, {rhs.reg, lhs.reg})
  IN  [c |-> d.c, dst |-> d.reg, lhs |-> lhs.reg, rhs |-> rhs.reg]

BinaryCode(o) == PushRegister(EmitTwoAddress(o.c, o.dst, o.lhs, o.rhs), o.dst)
ShiftCode(o)  == PushRegister(EmitShift(o.c, o.dst, o.lhs, o.rhs), o.dst)

\* Make sure {edx:eax} is not used before emitting div or rem.
DivisionCode(o, result) ==
  PushRegister(EmitDivision(SpillRegister(SpillRegister(o.c, RAX), RDX),
                            o.dst, o.lhs, o.rhs, result), o.dst)

BinOp         == Ready(2) /\ Become(BinaryCode(PopOperands(Ctx))) /\ Emit("binary", <<>>)
ShiftOp       == Ready(2) /\ Become(ShiftCode(PopOperands(Ctx))) /\ Emit("binary", <<>>)
DivOp(result) == Ready(2) /\ Become(DivisionCode(PopOperands(Ctx), result)) /\ Emit("binary", <<>>)

SelectCode(c) ==
  LET cond  == PopToRegister(c, {})
      false == PopToRegister(cond.c, {cond.reg})
      true  == PopToRegister(false.c, {cond.reg, false.reg})
      d     == GetUnused(true.c, {false.reg, true.reg}, {})
      from  == IF d.c.regs[cond.reg] # 0 THEN true.reg ELSE false.reg
  IN  PushRegister(IF d.reg = from THEN d.c ELSE Move(d.c, d.reg, from), d.reg)

Select == Ready(3) /\ Become(SelectCode(Ctx)) /\ Emit("select", <<>>)

-----------------------------------------------------------------------------
(* Linear memory and globals. *)

LoadCode(c) ==
  LET index == PopToRegister(c, {})
      d     == GetUnused(index.c, {}, {index.reg})
  IN  PushRegister(SetReg(d.c, d.reg, Unary(d.c.regs[index.reg])), d.reg)

LoadMem == Ready(1) /\ Become(LoadCode(Ctx)) /\ Emit("unary", <<>>)

StoreOperands(c) ==
  LET value == PopToRegister(c, {})
      index == PopToRegister(value.c, {value.reg})
  IN  [c |-> index.c, args |-> <<index.c.regs[index.reg], index.c.regs[value.reg]>>]

StoreMem == /\ Ready(2)
            /\ \E o \in {StoreOperands(Ctx)} : Become(o.c) /\ Emit("store", o.args)

SetGlobal == /\ Ready(1)
             /\ \E value \in {PopToRegister(Ctx, {})} :
                  Become(value.c) /\ Emit("global", <<value.c.regs[value.reg]>>)

\* MEMORY_GROW; without a maximum the current size is returned.
GrowCode(c, v) ==
  LET value == PopToRegister(c, {})
      page  == GetUnused(value.c, {}, {})
  IN  IF MaxMemory = 0 THEN PushConst(value.c, v)
      ELSE PushConst(PushRegister(page.c, value.reg), v)

MemoryGrow(v) == Ready(1) /\ Become(GrowCode(Ctx, v)) /\ Emit("grow", <<v>>)

-----------------------------------------------------------------------------
(* Calls. *)

\* prepare_call, first loop: every register slot below the arguments is stored.
SpillBelow(c, base) == StoreSlots(c, {i \in 1 .. base : c.stack[i].loc = "reg"})

\* The arguments travel at once: StackTransfer shows that the emitted moves
\* and loads have this effect.
InRegister(n)      == {j \in 1 .. n : j <= Len(ParamRegs)}
ParamReg(n, r)     == CHOOSE j \in InRegister(n) : ParamRegs[j] = r
TransferArgs(c, n) ==
  [c EXCEPT !.regs = [r \in Regs |->
      IF \E j \in InRegister(n) : ParamRegs[j] = r
      THEN ValueAt(c, Height(c) - n + ParamReg(n, r)) ELSE @[r]]]

\* What the callee finds: the parameter registers, and the pushed arguments,
\* which are read before any register moves.
Passed(before, after, n) ==
  [j \in 1 .. n |-> IF j \in InRegister(n) THEN after.regs[ParamRegs[j]]
                    ELSE ValueAt(before, Height(before) - n + j)]

\* Mutants: an off-by-one in stack_resize, and registers not freed after the call.
FinishOneTooLow(c, n, result) ==
  LET gone == ResetUsed([c EXCEPT !.stack = SubSeq(@, 1, Len(@) - n - 1)])
  IN  IF result = <<>> THEN gone ELSE PushRegister(SetReg(gone, RAX, result[1]), RAX)

FinishWithoutReset(c, n, result) ==
  LET gone == [c EXCEPT !.stack = SubSeq(@, 1, Len(@) - n), !.regs  = [r \in Regs |-> Junk]]
  IN  IF result = <<>> THEN gone
      ELSE PushRegister(Assert(SetReg(gone, RAX, result[1]), ~(RAX \in gone.used)), RAX)

\* The end of prepare_call, the call itself, and finish_call.
Finish(c, n, result) ==
  LET gone == ResetUsed([c EXCEPT !.stack = SubSeq(c.stack, 1, Len(c.stack) - n),
                                  !.regs  = [r \in Regs |-> Junk]])
  IN  IF result = <<>> THEN gone
      ELSE PushRegister(Assert(SetReg(gone, RAX, result[1]), ~(RAX \in gone.used)), RAX)

\* call_direct: the address register is taken after prepare_call.
DirectCall(c, n) ==
  LET args == TransferArgs(SpillBelow(c, Height(c) - n), n)
      addr == GetUnused(ResetUsed(args), {}, {})
  IN  [c |-> args, args |-> Passed(c, SetReg(addr.c, addr.reg, Junk), n)]

CallDirect(n, result) ==
  /\ Ready(n)
  /\ \E call \in {DirectCall(Ctx, n)} :
       Become(Finish(call.c, n, result)) /\ Emit("call", <<call.args, result>>)

\* call_indirect pops the table index; a copy is made when a slot still names it.
TableIndex(c) ==
  LET popped == PopToRegister(c, {})
      new    == GetUnused(popped.c, {}, {})
  IN  IF popped.reg \in popped.c.used
      THEN With(Move(new.c, new.reg, popped.reg), new.reg)
      ELSE popped

\* Three temporaries; the table entry ends up in scratch.
TableEntry(index) ==
  LET table   == GetUnused(index.c, {}, {index.reg})
      const   == GetUnused(table.c, {}, {index.reg, table.reg})
      scratch == GetUnused(const.c, {}, {index.reg, table.reg, const.reg})
      clobber == SetReg(SetReg(scratch.c, const.reg, Junk), table.reg, Junk)
      entry   == SetReg(SetReg(clobber, scratch.reg, scratch.c.regs[index.reg]), index.reg, Junk)
  IN  With(entry, scratch.reg)

\* Mutant: the arguments may overwrite the target.
IndirectCallTargetLost(entry, n) ==
  LET c    == SpillBelow(entry.c, Height(entry.c) - n)
      args == TransferArgs(c, n)
  IN  [c |-> args, args |-> Append(Passed(c, args, n), args.regs[entry.reg])]

\* A target that the arguments overwrite moves along with them.
IndirectCall(entry, n) ==
  LET c      == SpillBelow(entry.c, Height(entry.c) - n)
      params == {ParamRegs[j] : j \in InRegister(n)}
      target == IF entry.reg \in params THEN FirstOf(Regs \ params) ELSE entry.reg
      args   == IF entry.reg \in params
                THEN SetReg(TransferArgs(c, n), target, c.regs[entry.reg]) ELSE TransferArgs(c, n)
  IN  [c |-> args, args |-> Append(Passed(c, args, n), args.regs[target])]

CallIndirect(n, result) ==
  /\ HasTable /\ Ready(n + 1)
  /\ \E call \in {IndirectCall(TableEntry(TableIndex(Ctx)), n)} :
       Become(Finish(call.c, n, result)) /\ Emit("indirect", <<call.args, result>>)

-----------------------------------------------------------------------------
(* LOOP *)

EnterLoop == Ready(0) /\ Become(SpillLocals(Ctx, NumLocals)) /\ Emit("loop", <<>>)

-----------------------------------------------------------------------------

Results == {<<>>} \cup {<<v>> : v \in Values}

Next ==
  \/ \E v \in Immediates : I32Const(v) \/ MemoryGrow(v)
  \/ \E v \in Values : LoadValue(v)
  \/ \E x \in 1 .. NumLocals : GetLocal(x) \/ SetLocal(x) \/ TeeLocal(x)
  \/ Drop \/ UnOp \/ BinOp \/ ShiftOp \/ Select
  \/ \E result \in {RAX, RDX} : DivOp(result)
  \/ LoadMem \/ StoreMem \/ SetGlobal \/ EnterLoop
  \/ \E n \in 0 .. MaxParams, result \in Results :
       CallDirect(n, result) \/ CallIndirect(n, result)

Spec == Init /\ [][Next]_vars

-----------------------------------------------------------------------------
(* Properties. *)

Opcodes == {"none", "const", "get_local", "set_local", "tee_local", "drop", "unary", "binary",
            "select", "store", "global", "grow", "loop", "call", "indirect"}

\* The cache state is well formed and so are the machine's contents.
TypeOK == /\ Ctx \in Context
          /\ Len(stack) \in NumLocals .. MaxHeight
          /\ effect.kind \in Opcodes

\* register_use_count of a register is the number of slots it holds and a
\* register is marked used exactly when it holds one or is reserved: what
\* dec_used, spill_register and every choice of a free register rely on.
CountsExact ==
  \A r \in Regs : /\ count[r] = Cardinality(Holders(Ctx, r))
                  /\ r \in used <=> (r \in Reserved \/ count[r] > 0)

\* No assert of the allocator or of Move fails, whatever the code compiled.
AssertsHold == ok

\* The stack pointer, the frame pointer, the callee-saved registers and the
\* scratch registers are never the home of a local or an operand.
ReservedStayFree == \A i \in DOMAIN stack : stack[i].reg \notin Reserved

\* The frame that patch_stack_frame reserves reaches every slot read from it.
FrameCoversSlots == \A i \in DOMAIN stack : stack[i].loc = "stack" => i <= spills

\* The generated code computes what the WebAssembly code means: reading every
\* slot where the cache says it lives gives a run of the value stack.
Wasm == INSTANCE WasmStack WITH
          frame <- [i \in DOMAIN stack |-> ValueAt(Ctx, i)]

ImplementsWasm == Wasm!Spec

=============================================================================
