--------------------------- MODULE MCStackTransfer ---------------------------
(***************************************************************************)
(* Small instances of StackTransfer.  Every register and frame slot starts *)
(* with a value of its own, or all of the frame with the same one (slots   *)
(* that one register was spilled to).                                      *)
(***************************************************************************)
EXTENDS StackTransfer

MCRegs   == {0, 1, 2}
MCValues == 0 .. 10
MCSlots  == {StackSlot, ConstSlot(0)} \cup {RegSlot(r) : r \in Regs}

OwnValue(i) == 3 + i

MCInit ==
  /\ regs0 = [r \in Regs |-> r + 1]
  /\ mem0 \in {[i \in Frame |-> OwnValue(i)], [i \in Frame |-> OwnValue(1)]}
  /\ source \in [1 .. SourceHeight -> MCSlots]
  /\ Init
  /\ \A d \in DOMAIN target : target[d] \in MCSlots

MCSpec == MCInit /\ [][Next]_vars /\ WF_vars(Next)

=============================================================================
