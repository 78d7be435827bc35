---------------------------- MODULE MCScratchUse ----------------------------
(* The memory and one global, blocks nested two deep in the body. *)
EXTENDS ScratchUse

=============================================================================
