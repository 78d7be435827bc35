----------------------------- MODULE MCCodeUnits -----------------------------
(***************************************************************************)
(* Small instances of CodeUnits.                                           *)
(***************************************************************************)
EXTENDS CodeUnits

=============================================================================
