----------------------------- MODULE MCCodeRegion -----------------------------
(* Two units to a page, and sizes on both sides of a unit's border. *)
EXTENDS CodeRegion

=============================================================================
