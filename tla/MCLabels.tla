------------------------------- MODULE MCLabels -------------------------------
(* Labels on a scale where a byte reaches from -7 to 6. *)
EXTENDS Labels

=============================================================================
