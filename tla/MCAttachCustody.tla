--------------------------- MODULE MCAttachCustody ---------------------------
(* AttachCustody for TLC: two attach commands, as model values. *)
EXTENDS AttachCustody, TLC

=============================================================================
