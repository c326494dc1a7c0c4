--------------------------- MODULE MCCollaboration ---------------------------
(* Two agents, told apart only by their names. *)
EXTENDS CollaborationRounds
CONSTANTS a, b, stale
=============================================================================
