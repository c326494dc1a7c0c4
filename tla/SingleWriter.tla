------------------------------ MODULE SingleWriter ------------------------------
(***************************************************************************)
(* What custody of a harness session promises: a session has at most one   *)
(* writer, a daemon turn or one interactive terminal.                      *)
(***************************************************************************)
CONSTANT Cli                \* the attach commands that may open a terminal

VARIABLES turn,             \* a daemon turn is in flight
          terminals         \* the commands whose terminal is open

Init == turn = FALSE /\ terminals = {}

Free == ~turn /\ terminals = {}

TurnStarts == Free /\ turn' = TRUE /\ UNCHANGED terminals
TurnEnds   == turn' = FALSE /\ UNCHANGED terminals

TerminalOpens(c)  == Free /\ terminals' = {c} /\ UNCHANGED turn
TerminalCloses(c) == terminals' = terminals \ {c} /\ UNCHANGED turn

Next ==
  \/ TurnStarts \/ TurnEnds
  \/ \E c \in Cli : TerminalOpens(c) \/ TerminalCloses(c)

Spec == Init /\ [][Next]_<<turn, terminals>>
=============================================================================
