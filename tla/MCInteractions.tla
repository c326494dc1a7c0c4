---------------------------- MODULE MCInteractions ----------------------------
EXTENDS Interactions

\* A question, and two approvals that differ only in the command they are for.
Contents ==
  {[kind |-> "ask", prompt |-> 1, detail |-> 0]}
    \cup [kind : {"approval"}, prompt : {2}, detail : {1, 2}]
=============================================================================
