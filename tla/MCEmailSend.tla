----------------------------- MODULE MCEmailSend -----------------------------
(* Small instances of EmailSend for TLC.                                     *)
EXTENDS EmailSend, TLC

CONSTANTS e1, e2, r1, r2, l1, l2

OneMessage == {1}
TwoMessages == {1, 2}
OneLead == [m \in Messages |-> l1]
TwoLeads == [m \in Messages |-> IF m = 1 THEN l1 ELSE l2]

\* Executions, and reviewers, are interchangeable; messages are ordered.
Workers == Permutations({e1, e2}) \union Permutations({r1, r2})

=============================================================================
