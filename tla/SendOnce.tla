------------------------------ MODULE SendOnce ------------------------------
(***************************************************************************)
(* What the email path promises about outbound messages, whatever the      *)
(* number of reviewers, transport executions and failures: a message gets  *)
(* to its recipient at most once, only after a human approved it, and      *)
(* never after its transport attempts are used up.  EmailSend implements   *)
(* it in the environments named there.                                     *)
(***************************************************************************)
EXTENDS Naturals

CONSTANT Messages

VARIABLES
  approved,   \* messages a human approved, ever
  copies,     \* how many times each message was handed to its recipient
  dead        \* messages whose transport attempts are used up

svars == <<approved, copies, dead>>

SInit ==
  /\ approved = {}
  /\ copies = [m \in Messages |-> 0]
  /\ dead = {}

SApprove(m) ==
  /\ approved' = approved \union {m}
  /\ UNCHANGED <<copies, dead>>

SDeliver(m) ==
  /\ m \in approved \ dead
  /\ copies[m] = 0
  /\ copies' = [copies EXCEPT ![m] = 1]
  /\ UNCHANGED <<approved, dead>>

SBury(m) ==
  /\ copies[m] = 0
  /\ dead' = dead \union {m}
  /\ UNCHANGED <<approved, copies>>

SNext == \E m \in Messages : SApprove(m) \/ SDeliver(m) \/ SBury(m)

SSpec == SInit /\ [][SNext]_svars

=============================================================================
