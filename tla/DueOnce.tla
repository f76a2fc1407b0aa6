------------------------------ MODULE DueOnce ------------------------------
(***************************************************************************)
(* What a recurring schedule promises, whatever runs it: a time it stands  *)
(* at comes due, a due time gets one job, and only then does the schedule  *)
(* move on to a time that has none.  No due time is passed over, none is   *)
(* served twice, and nothing is done before its time.  IntentEvents        *)
(* implements it, with ticks that overlap, fail and die.                   *)
(***************************************************************************)
EXTENDS Naturals

CONSTANT Times

VARIABLES
  time,      \* where the schedule stands
  waiting,   \* this time has come, and has no job yet
  jobs       \* jobs made for each time

dvars == <<time, waiting, jobs>>

DInit ==
  /\ time \in Times /\ waiting = TRUE
  /\ jobs = [s \in Times |-> 0]

DComesDue ==
  /\ ~waiting /\ jobs[time] = 0
  /\ waiting' = TRUE
  /\ UNCHANGED <<time, jobs>>

DServe ==
  /\ waiting /\ jobs[time] = 0
  /\ waiting' = FALSE
  /\ jobs' = [jobs EXCEPT ![time] = 1]
  /\ UNCHANGED time

\* On to another time; one that is used again stands for a later one.
DMoveOn(s) ==
  /\ ~waiting /\ s # time
  /\ time' = s
  /\ jobs' = [jobs EXCEPT ![s] = 0]
  /\ UNCHANGED waiting

DNext == DComesDue \/ DServe \/ \E s \in Times : DMoveOn(s)

DSpec == DInit /\ [][DNext]_dvars

=============================================================================
