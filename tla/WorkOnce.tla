------------------------------ MODULE WorkOnce ------------------------------
(***************************************************************************)
(* What the job queue promises to those who enqueue, whatever the number   *)
(* of processes that claim, their deaths and the database's failures: a    *)
(* job is worked on by one worker at a time and at most Limit times, it is *)
(* finished only by the worker that has it, as completed only after its    *)
(* handler returned, as dead only when its tries are used up, and what is  *)
(* finished and let go of stays so.  It promises neither that a job which  *)
(* lost its worker is taken again, nor that a completed one is not worked  *)
(* on again when its worker did not hear that it was.  JobQueue            *)
(* implements it.                                                          *)
(***************************************************************************)
EXTENDS Naturals, FiniteSets

CONSTANTS
  Jobs, Workers, Limit,
  Repeated    \* jobs that are submitted again when they are finished

VARIABLES
  state,      \* where each job stands
  tries,      \* how often it was taken
  workers,    \* who works on it
  returned    \* jobs in work whose handler has returned

wvars == <<state, tries, workers, returned>>

WInit ==
  /\ state = [j \in Jobs |-> "ABSENT"]
  /\ tries = [j \in Jobs |-> 0]
  /\ workers = [j \in Jobs |-> {}]
  /\ returned = {}

WSubmit(j) ==
  /\ \/ state[j] = "ABSENT"
     \/ j \in Repeated /\ state[j] \in {"COMPLETED", "DEAD_LETTER"} /\ workers[j] = {}
  /\ state' = [state EXCEPT ![j] = "QUEUED"]
  /\ tries' = [tries EXCEPT ![j] = 0]
  /\ UNCHANGED <<workers, returned>>

\* By a worker, or by one that stops before it learns of it.
WTake(j, by) ==
  /\ state[j] = "QUEUED" /\ workers[j] = {} /\ tries[j] < Limit
  /\ state' = [state EXCEPT ![j] = "RUNNING"]
  /\ tries' = [tries EXCEPT ![j] = @ + 1]
  /\ workers' = [workers EXCEPT ![j] = by]
  /\ UNCHANGED returned

WReturn(j) ==
  /\ workers[j] # {} /\ j \notin returned
  /\ returned' = returned \union {j}
  /\ UNCHANGED <<state, tries, workers>>

\* The result cannot be stored: to the worker it is a failure.
WForget(j) ==
  /\ j \in returned
  /\ returned' = returned \ {j}
  /\ UNCHANGED <<state, tries, workers>>

WComplete(j) ==
  /\ state[j] = "RUNNING" /\ workers[j] # {} /\ j \in returned
  /\ state' = [state EXCEPT ![j] = "COMPLETED"]
  /\ workers' = [workers EXCEPT ![j] = {}]
  /\ returned' = returned \ {j}
  /\ UNCHANGED tries

\* It is completed, and its worker takes it for a failure.
WCompleteUnheard(j) ==
  /\ state[j] = "RUNNING" /\ j \in returned
  /\ state' = [state EXCEPT ![j] = "COMPLETED"]
  /\ returned' = returned \ {j}
  /\ UNCHANGED <<tries, workers>>

WFail(j) ==
  /\ state[j] \in {"RUNNING", "COMPLETED"} /\ workers[j] # {} /\ j \notin returned
  /\ state' = [state EXCEPT ![j] = IF tries[j] = Limit THEN "DEAD_LETTER" ELSE "QUEUED"]
  /\ workers' = [workers EXCEPT ![j] = {}]
  /\ UNCHANGED <<tries, returned>>

\* A worker loses some of its jobs, which then stay as they are.
WLose(w, S) ==
  /\ \A j \in S : w \in workers[j]
  /\ workers' = [j \in Jobs |-> IF j \in S THEN workers[j] \ {w} ELSE workers[j]]
  /\ returned' = returned \ S
  /\ UNCHANGED <<state, tries>>

WNext ==
  \/ \E j \in Jobs :
       \/ WSubmit(j) \/ WReturn(j) \/ WForget(j)
       \/ WComplete(j) \/ WCompleteUnheard(j) \/ WFail(j)
       \/ WTake(j, {}) \/ \E w \in Workers : WTake(j, {w})
  \/ \E w \in Workers : \E S \in SUBSET Jobs : WLose(w, S)

WSpec == WInit /\ [][WNext]_wvars

=============================================================================
