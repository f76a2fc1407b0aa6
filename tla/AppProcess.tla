----------------------------- MODULE AppProcess -----------------------------
(* The start of a backend process and its rate limiter (main.py): several      *)
(* processes that start on one database apply the migration files, each file   *)
(* claimed by an INSERT, applied by psql and given back when it fails; and the *)
(* requests of one address, whose times are kept in the memory of the process  *)
(* they reach.                                                                 *)
EXTENDS Naturals, Sequences, FiniteSets, SequencesExt

CONSTANTS Files,                 \* number of migration files, in their order
          Backends,              \* processes
          AuthLimit, GeneralLimit, Window   \* of the limiter; Window in ticks

ASSUME AppAssumption ==
  /\ Files \in Nat
  /\ {AuthLimit, GeneralLimit, Window} \subseteq Nat \ {0}
  /\ AuthLimit <= GeneralLimit

VARIABLES
  recorded,  \* schema_migrations
  whole,     \* history: files that were applied to their end
  running,   \* (process, file): a file a psql is applying for a process
  adrift,    \* files the server is still at though their psql was killed
  late,      \* history: files in whole that only such a file's rest has completed
  backend,   \* processes: where they are, and the file they have come to
  hits,      \* _hits[ip] of each process: ages of the requests let through
  passed     \* history: requests let through within the window, age and kind

appVars == <<recorded, whole, running, adrift, late, backend, hits, passed>>

Down == [at |-> "down", file |-> 1]

AppInit ==
  /\ recorded = {} /\ whole = {} /\ running = {} /\ adrift = {} /\ late = {}
  /\ backend = [p \in Backends |-> Down]
  /\ hits = [p \in Backends |-> <<>>]
  /\ passed = [p \in Backends |-> <<>>]

-----------------------------------------------------------------------------
(* run_migrations                                                           *)

Boot(p) ==
  /\ backend[p].at = "down"
  /\ backend' = [backend EXCEPT ![p] = [at |-> "claim", file |-> 1]]
  /\ UNCHANGED <<recorded, whole, running, adrift, late, hits, passed>>

Pass(p) == [backend EXCEPT ![p] = [at |-> "claim", file |-> @.file + 1]]

\* Variant: the table is read, and the row inserted later; both claim it.
ClaimUnseen(p) ==
  LET f == backend[p].file IN
  /\ backend[p].at = "claim" /\ f \in 1..Files
  /\ \/ f \in whole /\ backend' = Pass(p) /\ UNCHANGED recorded
     \/ /\ f \notin whole
        /\ recorded' = recorded \union {f}
        /\ backend' = [backend EXCEPT ![p].at = "psql"]
  /\ UNCHANGED <<whole, running, adrift, late, hits, passed>>

\* INSERT ... ON CONFLICT DO NOTHING: a file somebody has recorded is passed
\* over, applied or not.
Claim(p) ==
  LET f == backend[p].file IN
  /\ backend[p].at = "claim" /\ f \in 1..Files
  /\ \/ f \in recorded /\ backend' = Pass(p) /\ UNCHANGED recorded
     \/ /\ f \notin recorded
        /\ recorded' = recorded \union {f}
        /\ backend' = [backend EXCEPT ![p].at = "psql"]
  /\ UNCHANGED <<whole, running, adrift, late, hits, passed>>

Psql(p) ==
  /\ backend[p].at = "psql"
  /\ running' = running \union {<<p, backend[p].file>>}
  /\ backend' = [backend EXCEPT ![p].at = "wait"]
  /\ UNCHANGED <<recorded, whole, adrift, late, hits, passed>>

\* The database comes to the end of the file, also for a process that is gone.
Applied(p, f) ==
  /\ <<p, f>> \in running
  /\ running' = running \ {<<p, f>>}
  /\ whole' = whole \union {f} /\ late' = late \ {f}
  /\ backend' = IF backend[p] = [at |-> "wait", file |-> f] THEN Pass(p) ELSE backend
  /\ UNCHANGED <<recorded, adrift, hits, passed>>

\* A statement fails and psql stops there, with what it has applied so far.
Fails(p, f) ==
  /\ <<p, f>> \in running
  /\ running' = running \ {<<p, f>>}
  /\ backend' = IF backend[p] = [at |-> "wait", file |-> f] THEN [backend EXCEPT ![p].at = "undo"]
                                                          ELSE backend
  /\ UNCHANGED <<recorded, whole, adrift, late, hits, passed>>

\* psql is killed after a minute.  The server goes on with the statement it is at
\* until it notices.
TimesOut(p) ==
  LET f == backend[p].file IN
  /\ backend[p].at = "wait"
  /\ running' = running \ {<<p, f>>} /\ adrift' = adrift \union {f}
  /\ backend' = [backend EXCEPT ![p].at = "undo"]
  /\ UNCHANGED <<recorded, whole, late, hits, passed>>

\* It comes to the end of the statement, which may be the file's last, or fails.
\* More than one may be at the file.
AdriftEnds(f) ==
  /\ f \in adrift
  /\ adrift' \in {adrift, adrift \ {f}}
  /\ \/ whole' = whole \union {f} /\ late' = late \union ({f} \ whole)
     \/ UNCHANGED <<whole, late>>
  /\ UNCHANGED <<recorded, running, backend, hits, passed>>

\* The record is deleted and the process does not start.
Undo(p) ==
  /\ backend[p].at = "undo"
  /\ recorded' = recorded \ {backend[p].file}
  /\ backend' = [backend EXCEPT ![p] = Down]
  /\ UNCHANGED <<whole, running, adrift, late, hits, passed>>

\* The lifespan goes on to the workers and to requests, with no hits.
Serve(p) ==
  /\ backend[p].at = "claim" /\ backend[p].file > Files
  /\ backend' = [backend EXCEPT ![p].at = "serving"]
  /\ hits' = [hits EXCEPT ![p] = <<>>] /\ passed' = [passed EXCEPT ![p] = <<>>]
  /\ UNCHANGED <<recorded, whole, running, adrift, late>>

\* A crash leaves the record of a file that was not applied.
Crash(p) ==
  /\ backend[p].at # "down"
  /\ backend' = [backend EXCEPT ![p] = Down]
  /\ UNCHANGED <<recorded, whole, running, adrift, late, hits, passed>>

-----------------------------------------------------------------------------
(* RateLimitMiddleware                                                      *)

Limit(kind) == IF kind = "auth" THEN AuthLimit ELSE GeneralLimit

\* The clock is monotonic and times are appended: what has left the window is
\* a number k of the oldest, which come first.
OutOfWindow(ages, k) == \A i \in DOMAIN ages : i <= k <=> ages[i] >= Window
Newest(s, k) == SubSeq(s, k + 1, Len(s))

\* dispatch, one step of the event loop.  Requests of either kind are held
\* against one list of times; a refused one leaves no time.
Request(p, kind) ==
  /\ backend[p].at = "serving"
  /\ \E k \in 0..Len(hits[p]) :
       LET stamps == Newest(hits[p], k) IN
       /\ OutOfWindow(hits[p], k)
       /\ IF Len(stamps) >= Limit(kind)
            THEN hits' = [hits EXCEPT ![p] = stamps] /\ UNCHANGED passed
            ELSE /\ hits' = [hits EXCEPT ![p] = Append(stamps, 0)]
                 /\ passed' = [passed EXCEPT ![p] = Append(@, [age |-> 0, kind |-> kind])]
  /\ UNCHANGED <<recorded, whole, running, adrift, late, backend>>

\* Variant: the first time is looked at.
StaleByFirst(ages) == ages # <<>> => ages[1] >= Window

\* _periodic_cleanup forgets an address two windows after its last request.
Stale(ages) == ages # <<>> => Last(ages) > 2 * Window

Cleanup(p) ==
  /\ backend[p].at = "serving" /\ Stale(hits[p])
  /\ hits' = [hits EXCEPT ![p] = <<>>]
  /\ UNCHANGED <<recorded, whole, running, adrift, late, backend, passed>>

Older(n) == IF n > 2 * Window THEN n ELSE n + 1

SecondPasses(p) ==
  /\ backend[p].at = "serving" /\ hits[p] # <<>>
  /\ hits' = [hits EXCEPT ![p] = [i \in DOMAIN @ |-> Older(@[i])]]
  /\ \E k \in 0..Len(passed[p]) :
       LET older == [i \in DOMAIN passed[p] |-> [passed[p][i] EXCEPT !.age = Older(@)]] IN
       /\ OutOfWindow([i \in DOMAIN older |-> older[i].age], k)
       /\ passed' = [passed EXCEPT ![p] = Newest(older, k)]
  /\ UNCHANGED <<recorded, whole, running, adrift, late, backend>>

-----------------------------------------------------------------------------
BackendStep(p) ==
  \/ Boot(p) \/ Claim(p) \/ Psql(p) \/ TimesOut(p) \/ Undo(p) \/ Serve(p) \/ Crash(p)
  \/ \E f \in 1..Files : Applied(p, f) \/ Fails(p, f)
  \/ \E kind \in {"auth", "general"} : Request(p, kind)
  \/ Cleanup(p) \/ SecondPasses(p)

AppNext ==
  \/ \E p \in Backends : BackendStep(p)
  \/ \E f \in adrift : AdriftEnds(f)

AppSpec == AppInit /\ [][AppNext]_appVars

-----------------------------------------------------------------------------
(* Properties                                                               *)

Ages == 0..(2 * Window + 1)

AppTypeOK ==
  /\ recorded \subseteq 1..Files /\ whole \subseteq 1..Files
  /\ running \subseteq Backends \X (1..Files)
  /\ adrift \subseteq 1..Files /\ late \subseteq whole
  /\ backend \in [Backends -> [at : {"down", "claim", "psql", "wait", "undo", "serving"},
                               file : 1..(Files + 1)]]
  /\ \A p \in Backends : /\ hits[p] \in Seq(Ages)
                         /\ passed[p] \in Seq([age : Ages, kind : {"auth", "general"}])

\* However many processes start, crash, time out and start again, no file is
\* applied by two psqls at once, nor anew once it was applied to its end.  The one
\* exception is what the code cannot see: a file whose psql was killed after a
\* minute, whose record is deleted while the server is still at it (adrift), and
\* which the server then completes (late).
MigratedOnce ==
  [][\A r \in running' \ running :
       /\ \A s \in running : s[2] # r[2]
       /\ r[2] \in whole => r[2] \in late]_appVars

\* In no window does a process let more requests of an address through than the
\* general limit, nor a request to log in after as many as the limit for those:
\* forgetting the address in between, as the cleanup does, does not help it.
RateLimited ==
  \A p \in Backends :
    /\ Len(passed[p]) <= GeneralLimit
    /\ \A i \in DOMAIN passed[p] : passed[p][i].kind = "auth" => i <= AuthLimit

=============================================================================
