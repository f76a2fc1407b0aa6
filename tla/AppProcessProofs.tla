-------------------------- MODULE AppProcessProofs --------------------------
(***************************************************************************)
(* Theorems about AppProcess: its types; the migrations, for any number of *)
(* files and of processes that start, crash and start again; and the rate  *)
(* limiter, for any limits and any window.                                 *)
(***************************************************************************)
EXTENDS AppProcess, SequenceTheorems, TLAPS

\* Files applied to their end by a psql that lived.
Done == whole \ late

\* The types of what the migrations use.
MigrationType ==
  /\ recorded \subseteq 1..Files /\ whole \subseteq 1..Files
  /\ adrift \subseteq 1..Files /\ late \subseteq whole
  /\ Done \subseteq recorded
  /\ running \subseteq Backends \X (1..Files)
  /\ backend \in [Backends -> [at : {"down", "claim", "psql", "wait", "undo", "serving"},
                               file : 1..(Files + 1)]]

\* A process has claimed a file and not come to the end with it.
Holds(p, f) == backend[p].at \in {"psql", "wait", "undo"} /\ backend[p].file = f

\* A file is held by one process, is recorded, and is not done.
HeldOnce ==
  \A p \in Backends, f \in 1..(Files + 1) : Holds(p, f) =>
    /\ f \in recorded \ Done
    /\ \A q \in Backends : Holds(q, f) => q = p

\* What the database is applying is recorded, unfinished and applied once; the
\* process that holds the file, if there still is one, waits for that.
RunningOnce ==
  \A r \in running :
    /\ r[2] \in recorded \ Done
    /\ \A s \in running : s[2] = r[2] => s = r
    /\ \A p \in Backends : Holds(p, r[2]) => p = r[1] /\ backend[p].at = "wait"

Migrating == MigrationType /\ HeldOnce /\ RunningOnce

-----------------------------------------------------------------------------
\* The initial state satisfies the invariant.
LEMMA MigratingInit == AppInit => Migrating
  BY AppAssumption DEF AppInit, Migrating, MigrationType, Done, HeldOnce, RunningOnce, Holds, Down

\* How a step may change the place of the process that takes it.
LEMMA Moved ==
  ASSUME MigrationType, NEW p \in Backends, NEW x \in
           [at : {"down", "claim", "psql", "wait", "undo", "serving"}, file : 1..(Files + 1)],
         backend' = [backend EXCEPT ![p] = x]
  PROVE  /\ backend' \in [Backends -> [at : {"down", "claim", "psql", "wait", "undo", "serving"},
                                       file : 1..(Files + 1)]]
         /\ backend'[p] = x
         /\ \A q \in Backends \ {p} : backend'[q] = backend[q]
  BY DEF MigrationType

\* A process that lets go of its file, or had none, disturbs nobody.
LEMMA LetGo ==
  ASSUME Migrating, NEW p \in Backends,
         NEW x \in [at : {"down", "claim", "serving"}, file : 1..(Files + 1)],
         backend' = [backend EXCEPT ![p] = x],
         UNCHANGED <<recorded, whole, running, adrift, late>>
  PROVE  Migrating'
<1> USE DEF Migrating, Done
<1>1. /\ MigrationType'
      /\ backend'[p] = x
      /\ \A q \in Backends \ {p} : backend'[q] = backend[q]
  BY Moved DEF MigrationType
<1>2. \A q \in Backends, f \in 1..(Files + 1) : Holds(q, f)' => q # p /\ Holds(q, f)
  BY <1>1 DEF Holds
<1>3. HeldOnce'
  BY <1>2 DEF HeldOnce
<1>4. \A r \in running : r[2] \in 1..(Files + 1)
  BY AppAssumption DEF MigrationType
<1>5. \A r \in running, q \in Backends : Holds(q, r[2])' =>
        Holds(q, r[2]) /\ backend'[q] = backend[q]
  BY <1>1, <1>2, <1>4
<1>6. RunningOnce'
  BY <1>5 DEF RunningOnce
<1> QED
  BY <1>1, <1>3, <1>6

\* Every step keeps the invariant.
LEMMA MigratingStep == Migrating /\ [AppNext]_appVars => Migrating'
<1> SUFFICES ASSUME Migrating, [AppNext]_appVars PROVE Migrating'
  OBVIOUS
<1> USE AppAssumption DEF Migrating, Done
<1>0. ASSUME UNCHANGED <<recorded, whole, running, adrift, late, backend>> PROVE Migrating'
  BY <1>0 DEF MigrationType, HeldOnce, RunningOnce, Holds
<1>1. ASSUME NEW p \in Backends, Boot(p) \/ Serve(p) \/ Crash(p) PROVE Migrating'
  <2>1. PICK x \in [at : {"down", "claim", "serving"}, file : 1..(Files + 1)] :
          backend' = [backend EXCEPT ![p] = x] /\ UNCHANGED <<recorded, whole, running, adrift, late>>
    <3>1. CASE Boot(p)
      <4>1. [at |-> "claim", file |-> 1] \in [at : {"down", "claim", "serving"}, file : 1..(Files + 1)]
        OBVIOUS
      <4> QED
        BY <3>1, <4>1 DEF Boot
    <3>2. CASE Serve(p)
      <4>1. [backend[p] EXCEPT !.at = "serving"]
              \in [at : {"down", "claim", "serving"}, file : 1..(Files + 1)]
        BY DEF MigrationType
      <4>2. backend' = [backend EXCEPT ![p] = [backend[p] EXCEPT !.at = "serving"]]
        BY <3>2 DEF Serve
      <4> QED
        BY <3>2, <4>1, <4>2 DEF Serve
    <3>3. CASE Crash(p)
      <4>1. Down \in [at : {"down", "claim", "serving"}, file : 1..(Files + 1)]
        BY DEF Down
      <4> QED
        BY <3>3, <4>1 DEF Crash
    <3> QED
      BY <1>1, <3>1, <3>2, <3>3
  <2> QED
    BY <2>1, LetGo
<1>2. ASSUME NEW p \in Backends, Claim(p) PROVE Migrating'
  <2> DEFINE f == backend[p].file
  <2>1. CASE f \in recorded
    <3>1. [at |-> "claim", file |-> f + 1]
            \in [at : {"down", "claim", "serving"}, file : 1..(Files + 1)]
      BY <1>2 DEF Claim
    <3>2. /\ backend' = [backend EXCEPT ![p] = [at |-> "claim", file |-> f + 1]]
          /\ UNCHANGED <<recorded, whole, running, adrift, late>>
      BY <1>2, <2>1 DEF Claim, Pass
    <3> QED
      BY <3>1, <3>2, LetGo
  <2>2. CASE f \notin recorded
    <3>1. f \in 1..Files /\ recorded' = recorded \union {f} /\ UNCHANGED <<whole, running, adrift, late>>
      BY <1>2, <2>2 DEF Claim
    <3>2. backend' = [backend EXCEPT ![p] = [backend[p] EXCEPT !.at = "psql"]]
      BY <1>2, <2>2 DEF Claim
    <3>3. /\ MigrationType' /\ backend'[p] = [backend[p] EXCEPT !.at = "psql"]
          /\ \A q \in Backends \ {p} : backend'[q] = backend[q]
      BY <3>1, <3>2, Moved DEF MigrationType
    <3>4. backend'[p].at = "psql" /\ backend'[p].file = f
      BY <3>3 DEF MigrationType
    <3>5. \A q \in Backends : ~Holds(q, f)
      BY <2>2, <3>1 DEF HeldOnce
    <3>6. HeldOnce'
      BY <3>1, <3>3, <3>4, <3>5, <2>2 DEF HeldOnce, Holds, MigrationType
    <3>7. \A r \in running, q \in Backends : Holds(q, r[2])' =>
            Holds(q, r[2]) /\ backend'[q] = backend[q]
      <4>1. \A r \in running : r[2] # f
        BY <2>2 DEF RunningOnce
      <4> QED
        BY <3>3, <3>4, <4>1 DEF Holds
    <3>8. RunningOnce'
      BY <3>1, <3>7 DEF RunningOnce
    <3> QED
      BY <3>3, <3>6, <3>8
  <2> QED
    BY <2>1, <2>2
<1>3. ASSUME NEW p \in Backends, Psql(p) PROVE Migrating'
  <2> DEFINE f == backend[p].file
  <2>1. /\ backend' = [backend EXCEPT ![p] = [backend[p] EXCEPT !.at = "wait"]]
        /\ running' = running \union {<<p, f>>} /\ UNCHANGED <<recorded, whole, adrift, late>>
    BY <1>3 DEF Psql
  <2>2. Holds(p, f) /\ f \in 1..(Files + 1) /\ backend[p].at = "psql"
    BY <1>3 DEF Psql, Holds, MigrationType
  <2>3. f \in recorded \ Done /\ f \in 1..Files
    BY <2>2 DEF HeldOnce, MigrationType
  <2>4. /\ MigrationType' /\ backend'[p] = [backend[p] EXCEPT !.at = "wait"]
        /\ \A q \in Backends \ {p} : backend'[q] = backend[q]
    BY <2>1, <2>3, Moved DEF MigrationType
  <2>5. backend'[p].at = "wait" /\ backend'[p].file = f
    BY <2>4 DEF MigrationType
  <2>6. \A q \in Backends, g \in 1..(Files + 1) : Holds(q, g)' <=> Holds(q, g)
    BY <2>2, <2>4, <2>5 DEF Holds
  <2>7. HeldOnce'
    BY <2>1, <2>6 DEF HeldOnce
  <2>8. \A r \in running : r[2] # f
    BY <2>2 DEF RunningOnce
  <2>9. RunningOnce'
    <3>1. ASSUME NEW r \in running', NEW s \in running', s[2] = r[2] PROVE s = r
      BY <2>1, <2>8, <3>1 DEF RunningOnce
    <3>2. ASSUME NEW r \in running', NEW q \in Backends, Holds(q, r[2])'
          PROVE  q = r[1] /\ backend'[q].at = "wait"
      <4>1. CASE r = <<p, f>>
        BY <2>2, <2>5, <2>6, <3>2, <4>1 DEF HeldOnce
      <4>2. CASE r \in running
        <5>1. r[2] \in 1..(Files + 1)
          BY <4>2 DEF MigrationType
        <5>2. q = r[1] /\ backend[q].at = "wait"
          BY <2>6, <3>2, <4>2, <5>1 DEF RunningOnce
        <5> QED
          BY <2>2, <2>4, <5>2
      <4> QED
        BY <2>1, <4>1, <4>2
    <3>3. \A r \in running' : r[2] \in (recorded \ Done)'
      BY <2>1, <2>3 DEF RunningOnce
    <3> QED
      BY <3>1, <3>2, <3>3 DEF RunningOnce
  <2> QED
    BY <2>4, <2>7, <2>9
<1>4. ASSUME NEW p \in Backends, NEW f \in 1..Files, Applied(p, f) PROVE Migrating'
  <2>1. <<p, f>> \in running /\ running' = running \ {<<p, f>>}
        /\ whole' = whole \union {f} /\ late' = late \ {f}
        /\ recorded' = recorded /\ adrift' = adrift
    BY <1>4 DEF Applied
  <2>2. f \in recorded \ Done
    BY <2>1 DEF RunningOnce
  <2>3. /\ backend' \in [Backends -> [at : {"down", "claim", "psql", "wait", "undo", "serving"},
                                      file : 1..(Files + 1)]]
        /\ \A q \in Backends \ {p} : backend'[q] = backend[q]
        /\ backend[p] # [at |-> "wait", file |-> f] => backend'[p] = backend[p]
        /\ backend[p] = [at |-> "wait", file |-> f] => backend'[p].at = "claim"
    BY <1>4 DEF Applied, Pass, MigrationType
  <2>4. \A q \in Backends : Holds(q, f) => q = p /\ backend[p] = [at |-> "wait", file |-> f]
    BY <2>1 DEF RunningOnce, Holds, MigrationType
  <2>5. \A q \in Backends, g \in 1..(Files + 1) :
          Holds(q, g)' => Holds(q, g) /\ g # f /\ backend'[q] = backend[q]
    BY <2>3, <2>4 DEF Holds
  <2>6. MigrationType'
    BY <2>1, <2>2, <2>3 DEF MigrationType
  <2>7. HeldOnce'
    BY <2>1, <2>5 DEF HeldOnce
  <2>8. \A r \in running' : r \in running /\ r[2] # f /\ r[2] \in 1..(Files + 1)
    BY <2>1 DEF RunningOnce, MigrationType
  <2>9. RunningOnce'
    BY <2>1, <2>5, <2>8 DEF RunningOnce
  <2> QED
    BY <2>6, <2>7, <2>9
<1>5. ASSUME NEW p \in Backends, NEW f \in 1..Files,
             \/ Fails(p, f)
             \/ TimesOut(p) /\ f = backend[p].file
      PROVE  Migrating'
  <2>1. /\ UNCHANGED <<recorded, whole, late>> /\ running' = running \ {<<p, f>>}
        /\ adrift' = adrift \/ adrift' = adrift \union {f}
    BY <1>5 DEF Fails, TimesOut
  <2>2. /\ backend' \in [Backends -> [at : {"down", "claim", "psql", "wait", "undo", "serving"},
                                      file : 1..(Files + 1)]]
        /\ \A q \in Backends \ {p} : backend'[q] = backend[q]
        /\ \A g \in 1..(Files + 1) : Holds(p, g)' <=> Holds(p, g)
        /\ backend'[p] # backend[p] => Holds(p, f)
    BY <1>5 DEF Fails, TimesOut, Holds, MigrationType
  <2>3. \A q \in Backends, g \in 1..(Files + 1) : Holds(q, g)' <=> Holds(q, g)
    BY <2>2 DEF Holds
  <2>4. MigrationType'
    BY <2>1, <2>2 DEF MigrationType
  <2>5. HeldOnce'
    BY <2>1, <2>3 DEF HeldOnce
  <2>6. RunningOnce'
    <3>1. ASSUME NEW r \in running', NEW q \in Backends, Holds(q, r[2])'
          PROVE  q = r[1] /\ backend'[q].at = "wait"
      <4>1. r \in running /\ r # <<p, f>> /\ r[2] \in 1..(Files + 1) /\ r = <<r[1], r[2]>>
        BY <2>1 DEF MigrationType
      <4>2. q = r[1] /\ backend[q].at = "wait" /\ Holds(q, r[2])
        BY <2>3, <3>1, <4>1 DEF RunningOnce
      <4>3. backend'[q] = backend[q]
        <5>1. CASE q = p /\ Holds(p, f)
          BY <4>1, <4>2, <5>1 DEF Holds
        <5> QED
          BY <2>2, <5>1
      <4> QED
        BY <4>2, <4>3
    <3> QED
      BY <2>1, <3>1 DEF RunningOnce
  <2> QED
    BY <2>4, <2>5, <2>6
<1>6. ASSUME NEW p \in Backends, TimesOut(p) PROVE Migrating'
  <2>1. Holds(p, backend[p].file)
    BY <1>6 DEF TimesOut, Holds
  <2>2. backend[p].file \in 1..Files
    BY <2>1 DEF HeldOnce, MigrationType
  <2> QED
    BY <1>5, <1>6, <2>2
<1>7. ASSUME NEW p \in Backends, Undo(p) PROVE Migrating'
  <2> DEFINE f == backend[p].file
  <2>1. /\ recorded' = recorded \ {f} /\ UNCHANGED <<whole, running, adrift, late>>
        /\ backend' = [backend EXCEPT ![p] = Down]
    BY <1>7 DEF Undo
  <2>2. Holds(p, f) /\ backend[p].at = "undo" /\ f \in 1..(Files + 1)
    BY <1>7 DEF Undo, Holds, MigrationType
  <2>3. f \notin Done /\ \A r \in running : r[2] # f
    BY <2>2 DEF HeldOnce, RunningOnce
  <2>4. Down \in [at : {"down", "claim", "psql", "wait", "undo", "serving"}, file : 1..(Files + 1)]
    BY DEF Down
  <2>5. /\ MigrationType' /\ backend'[p] = Down
        /\ \A q \in Backends \ {p} : backend'[q] = backend[q]
    BY <2>1, <2>3, <2>4, Moved DEF MigrationType
  <2>6. \A q \in Backends, g \in 1..(Files + 1) :
          Holds(q, g)' => q # p /\ Holds(q, g) /\ g # f
    BY <2>2, <2>5 DEF Holds, HeldOnce, Down
  <2>7. HeldOnce'
    BY <2>1, <2>6 DEF HeldOnce
  <2>8. RunningOnce'
    BY <2>1, <2>3, <2>5, <2>6 DEF RunningOnce, MigrationType
  <2> QED
    BY <2>5, <2>7, <2>8
<1>8. ASSUME NEW p \in Backends, Cleanup(p) \/ SecondPasses(p)
             \/ \E kind \in {"auth", "general"} : Request(p, kind)
      PROVE  Migrating'
  BY <1>0, <1>8 DEF Cleanup, SecondPasses, Request
<1>8a. ASSUME NEW f \in adrift, AdriftEnds(f) PROVE Migrating'
  <2>1. /\ UNCHANGED <<recorded, running, backend>> /\ adrift' \subseteq adrift
        /\ whole' \subseteq whole \union {f} /\ late' \subseteq whole'
        /\ Done' = Done
    BY <1>8a DEF AdriftEnds, MigrationType
  <2>2. MigrationType'
    BY <2>1 DEF MigrationType
  <2> QED
    BY ONLY <2>1, <2>2, Migrating DEF Migrating, HeldOnce, RunningOnce, Holds
<1>9. CASE UNCHANGED appVars
  BY <1>0, <1>9 DEF appVars
<1> QED
  BY <1>1, <1>2, <1>3, <1>4, <1>5, <1>6, <1>7, <1>8, <1>8a, <1>9 DEF AppNext, BackendStep

-----------------------------------------------------------------------------
\* The invariant holds in every behaviour.
THEOREM MigratingHolds == AppSpec => []Migrating
<1>1. Migrating /\ [AppNext]_appVars => Migrating'
  BY MigratingStep
<1> QED
  BY <1>1, MigratingInit, PTL DEF AppSpec

\* However many processes start, crash, time out and start again, no file is
\* applied by two psqls at once, nor anew once a psql that lived applied it to its
\* end, whatever the server makes of the statements of psqls that were killed.
THEOREM AppliedOnce == AppSpec => MigratedOnce
<1> DEFINE Once ==
      \A r \in running' \ running :
        /\ \A s \in running : s[2] # r[2]
        /\ r[2] \in whole => r[2] \in late
<1>1. Migrating /\ [AppNext]_appVars => [Once]_appVars
  <2> SUFFICES ASSUME Migrating, AppNext, NEW r \in running' \ running
               PROVE  /\ \A s \in running : s[2] # r[2]
                      /\ r[2] \in whole => r[2] \in late
    OBVIOUS
  <2>1. PICK p \in Backends : BackendStep(p)
    BY DEF AppNext, AdriftEnds
  <2>2. Psql(p)
    BY <2>1 DEF BackendStep, Boot, Claim, TimesOut, Undo, Serve, Crash, Applied, Fails,
       Request, Cleanup, SecondPasses
  <2>3. r[2] = backend[p].file /\ Holds(p, r[2]) /\ backend[p].at = "psql"
    BY <2>2 DEF Psql, Holds
  <2>4. r[2] \in 1..(Files + 1)
    BY <2>3 DEF Migrating, MigrationType
  <2> QED
    BY <2>3, <2>4 DEF Migrating, HeldOnce, RunningOnce, Done
<1> QED
  BY <1>1, MigratingHolds, PTL DEF AppSpec, MigratedOnce

-----------------------------------------------------------------------------
(* The rate limiter: what the process remembers and what really happened.  *)

Kept == [age : Ages, kind : {"auth", "general"}]

\* The requests let through within the window, q, are the newest of the times h
\* that are kept; the others are out of it.
InStep(h, q) ==
  /\ Len(q) <= Len(h)
  /\ \A i \in 1..Len(q) : q[i].age < Window /\ h[Len(h) - Len(q) + i] = q[i].age
  /\ \A j \in 1..(Len(h) - Len(q)) : h[j] >= Window

WithinLimits(q) ==
  /\ Len(q) <= GeneralLimit
  /\ \A i \in 1..Len(q) : q[i].kind = "auth" => i <= AuthLimit

LimiterTyped == hits \in [Backends -> Seq(Ages)] /\ passed \in [Backends -> Seq(Kept)]

Limiting ==
  /\ LimiterTyped
  /\ \A p \in Backends : InStep(hits[p], passed[p]) /\ WithinLimits(passed[p])

LEMMA NewestOf ==
  ASSUME NEW S, NEW s \in Seq(S), NEW k \in 0..Len(s)
  PROVE  /\ Newest(s, k) \in Seq(S)
         /\ Len(Newest(s, k)) = Len(s) - k
         /\ \A i \in 1..(Len(s) - k) : Newest(s, k)[i] = s[k + i]
<1>1. \A i \in (k + 1)..Len(s) : s[i] \in S
  OBVIOUS
<1> QED
  BY <1>1, SubSeqProperties DEF Newest

\* What is dropped from the list is what is not in the window.
LEMMA DropsTheOld ==
  ASSUME NEW h \in Seq(Ages), NEW q \in Seq(Kept), InStep(h, q),
         NEW k \in 0..Len(h), OutOfWindow(h, k)
  PROVE  Len(Newest(h, k)) = Len(q) /\ InStep(Newest(h, k), q)
<1> DEFINE n == Len(h) - Len(q)
<1>0. /\ n \in Nat /\ n + Len(q) = Len(h) /\ Len(q) \in Nat /\ Len(h) \in Nat /\ k \in Nat
      /\ DOMAIN h = 1..Len(h) /\ \A i \in 1..Len(h) : h[i] \in Nat
  BY AppAssumption DEF InStep, Ages
<1>a. /\ Len(Newest(h, k)) = Len(h) - k
      /\ \A i \in 1..(Len(h) - k) : Newest(h, k)[i] = h[k + i]
  BY NewestOf
<1>b. /\ \A i \in 1..Len(q) : q[i].age < Window /\ h[n + i] = q[i].age
      /\ \A j \in 1..n : h[j] >= Window
  BY DEF InStep
<1> HIDE DEF n
<1>1. ~(k > n)
  <2> SUFFICES ASSUME k > n PROVE FALSE
    OBVIOUS
  <2>1. k - n \in 1..Len(q) /\ k \in 1..Len(h)
    BY <1>0
  <2>2. h[n + (k - n)] < Window
    BY <1>b, <2>1
  <2>3. h[k] >= Window
    BY <1>0, <2>1 DEF OutOfWindow
  <2> QED
    BY <1>0, <2>1, <2>2, <2>3, AppAssumption
<1>2. ~(k < n)
  <2> SUFFICES ASSUME k < n PROVE FALSE
    OBVIOUS
  <2>1. k + 1 \in 1..n /\ k + 1 \in 1..Len(h)
    BY <1>0
  <2>2. h[k + 1] >= Window /\ k + 1 \in DOMAIN h
    BY <1>0, <1>b, <2>1
  <2>3. k + 1 <= k
    BY <2>2 DEF OutOfWindow
  <2> QED
    BY <1>0, <2>3
<1>3. k = n
  BY <1>0, <1>1, <1>2
<1>4. Len(Newest(h, k)) = Len(q) /\ \A i \in 1..Len(q) : Newest(h, k)[i] = h[k + i]
  BY <1>0, <1>3, <1>a
<1> QED
  BY <1>0, <1>3, <1>4, <1>b DEF InStep, n

\* One more request that is let through.
LEMMA LetThrough ==
  ASSUME NEW h \in Seq(Ages), NEW q \in Seq(Kept), InStep(h, q), WithinLimits(q),
         Len(h) = Len(q), NEW kind \in {"auth", "general"}, ~(Len(h) >= Limit(kind))
  PROVE  /\ Append(q, [age |-> 0, kind |-> kind]) \in Seq(Kept)
         /\ Append(h, 0) \in Seq(Ages)
         /\ InStep(Append(h, 0), Append(q, [age |-> 0, kind |-> kind]))
         /\ WithinLimits(Append(q, [age |-> 0, kind |-> kind]))
<1> DEFINE r == [age |-> 0, kind |-> kind]
<1>1. r \in Kept /\ 0 \in Ages /\ r.age = 0 /\ r.kind = kind /\ 0 < Window
  BY AppAssumption DEF Kept, Ages
<1> HIDE DEF r
<1>2. /\ Append(q, r) \in Seq(Kept) /\ Len(Append(q, r)) = Len(q) + 1
      /\ Append(q, r)[Len(q) + 1] = r
      /\ \A i \in 1..Len(q) : Append(q, r)[i] = q[i]
  BY <1>1
<1>3. /\ Append(h, 0) \in Seq(Ages) /\ Len(Append(h, 0)) = Len(h) + 1
      /\ Append(h, 0)[Len(h) + 1] = 0
      /\ \A i \in 1..Len(h) : Append(h, 0)[i] = h[i]
  BY <1>1
<1>4. \A i \in 1..(Len(q) + 1) : i \in 1..Len(q) \/ i = Len(q) + 1
  OBVIOUS
<1>5. InStep(Append(h, 0), Append(q, r))
  <2>1. \A i \in 1..Len(q) : q[i].age < Window /\ h[i] = q[i].age
    BY DEF InStep
  <2> QED
    BY <1>1, <1>2, <1>3, <1>4, <2>1 DEF InStep
<1>6. WithinLimits(Append(q, r))
  <2>1. Len(q) + 1 <= GeneralLimit /\ (kind = "auth" => Len(q) + 1 <= AuthLimit)
    BY AppAssumption DEF Limit
  <2> QED
    BY <1>1, <1>2, <1>4, <2>1 DEF WithinLimits
<1> QED
  BY <1>2, <1>3, <1>5, <1>6 DEF r

LEMMA OlderAge ==
  ASSUME NEW a \in Ages
  PROVE  Older(a) \in Ages /\ (a >= Window => Older(a) >= Window)
  BY AppAssumption DEF Older, Ages

\* Time passes: what leaves the window are the oldest of what was let through.
LEMMA GrowsOlder ==
  ASSUME NEW h \in Seq(Ages), NEW q \in Seq(Kept), InStep(h, q), WithinLimits(q),
         NEW g, g = [i \in DOMAIN h |-> Older(h[i])],
         NEW o, o = [i \in DOMAIN q |-> [q[i] EXCEPT !.age = Older(q[i].age)]],
         NEW k \in 0..Len(q), OutOfWindow([i \in DOMAIN o |-> o[i].age], k)
  PROVE  /\ g \in Seq(Ages) /\ Newest(o, k) \in Seq(Kept)
         /\ InStep(g, Newest(o, k)) /\ WithinLimits(Newest(o, k))
<1> DEFINE n == Len(h) - Len(q)
<1>1. /\ n \in Nat /\ DOMAIN h = 1..Len(h) /\ DOMAIN q = 1..Len(q)
      /\ Len(h) \in Nat /\ Len(q) \in Nat
  BY DEF InStep
<1>2. /\ \A i \in 1..Len(h) : h[i] \in Ages /\ Older(h[i]) \in Ages
      /\ \A i \in 1..Len(q) : q[i] \in Kept /\ q[i].age \in Ages /\ Older(q[i].age) \in Ages
  <2>1. \A i \in 1..Len(h) : h[i] \in Ages
    BY <1>1
  <2>2. \A i \in 1..Len(q) : q[i] \in Kept
    BY <1>1
  <2>3. \A i \in 1..Len(q) : q[i].age \in Ages
    BY <2>2 DEF Kept
  <2> QED
    BY <2>1, <2>2, <2>3, OlderAge
<1>3. g \in Seq(Ages) /\ Len(g) = Len(h) /\ \A i \in 1..Len(h) : g[i] = Older(h[i])
  BY <1>1, <1>2
<1>4. /\ o \in Seq(Kept) /\ Len(o) = Len(q)
      /\ \A i \in 1..Len(q) : o[i].age = Older(q[i].age) /\ o[i].kind = q[i].kind
  <2>1. \A i \in 1..Len(q) : [q[i] EXCEPT !.age = Older(q[i].age)] \in Kept
    BY <1>2 DEF Kept
  <2>2. o \in Seq(Kept) /\ Len(o) = Len(q)
    BY <1>1, <2>1
  <2>3. \A i \in 1..Len(q) : o[i].age = Older(q[i].age) /\ o[i].kind = q[i].kind
    BY <1>1, <1>2 DEF Kept
  <2> QED
    BY <2>2, <2>3
<1>5. \A i \in 1..Len(q) : i <= k <=> o[i].age >= Window
  BY <1>1, <1>4 DEF OutOfWindow
<1> DEFINE m == Newest(o, k)
<1>6. /\ m \in Seq(Kept) /\ Len(m) = Len(q) - k
      /\ \A i \in 1..(Len(q) - k) : m[i] = o[k + i]
  <2>0. o \in Seq(Kept) /\ k \in 0..Len(o)
    BY <1>4
  <2>1. /\ m \in Seq(Kept) /\ Len(m) = Len(o) - k
        /\ \A i \in 1..(Len(o) - k) : m[i] = o[k + i]
    BY ONLY <2>0, NewestOf
  <2> QED
    BY <1>4, <2>1
<1> HIDE DEF m
<1>a. /\ n + Len(q) = Len(h) /\ k \in Nat /\ k <= Len(q)
      /\ \A i \in 1..Len(q) : h[n + i] = q[i].age
      /\ \A j \in 1..n : h[j] >= Window
  BY <1>1 DEF InStep
<1> HIDE DEF n
<1>7. \A i \in 1..(Len(q) - k) : /\ k + i \in 1..Len(q)
                                /\ m[i].age = Older(q[k + i].age) /\ m[i].kind = q[k + i].kind
                                /\ ~(m[i].age >= Window)
  <2> SUFFICES ASSUME NEW i \in 1..(Len(q) - k)
               PROVE  /\ k + i \in 1..Len(q)
                      /\ m[i].age = Older(q[k + i].age) /\ m[i].kind = q[k + i].kind
                      /\ ~(m[i].age >= Window)
    OBVIOUS
  <2>1. k + i \in 1..Len(q) /\ ~(k + i <= k)
    BY <1>1, <1>a
  <2>2. m[i] = o[k + i]
    BY <1>6
  <2> QED
    BY <1>4, <1>5, <2>1, <2>2
<1>8. \A i \in 1..(Len(q) - k) : m[i].age < Window /\ g[n + k + i] = m[i].age
  <2> SUFFICES ASSUME NEW i \in 1..(Len(q) - k)
               PROVE  m[i].age < Window /\ g[n + k + i] = m[i].age
    OBVIOUS
  <2>1. m[i].age < Window
    <3>1. i \in 1..Len(m)
      BY <1>6
    <3>2. m[i] \in Kept
      BY <1>6, <3>1
    <3>3. m[i].age \in Nat /\ Window \in Nat
      BY <3>2, AppAssumption DEF Kept, Ages
    <3> QED
      BY <1>7, <3>3
  <2>2. h[n + (k + i)] = q[k + i].age
    BY <1>7, <1>a
  <2>3. n + k + i \in 1..Len(h) /\ n + k + i = n + (k + i)
    BY <1>1, <1>7, <1>a
  <2> QED
    BY <1>1, <1>3, <1>7, <2>1, <2>2, <2>3
<1>9. \A j \in 1..(n + k) : g[j] >= Window
  <2> SUFFICES ASSUME NEW j \in 1..(n + k) PROVE g[j] >= Window
    OBVIOUS
  <2>1. j \in 1..Len(h)
    BY <1>1, <1>a
  <2>2. CASE j <= n
    BY <1>1, <1>2, <1>3, <1>a, <2>1, <2>2, OlderAge
  <2>3. CASE j > n
    <3>1. j - n \in 1..Len(q) /\ j - n <= k /\ n + (j - n) = j
      BY <1>1, <1>a, <2>3
    <3>2. h[j] = q[j - n].age
      BY <1>a, <3>1
    <3>3. g[j] = o[j - n].age
      BY <1>3, <1>4, <2>1, <3>1, <3>2
    <3> QED
      BY <1>5, <3>1, <3>3
  <2> QED
    BY <1>1, <2>2, <2>3
<1>10. InStep(g, m)
  <2>1. Len(g) - Len(m) = n + k /\ Len(m) <= Len(g)
    BY <1>1, <1>3, <1>6, <1>a
  <2> QED
    BY <1>1, <1>3, <1>6, <1>8, <1>9, <2>1 DEF InStep
<1>11. WithinLimits(m)
  <2>1. Len(q) <= GeneralLimit /\ \A i \in 1..Len(q) : q[i].kind = "auth" => i <= AuthLimit
    BY DEF WithinLimits
  <2>2. GeneralLimit \in Nat /\ AuthLimit \in Nat
    BY AppAssumption
  <2>3. Len(m) <= GeneralLimit
    BY <1>1, <1>6, <1>a, <2>1, <2>2
  <2>4. ASSUME NEW i \in 1..Len(m), m[i].kind = "auth" PROVE i <= AuthLimit
    <3>1. k + i \in 1..Len(q) /\ q[k + i].kind = "auth"
      BY <1>6, <1>7, <2>4
    <3>2. k + i <= AuthLimit
      BY <2>1, <3>1
    <3> QED
      BY <1>1, <1>6, <1>a, <2>2, <3>2
  <2> QED
    BY <2>3, <2>4 DEF WithinLimits
<1> QED
  BY <1>3, <1>6, <1>10, <1>11 DEF m

\* An address is forgotten only when nothing of it is in the window.
LEMMA StaleIsOut ==
  ASSUME NEW h \in Seq(Ages), NEW q \in Seq(Kept), InStep(h, q), Stale(h)
  PROVE  Len(q) = 0
<1> SUFFICES ASSUME Len(q) # 0 PROVE FALSE
  OBVIOUS
<1>1. Len(q) \in 1..Len(q) /\ Len(h) - Len(q) + Len(q) = Len(h) /\ h # <<>>
  BY DEF InStep
<1>2. h[Len(h)] < Window
  BY <1>1 DEF InStep
<1>3. h[Len(h)] > 2 * Window
  BY <1>1 DEF Stale, Last
<1>4. h[Len(h)] \in Nat
  BY <1>1, AppAssumption DEF Ages
<1> QED
  BY <1>2, <1>3, <1>4, AppAssumption

-----------------------------------------------------------------------------
\* Every step keeps the two in step and the limits kept.
LEMMA LimitingInit == AppInit => Limiting
<1>1. InStep(<<>>, <<>>) /\ WithinLimits(<<>>) /\ <<>> \in Seq(Ages) /\ <<>> \in Seq(Kept)
  BY AppAssumption DEF InStep, WithinLimits
<1> QED
  BY <1>1 DEF AppInit, Limiting, LimiterTyped

LEMMA LimitingOne ==
  ASSUME Limiting, NEW p \in Backends, NEW g \in Seq(Ages), NEW m \in Seq(Kept),
         InStep(g, m), WithinLimits(m),
         hits' = [hits EXCEPT ![p] = g], passed' = [passed EXCEPT ![p] = m]
  PROVE  Limiting'
  BY DEF Limiting, LimiterTyped

LEMMA LimitingStep == Limiting /\ [AppNext]_appVars => Limiting'
<1> SUFFICES ASSUME Limiting, [AppNext]_appVars PROVE Limiting'
  OBVIOUS
<1>0. ASSUME NEW p \in Backends
      PROVE  /\ hits[p] \in Seq(Ages) /\ passed[p] \in Seq(Kept)
             /\ InStep(hits[p], passed[p]) /\ WithinLimits(passed[p])
             /\ hits \in [Backends -> Seq(Ages)] /\ passed \in [Backends -> Seq(Kept)]
  BY DEF Limiting, LimiterTyped
<1>1. ASSUME NEW p \in Backends, NEW kind \in {"auth", "general"}, Request(p, kind)
      PROVE  Limiting'
  <2>1. PICK k \in 0..Len(hits[p]) :
          LET stamps == Newest(hits[p], k) IN
          /\ OutOfWindow(hits[p], k)
          /\ IF Len(stamps) >= Limit(kind)
               THEN hits' = [hits EXCEPT ![p] = stamps] /\ UNCHANGED passed
               ELSE /\ hits' = [hits EXCEPT ![p] = Append(stamps, 0)]
                    /\ passed' = [passed EXCEPT ![p] =
                                   Append(passed[p], [age |-> 0, kind |-> kind])]
    BY <1>1 DEF Request
  <2> DEFINE t == Newest(hits[p], k)
  <2>2. Len(t) = Len(passed[p]) /\ InStep(t, passed[p])
    BY <1>0, <2>1, DropsTheOld
  <2>3. t \in Seq(Ages)
    <3>1. hits[p] \in Seq(Ages)
      BY <1>0
    <3> QED
      BY <3>1, NewestOf
  <2> HIDE DEF t
  <2>4. CASE Len(t) >= Limit(kind)
    <3>1. hits' = [hits EXCEPT ![p] = t] /\ passed' = [passed EXCEPT ![p] = passed[p]]
      BY <1>0, <2>1, <2>4 DEF t
    <3> QED
      BY <1>0, <2>2, <2>3, <3>1, LimitingOne
  <2>5. CASE ~(Len(t) >= Limit(kind))
    <3>1. /\ hits' = [hits EXCEPT ![p] = Append(t, 0)]
          /\ passed' = [passed EXCEPT ![p] = Append(passed[p], [age |-> 0, kind |-> kind])]
      BY <2>1, <2>5 DEF t
    <3> QED
      BY <1>0, <2>2, <2>3, <2>5, <3>1, LetThrough, LimitingOne
  <2> QED
    BY <2>4, <2>5
<1>2. ASSUME NEW p \in Backends, SecondPasses(p) PROVE Limiting'
  <2> DEFINE h == hits[p]
             q == passed[p]
             g == [i \in DOMAIN h |-> Older(h[i])]
             o == [i \in DOMAIN q |-> [q[i] EXCEPT !.age = Older(q[i].age)]]
  <2>1. hits' = [hits EXCEPT ![p] = g]
    BY <1>2 DEF SecondPasses
  <2>2. PICK k \in 0..Len(q) :
          OutOfWindow([i \in DOMAIN o |-> o[i].age], k) /\ passed' = [passed EXCEPT ![p] = Newest(o, k)]
    BY <1>2 DEF SecondPasses
  <2>3. /\ g \in Seq(Ages) /\ Newest(o, k) \in Seq(Kept)
        /\ InStep(g, Newest(o, k)) /\ WithinLimits(Newest(o, k))
    BY <1>0, <2>2, GrowsOlder
  <2> HIDE DEF h, q, g, o
  <2> QED
    BY <2>1, <2>2, <2>3, LimitingOne
<1>3. ASSUME NEW p \in Backends, Cleanup(p) PROVE Limiting'
  <2>1. Len(passed[p]) = 0 /\ hits' = [hits EXCEPT ![p] = <<>>]
    BY <1>0, <1>3, StaleIsOut DEF Cleanup
  <2>2. passed' = [passed EXCEPT ![p] = passed[p]]
    BY <1>0, <1>3 DEF Cleanup
  <2>3. <<>> \in Seq(Ages) /\ InStep(<<>>, passed[p])
    BY <2>1 DEF InStep
  <2> QED
    BY <1>0, <2>1, <2>2, <2>3, LimitingOne
<1>4. ASSUME NEW p \in Backends, Serve(p) PROVE Limiting'
  <2>1. InStep(<<>>, <<>>) /\ WithinLimits(<<>>) /\ <<>> \in Seq(Ages) /\ <<>> \in Seq(Kept)
    BY AppAssumption DEF InStep, WithinLimits
  <2>2. hits' = [hits EXCEPT ![p] = <<>>] /\ passed' = [passed EXCEPT ![p] = <<>>]
    BY <1>4 DEF Serve
  <2> QED
    BY <2>1, <2>2, LimitingOne
<1>5. CASE UNCHANGED <<hits, passed>>
  BY <1>5 DEF Limiting, LimiterTyped
<1> QED
  BY <1>1, <1>2, <1>3, <1>4, <1>5
     DEF AppNext, BackendStep, AdriftEnds, appVars, Boot, Claim, Psql, TimesOut, Undo, Crash,
         Applied, Fails

-----------------------------------------------------------------------------
LEMMA LimitingHolds == AppSpec => []Limiting
  BY LimitingInit, LimitingStep, PTL DEF AppSpec

\* The state always has its types.
THEOREM AppTypeCorrect == AppSpec => []AppTypeOK
<1>1. Migrating /\ Limiting => AppTypeOK
  BY DEF Migrating, MigrationType, Limiting, LimiterTyped, AppTypeOK, Kept
<1> QED
  BY <1>1, MigratingHolds, LimitingHolds, PTL DEF AppSpec

\* No process lets more requests of an address through in a window than its
\* limits allow, for any limits and window, cleanups and restarts included.
THEOREM LimitsKept == AppSpec => []RateLimited
<1>1. Limiting => RateLimited
  <2> SUFFICES ASSUME Limiting, NEW p \in Backends
               PROVE  /\ Len(passed[p]) <= GeneralLimit
                      /\ \A i \in DOMAIN passed[p] : passed[p][i].kind = "auth" => i <= AuthLimit
    BY DEF RateLimited
  <2>1. DOMAIN passed[p] = 1..Len(passed[p]) /\ WithinLimits(passed[p])
    BY DEF Limiting, LimiterTyped
  <2> QED
    BY <2>1 DEF WithinLimits
<1> QED
  BY <1>1, LimitingHolds, PTL

=============================================================================
