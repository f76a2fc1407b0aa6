--------------------------- MODULE ScoringProofs ---------------------------
(***************************************************************************)
(* Theorems about Scoring and Research: sending slots keep to the window,  *)
(* bad news never raises a score, and no company is called that was not    *)
(* hiring; for any windows, postings, leads, mailboxes and researchers.    *)
(***************************************************************************)
EXTENDS Research, FiniteSetTheorems, WellFoundedInduction, TLAPS

-----------------------------------------------------------------------------
(* Arithmetic: quotients, round(), products and maxima                     *)

\* What quotient and remainder are.
LEMMA Division ==
  ASSUME NEW n \in Int, NEW L \in Nat \ {0}
  PROVE  n \div L \in Int /\ n % L \in 0..(L - 1) /\ n = (L * (n \div L)) + (n % L)
  OBVIOUS

\* The same for what is not negative.
LEMMA DivisionNat ==
  ASSUME NEW n \in Nat, NEW L \in Nat \ {0}
  PROVE  n \div L \in Nat /\ n % L \in 0..(L - 1) /\ n = (L * (n \div L)) + (n % L)
  OBVIOUS

\* The larger number has the larger quotient, or the same and the larger remainder.
LEMMA DivisionOrder ==
  ASSUME NEW L \in Nat \ {0}, NEW d \in Int, NEW e \in Int, NEW r \in 0..(L - 1), NEW s \in 0..(L - 1),
         L * d + r <= L * e + s
  PROVE  d < e \/ (d = e /\ r <= s)
<1>1. ASSUME NEW k \in Nat, k >= 1 PROVE L * k >= L
  BY <1>1
<1>2. ~(d > e)
  <2> SUFFICES ASSUME d > e PROVE FALSE
    OBVIOUS
  <2>1. L * (d - e) >= L
    BY <1>1
  <2>2. L * (d - e) = L * d - L * e /\ L * d \in Int /\ L * e \in Int
    OBVIOUS
  <2> QED
    BY <2>1, <2>2
<1>3. CASE d = e
  BY <1>3
<1> QED
  BY <1>2, <1>3

\* A number has one quotient and one remainder.
LEMMA DivisionUnique ==
  ASSUME NEW L \in Nat \ {0}, NEW d \in Int, NEW e \in Int, NEW r \in 0..(L - 1), NEW s \in 0..(L - 1),
         L * d + r = L * e + s
  PROVE  d = e /\ r = s
<1>1. L * d + r <= L * e + s /\ L * e + s <= L * d + r
  <2>1. L * d \in Int /\ L * e \in Int
    OBVIOUS
  <2> QED
    BY <2>1
<1>2. d < e \/ (d = e /\ r <= s)
  BY <1>1, DivisionOrder
<1>3. e < d \/ (e = d /\ s <= r)
  BY <1>1, DivisionOrder
<1> QED
  BY <1>2, <1>3

\* round() is a number, ...
LEMMA RoundDivType ==
  ASSUME NEW n \in Int, NEW L \in Nat \ {0}
  PROVE  RoundDiv(n, L) \in Int /\ (n >= 0 => RoundDiv(n, L) >= 0)
  BY Division, DivisionNat DEF RoundDiv

\* ... and the more goes in, the more comes out, halves included.
LEMMA RoundDivOrder ==
  ASSUME NEW L \in Nat \ {0}, NEW a \in Int, NEW b \in Int, a <= b
  PROVE  /\ RoundDiv(a, L) \in Int /\ RoundDiv(b, L) \in Int /\ RoundDiv(a, L) <= RoundDiv(b, L)
         /\ a >= 0 => RoundDiv(a, L) >= 0
<1>0. RoundDiv(a, L) \in Int /\ RoundDiv(b, L) \in Int /\ (a >= 0 => RoundDiv(a, L) >= 0)
  BY RoundDivType
<1> DEFINE d == a \div L
           e == b \div L
           r == a % L
           s == b % L
<1>1. d \in Int /\ r \in 0..(L - 1) /\ a = L * d + r
  BY Division
<1>2. e \in Int /\ s \in 0..(L - 1) /\ b = L * e + s
  BY Division
<1>3. RoundDiv(a, L) = IF 2 * r > L \/ (2 * r = L /\ d % 2 = 1) THEN d + 1 ELSE d
  BY DEF RoundDiv
<1>4. RoundDiv(b, L) = IF 2 * s > L \/ (2 * s = L /\ e % 2 = 1) THEN e + 1 ELSE e
  BY DEF RoundDiv
<1> HIDE DEF d, e, r, s
<1>5. d < e \/ (d = e /\ r <= s)
  BY <1>1, <1>2, DivisionOrder
<1>6. RoundDiv(a, L) <= d + 1 /\ RoundDiv(b, L) >= e
  BY <1>1, <1>2, <1>3, <1>4
<1>7. CASE d < e
  BY <1>1, <1>2, <1>3, <1>4, <1>7
<1>8. CASE d = e /\ r <= s
  BY <1>1, <1>2, <1>3, <1>4, <1>8
<1> QED
  BY <1>0, <1>5, <1>7, <1>8

\* Percent keeps the order, and to its range.
LEMMA PercentOrder ==
  ASSUME NEW a \in Int, NEW b \in Int, a <= b
  PROVE  Percent(a) \in 0..100 /\ Percent(b) \in 0..100 /\ Percent(a) <= Percent(b)
  BY DEF Larger, Smaller, Percent

\* Products of what is not negative.
LEMMA TimesOrder ==
  ASSUME NEW a \in Nat, NEW b \in Nat, NEW c \in Nat, NEW d \in Nat, a <= b, c <= d
  PROVE  a * c \in Nat /\ a * c <= b * d
<1>1. ASSUME NEW x \in Nat, NEW y \in Nat PROVE x * y \in Nat
  BY <1>1
<1>2. a * (d - c) \in Nat /\ (b - a) * d \in Nat
  BY <1>1
<1>3. a * (d - c) = a * d - a * c /\ (b - a) * d = b * d - a * d
  OBVIOUS
<1>4. a * c \in Nat /\ a * d \in Nat /\ b * d \in Nat
  BY <1>1
<1> QED
  BY <1>2, <1>3, <1>4

\* A set of naturals with a bound has a largest element.
LEMMA MaxType ==
  ASSUME NEW n \in Nat, NEW S \in SUBSET (0..n), S # {}
  PROVE  Max(S) \in S
<1> DEFINE R == OpToRel(<, Nat)
           T == {n - x : x \in S}
<1>1. IsWellFoundedOn(R, Nat)
  BY NatLessThanWellFounded
<1>2. T \subseteq Nat /\ T # {}
  <2>1. \A x \in S : n - x \in Nat
    OBVIOUS
  <2>2. PICK x \in S : TRUE
    OBVIOUS
  <2>3. n - x \in T
    OBVIOUS
  <2> QED
    BY <2>1, <2>3
<1>3. \A a, b \in Nat : a < b => <<a, b>> \in R
  BY DEF OpToRel
<1> HIDE DEF R, T
<1>4. \E x \in T : \A y \in T : ~(<<y, x>> \in R)
  BY <1>1, <1>2, WFMin
<1>5. PICK x \in T : \A y \in T : ~(y < x)
  BY <1>2, <1>3, <1>4
<1>6. PICK s \in S : x = n - s
  BY DEF T
<1>7. \A y \in S : s >= y
  <2> TAKE y \in S
  <2>1. n - y \in T
    BY DEF T
  <2> QED
    BY <1>5, <1>6, <2>1
<1> QED
  BY <1>6, <1>7 DEF Max

-----------------------------------------------------------------------------
(* Sums, and the fit of a lead                                             *)

\* The pairs SumOver counts are finitely many.
LEMMA SpreadFinite ==
  ASSUME NEW S, IsFiniteSet(S), NEW f, \A x \in S : f[x] \in -40..40
  PROVE  IsFiniteSet(Gains(f, S)) /\ IsFiniteSet(Losses(f, S))
<1>0. IsFiniteSet(1..40)
  <2>1. 1 \in Int /\ 40 \in Int
    OBVIOUS
  <2> QED
    BY <2>1, FS_Interval, Zenon
<1>1. IsFiniteSet(S \X (1..40))
  BY <1>0, FS_Product, Zenon
<1>2. Gains(f, S) \subseteq S \X (1..40)
  BY DEF Gains
<1>3. Losses(f, S) \subseteq S \X (1..40)
  BY DEF Losses
<1> QED
  BY <1>1, <1>2, <1>3, FS_Subset

\* The sum over a finite set is a number, ...
LEMMA SumType ==
  ASSUME NEW S, IsFiniteSet(S), NEW f, \A x \in S : f[x] \in -40..40
  PROVE  SumOver(f, S) \in Int
  BY SpreadFinite, FS_CardinalityType DEF SumOver

\* ... and what counts against it does not raise it.
LEMMA SumLess ==
  ASSUME NEW S, IsFiniteSet(S), NEW f, \A x \in S : f[x] \in -40..40,
         NEW y, f[y] \in -40..-1
  PROVE  SumOver(f, S \union {y}) <= SumOver(f, S)
<1> DEFINE T == S \union {y}
<1>1. IsFiniteSet(T) /\ \A x \in T : f[x] \in -40..40
  BY FS_AddElement
<1>3. Gains(f, T) = Gains(f, S)
  BY DEF Gains
<1>4. Losses(f, S) \subseteq Losses(f, T)
  BY DEF Losses
<1> HIDE DEF T
<1>2. /\ IsFiniteSet(Gains(f, S)) /\ IsFiniteSet(Losses(f, S))
      /\ IsFiniteSet(Gains(f, T)) /\ IsFiniteSet(Losses(f, T))
  BY <1>1, SpreadFinite
<1>6. Cardinality(Losses(f, S)) <= Cardinality(Losses(f, T))
  BY <1>2, <1>4, FS_Subset
<1>8. /\ Cardinality(Gains(f, S)) \in Nat /\ Cardinality(Losses(f, S)) \in Nat
      /\ Cardinality(Losses(f, T)) \in Nat
  BY <1>2, FS_CardinalityType
<1>9. SumOver(f, T) <= SumOver(f, S)
  BY <1>3, <1>6, <1>8 DEF SumOver
<1> QED
  BY <1>9 DEF T

\* A handful of elements is finite.
LEMMA FewFinite == ASSUME NEW a, NEW b, NEW c, NEW d PROVE IsFiniteSet({a, b, c, d})
<1>1. IsFiniteSet({a}) /\ IsFiniteSet({b}) /\ IsFiniteSet({c}) /\ IsFiniteSet({d})
  BY FS_Singleton
<1>2. IsFiniteSet({a} \union {b}) /\ IsFiniteSet({c} \union {d})
  BY <1>1, FS_Union
<1>3. IsFiniteSet(({a} \union {b}) \union ({c} \union {d}))
  BY <1>2, FS_Union
<1>4. {a, b, c, d} = ({a} \union {b}) \union ({c} \union {d})
  OBVIOUS
<1> QED
  BY <1>3, <1>4, Zenon

\* The signs of the ICP are finitely many, with weights from -4 to 3.
LEMMA IcpSigns ==
  /\ IsFiniteSet(DOMAIN IcpWeight)
  /\ \A x \in DOMAIN IcpWeight : IcpWeight[x] \in -40..40
<1> DEFINE A == {"single_location", "owner_visible", "family_owned", "simple_site"}
           B == {"residential_focus", "local_service_area", "direct_phone", "franchise"}
           C == {"multi_location", "careers_page", "enterprise_signals", "national_brand"}
           D == {"multi_state", "multi_state", "multi_state", "multi_state"}
<1>1. IsFiniteSet(A) /\ IsFiniteSet(B) /\ IsFiniteSet(C) /\ IsFiniteSet(D)
  BY FewFinite
<1>2. DOMAIN IcpWeight = (A \union B) \union (C \union D)
  BY DEF IcpWeight
<1>3. \A x \in DOMAIN IcpWeight : IcpWeight[x] \in -40..40
  BY DEF IcpWeight
<1> HIDE DEF A, B, C, D
<1>4. IsFiniteSet(A \union B) /\ IsFiniteSet(C \union D)
  BY <1>1, FS_Union
<1>5. IsFiniteSet((A \union B) \union (C \union D))
  BY <1>4, FS_Union
<1> QED
  BY <1>2, <1>3, <1>5, Zenon

\* The fit is a number from 0 to 10.
LEMMA IcpFitType ==
  ASSUME NEW S \in SUBSET DOMAIN IcpWeight
  PROVE  IcpFit(S) \in 0..10
<1>1. IsFiniteSet(S) /\ \A x \in S : IcpWeight[x] \in -40..40
  BY IcpSigns, FS_Subset
<1> DEFINE n == SumOver(IcpWeight, S)
<1>2. n \in Int
  BY <1>1, SumType
<1> HIDE DEF n
<1>3. RoundDiv(10 * n, 18) \in Int
  BY <1>2, RoundDivType
<1>4. IcpFit(S) = Larger(0, Smaller(10, RoundDiv(10 * n, 18)))
  BY DEF IcpFit, n
<1> QED
  BY <1>3, <1>4 DEF Larger, Smaller

\* A sign against a lead does not raise its fit.
LEMMA IcpFitOrder ==
  ASSUME NEW S \in SUBSET DOMAIN IcpWeight, NEW y \in DOMAIN IcpWeight, IcpWeight[y] < 0
  PROVE  IcpFit(S \union {y}) <= IcpFit(S)
<1>1. IsFiniteSet(S) /\ \A x \in S : IcpWeight[x] \in -40..40
  BY IcpSigns, FS_Subset
<1>2. IcpWeight[y] \in -40..-1
  BY IcpSigns
<1> DEFINE n == SumOver(IcpWeight, S)
           m == SumOver(IcpWeight, S \union {y})
<1>3. m <= n
  BY <1>1, <1>2, SumLess
<1>4. n \in Int
  BY <1>1, SumType
<1>5. m \in Int
  <2>1. IsFiniteSet(S \union {y}) /\ \A x \in S \union {y} : IcpWeight[x] \in -40..40
    BY IcpSigns, FS_Subset
  <2> QED
    BY <2>1, SumType
<1>6. IcpFit(S) = Larger(0, Smaller(10, RoundDiv(10 * n, 18)))
  BY DEF IcpFit
<1>7. IcpFit(S \union {y}) = Larger(0, Smaller(10, RoundDiv(10 * m, 18)))
  BY DEF IcpFit
<1> HIDE DEF n, m
<1>8. 10 * m <= 10 * n /\ 10 * m \in Int /\ 10 * n \in Int
  BY <1>3, <1>4, <1>5
<1>9. RoundDiv(10 * m, 18) <= RoundDiv(10 * n, 18)
  BY <1>8, RoundDivOrder
<1>10. RoundDiv(10 * m, 18) \in Int /\ RoundDiv(10 * n, 18) \in Int
  BY <1>8, RoundDivType
<1> QED
  BY <1>6, <1>7, <1>9, <1>10 DEF Larger, Smaller

-----------------------------------------------------------------------------
(* Sending slots                                                           *)

\* The day and the time of a tick of day d.
LEMMA AtDay ==
  ASSUME NEW d \in Nat, NEW t \in 0..(DayLength - 1)
  PROVE  At(d, t) \in Nat /\ Day(At(d, t)) = d /\ At(d, t) % DayLength = t
<1>1. DayLength \in Nat \ {0}
  BY ScoringAssumption
<1>2. At(d, t) \in Nat /\ At(d, t) = DayLength * d + t
  BY <1>1 DEF At
<1>3. /\ Day(At(d, t)) \in Nat /\ At(d, t) % DayLength \in 0..(DayLength - 1)
      /\ At(d, t) = DayLength * Day(At(d, t)) + (At(d, t) % DayLength)
  BY <1>1, <1>2, DivisionNat DEF Day
<1>4. d \in Int /\ Day(At(d, t)) \in Int
  BY <1>3
<1>5. DayLength * Day(At(d, t)) + (At(d, t) % DayLength) = DayLength * d + t
  BY <1>2, <1>3
<1> QED
  BY <1>1, <1>2, <1>3, <1>4, <1>5, DivisionUnique

\* The next business day is one, and lies ahead.
LEMMA NextDay ==
  ASSUME NEW d \in Nat
  PROVE  NextBusinessDay(d) \in Nat /\ NextBusinessDay(d) > d /\ BusinessDay(NextBusinessDay(d))
  BY DEF NextBusinessDay, BusinessDay

\* A tick lies in its day, and a later day begins after it.
LEMMA DayHolds ==
  ASSUME NEW n \in Nat
  PROVE  /\ Day(n) \in Nat
         /\ n >= At(Day(n), 0) /\ n < At(Day(n), DayLength)
         /\ \A e \in Nat : e > Day(n) => At(e, 0) > n
<1>1. DayLength \in Nat \ {0}
  BY ScoringAssumption
<1>2. /\ Day(n) \in Nat /\ n % DayLength \in 0..(DayLength - 1)
      /\ n = DayLength * Day(n) + (n % DayLength)
  BY <1>1, DivisionNat DEF Day
<1>3. n >= At(Day(n), 0) /\ n < At(Day(n), DayLength)
  BY <1>1, <1>2 DEF At
<1>4. ASSUME NEW e \in Nat, e > Day(n)
      PROVE  At(e, 0) > n
  <2>1. DayLength * (e - Day(n)) >= DayLength
    BY <1>1, <1>2, <1>4
  <2>2. DayLength * (e - Day(n)) = DayLength * e - DayLength * Day(n)
    BY <1>1, <1>2
  <2>3. At(e, 0) = DayLength * e
    BY <1>1 DEF At
  <2> QED
    BY <1>1, <1>2, <2>1, <2>2, <2>3
<1> QED
  BY <1>2, <1>3, <1>4

-----------------------------------------------------------------------------
\* What is asked of a slot that a message gets at now.
Good(slot, now) ==
  /\ slot \in Nat /\ BusinessDay(Day(slot))
  /\ slot % DayLength \in WindowStart..(WindowEnd + Minute - 1)
  /\ Day(slot) = Day(now) => slot % DayLength <= WindowEnd
  /\ slot >= now + Gap

\* A slot of the whole window of the business day after the candidate's.
LEMMA LaterSlot ==
  ASSUME NEW now \in Nat, NEW candidate \in Nat, candidate >= now,
         NEW slot \in WholeWindow(NextBusinessDay(Day(candidate)))
  PROVE  Good(slot, now)
<1> DEFINE e == NextBusinessDay(Day(candidate))
           t == slot - At(e, 0)
<1>1. /\ {DayLength, WindowStart, WindowEnd, Gap, Minute} \subseteq Nat
      /\ WindowStart < WindowEnd /\ WindowEnd + Minute <= DayLength /\ Gap <= WindowStart
      /\ Minute >= 1
  BY ScoringAssumption
<1>2. Day(candidate) \in Nat
  BY DayHolds
<1>3. e \in Nat /\ e > Day(candidate) /\ BusinessDay(e)
  BY <1>2, NextDay
<1>4. At(e, 0) > candidate
  BY <1>3, DayHolds
<1> HIDE DEF e
<1>5. e * DayLength \in Nat
  BY <1>1, <1>3
<1>6. slot \in e * DayLength + WindowStart .. e * DayLength + WindowEnd + Minute - 1
  BY DEF WholeWindow, At, e
<1>7. t \in WindowStart..(WindowEnd + Minute - 1) /\ slot = At(e, t) /\ slot \in Nat
  BY <1>1, <1>5, <1>6 DEF At
<1>8. Day(slot) = e /\ slot % DayLength = t
  BY <1>1, <1>3, <1>7, AtDay
<1>9. slot >= now + Gap
  BY <1>1, <1>4, <1>5, <1>6 DEF At
<1>10. Day(slot) # Day(now)
  <2>1. now >= At(Day(now), 0)
    BY DayHolds
  <2>2. At(e, 0) \in Int
    BY <1>5, <1>1 DEF At
  <2> QED
    BY <1>4, <1>8, <2>1, <2>2
<1> QED
  BY <1>3, <1>7, <1>8, <1>9, <1>10 DEF Good

\* A slot of the candidate's own day, from base on.
LEMMA SlotToday ==
  ASSUME NEW now \in Nat, NEW d \in Nat, BusinessDay(d),
         NEW base \in Nat, base >= now + Gap, base >= At(d, WindowStart),
         NEW slot \in base..At(d, WindowEnd)
  PROVE  Good(slot, now)
<1> DEFINE t == slot - At(d, 0)
<1>1. /\ {DayLength, WindowStart, WindowEnd, Gap, Minute} \subseteq Nat
      /\ WindowStart < WindowEnd /\ WindowEnd + Minute <= DayLength /\ Minute >= 1
  BY ScoringAssumption
<1>2. d * DayLength \in Nat
  BY <1>1
<1>3. t \in WindowStart..WindowEnd /\ slot = At(d, t) /\ slot \in Nat
  BY <1>1, <1>2 DEF At
<1>4. Day(slot) = d /\ slot % DayLength = t
  BY <1>1, <1>3, AtDay
<1>5. slot >= now + Gap
  BY <1>1, <1>3
<1> QED
  BY <1>1, <1>3, <1>4, <1>5 DEF Good

\* Whatever the hour and the day, next_available_slot keeps to the window.
LEMMA SlotsGood ==
  ASSUME NEW now \in Nat, NEW slot \in SlotsFrom(now)
  PROVE  Good(slot, now)
<1> DEFINE candidate == IF BusinessDay(Day(now)) THEN now ELSE At(NextBusinessDay(Day(now)), WindowStart)
           d == Day(candidate)
           base == Larger(candidate + Gap, At(d, WindowStart))
           dayEnd == At(d, WindowEnd)
<1>1. /\ {DayLength, WindowStart, WindowEnd, Gap, Minute} \subseteq Nat
      /\ WindowStart < WindowEnd /\ WindowEnd + Minute <= DayLength /\ Minute >= 1
  BY ScoringAssumption
<1>2. Day(now) \in Nat
  BY DayHolds
<1>3. candidate \in Nat /\ candidate >= now /\ d \in Nat /\ BusinessDay(d)
  <2>1. CASE BusinessDay(Day(now))
    BY <1>2, <2>1
  <2>2. CASE ~BusinessDay(Day(now))
    <3> DEFINE e == NextBusinessDay(Day(now))
    <3>1. e \in Nat /\ e > Day(now) /\ BusinessDay(e)
      BY <1>2, NextDay
    <3>2. At(e, 0) > now
      BY <3>1, DayHolds
    <3> HIDE DEF e
    <3>3. WindowStart \in 0..(DayLength - 1)
      BY <1>1
    <3>4. At(e, WindowStart) \in Nat /\ Day(At(e, WindowStart)) = e
      BY <3>1, <3>3, AtDay
    <3>5. At(e, WindowStart) >= At(e, 0) /\ At(e, 0) \in Nat
      <4>1. e * DayLength \in Nat
        BY <1>1, <3>1
      <4> QED
        BY <1>1, <4>1 DEF At
    <3>6. candidate = At(e, WindowStart)
      BY <2>2 DEF e
    <3> QED
      BY <3>1, <3>2, <3>4, <3>5, <3>6
  <2> QED
    BY <2>1, <2>2
<1>4. slot \in IF candidate >= dayEnd \/ base >= dayEnd
                 THEN WholeWindow(NextBusinessDay(d)) ELSE RestOfWindow(base, dayEnd)
  BY DEF SlotsFrom
<1> HIDE DEF candidate
<1>5. CASE slot \in WholeWindow(NextBusinessDay(d))
  BY <1>3, <1>5, LaterSlot
<1>6. CASE ~(candidate >= dayEnd \/ base >= dayEnd) /\ slot \in RestOfWindow(base, dayEnd)
  <2>1. At(d, WindowStart) \in Nat /\ dayEnd \in Nat
    BY <1>1, <1>3, AtDay
  <2>2. base \in Nat /\ base >= candidate + Gap /\ base >= At(d, WindowStart)
    BY <1>1, <1>3, <2>1 DEF Larger
  <2>3. base >= now + Gap
    BY <1>1, <1>3, <2>2
  <2> HIDE DEF base, dayEnd
  <2>4. slot \in base..dayEnd
    BY <1>1, <1>6, <2>1, <2>2 DEF RestOfWindow
  <2> QED
    BY <1>3, <2>2, <2>3, <2>4, SlotToday DEF dayEnd
<1> QED
  BY <1>4, <1>5, <1>6

-----------------------------------------------------------------------------
\* What is sampled, slots included, and that a slot is one that was drawn.
Slot == [of : {"slot"}, now : Week, slot : Nat]
Sampled ==
  /\ sample \in Posting \union Lead \union Mail \union Slot
  /\ (sample.of = "slot" /\ sample.slot # 0) => Good(sample.slot, sample.now)

LEMMA SampledInit == ScoringInit => Sampled
  BY ScoringAssumption DEF ScoringInit, Sampled, Posting, Lead, Mail, Slot

LEMMA SampledStep == Sampled /\ [ScoringNext]_sample => Sampled'
<1> SUFFICES ASSUME Sampled, [ScoringNext]_sample PROVE Sampled'
  OBVIOUS
<1>1. CASE DayPasses
  <2>1. sample \in Posting
    BY <1>1 DEF Sampled, DayPasses, Lead, Mail, Slot
  <2>2. sample' \in Posting
    BY <1>1, <2>1, ScoringAssumption DEF DayPasses, Posting
  <2> QED
    BY <2>2 DEF Sampled, Posting
<1>2. ASSUME NEW x \in SignsSeen, SignSeen(x) PROVE Sampled'
  <2>1. sample \in Lead
    BY <1>2 DEF Sampled, SignSeen, Posting, Mail, Slot
  <2>2. sample' \in Lead
    BY <1>2, <2>1 DEF SignSeen, Lead
  <2> QED
    BY <2>2 DEF Sampled, Lead
<1>3. ASSUME NEW kind \in {"bounces", "complaints", "failures"}, BadEvent(kind) PROVE Sampled'
  <2>1. sample \in Mail
    BY <1>3 DEF Sampled, BadEvent, Posting, Lead, Slot
  <2>2. sample' \in Mail
    BY <1>3, <2>1, ScoringAssumption DEF BadEvent, Mail
  <2> QED
    BY <2>2 DEF Sampled, Mail
<1>4. CASE PickSlot
  <2>1. sample \in Slot
    BY <1>4 DEF Sampled, PickSlot, Posting, Lead, Mail
  <2>2. PICK s \in SlotsFrom(sample.now) : sample' = [sample EXCEPT !.slot = s]
    BY <1>4 DEF PickSlot
  <2>3. sample.now \in Nat
    BY <2>1 DEF Slot, Week
  <2>4. Good(s, sample.now) /\ s \in Nat
    BY <2>3, SlotsGood DEF Good
  <2>5. sample' \in Slot /\ sample'.slot = s /\ sample'.now = sample.now
    BY <2>1, <2>2, <2>4 DEF Slot
  <2> QED
    BY <2>4, <2>5 DEF Sampled
<1>5. CASE UNCHANGED sample
  BY <1>5 DEF Sampled
<1> QED
  BY <1>1, <1>2, <1>3, <1>4, <1>5 DEF ScoringNext

LEMMA SampledHolds == ScoringSpec => []Sampled
  BY SampledInit, SampledStep, PTL DEF ScoringSpec

\* Postings, leads, mailboxes and messages stay in their domains.
THEOREM ScoringTypeCorrect == ScoringSpec => []ScoringTypeOK
<1>1. Sampled => ScoringTypeOK
  BY DEF Sampled, ScoringTypeOK, Slot
<1> QED
  BY <1>1, SampledHolds, PTL

\* A message scheduled on any day and at any hour gets a slot on a business day,
\* in the window, a gap ahead, for any window and gap.
THEOREM SlotsKeepHours == ScoringSpec => []SlotsInWindow
<1>1. Sampled => SlotsInWindow
  BY DEF Sampled, SlotsInWindow, Good
<1> QED
  BY <1>1, SampledHolds, PTL

-----------------------------------------------------------------------------
(* Bad news: what is known of a posting as it ages.                        *)

\* Tables of thresholds give an older posting no more.
LEMMA AgeOrder ==
  ASSUME NEW d \in Nat, NEW e \in Nat, d <= e
  PROVE  /\ AgeBonus(d) \in 0..15 /\ AgeBonus(e) \in 0..15 /\ AgeBonus(e) <= AgeBonus(d)
         /\ Freshness(d) \in 10..100 /\ Freshness(e) \in 10..100 /\ Freshness(e) <= Freshness(d)
         /\ Recency30(d) \in 0..30 /\ Recency30(e) \in 0..30 /\ Recency30(e) <= Recency30(d)
  BY DEF AgeBonus, Freshness, Recency30, Larger

\* q is the posting p, some days later.
Later(p, q) ==
  /\ p \in Posting /\ q \in Posting
  /\ q.role = p.role /\ q.intents = p.intents /\ q.features = p.features /\ q.rest = p.rest
  /\ p.days \in Nat /\ q.days \in Nat /\ p.days <= q.days

\* The weights of roles, intents and features are numbers, and so are their sums.
LEMMA WeightTypes ==
  ASSUME NEW p \in Posting
  PROVE  /\ RoleWeight[p.role] \in Nat
         /\ SumOver(IntentWeight, p.intents) \in Int
         /\ SumOver(FeatureWeight, p.features) \in Int
<1>1. p.role \in DOMAIN RoleWeight /\ p.intents \subseteq DOMAIN IntentWeight
        /\ p.features \subseteq DOMAIN FeatureWeight
  BY TablesAssumption DEF Posting
<1>2. RoleWeight[p.role] \in Nat
  BY <1>1 DEF RoleWeight
<1>3. /\ \A x \in DOMAIN IntentWeight : IntentWeight[x] \in -40..40
      /\ \A x \in DOMAIN FeatureWeight : FeatureWeight[x] \in -40..40
  BY DEF IntentWeight, FeatureWeight
<1>4. IsFiniteSet(DOMAIN IntentWeight)
  <2> DEFINE A == {"multiple_openings", "high_volume", "scheduling_duties", "lead_intake"}
             B == {"icp_match", "after_hours", "phone_heavy", "phone_heavy"}
  <2>1. IsFiniteSet(A) /\ IsFiniteSet(B)
    BY FewFinite
  <2>2. DOMAIN IntentWeight = A \union B
    BY DEF IntentWeight
  <2> HIDE DEF A, B
  <2> QED
    BY <2>1, <2>2, FS_Union
<1>5. IsFiniteSet(DOMAIN FeatureWeight)
  <2> DEFINE A == {"no_online_booking", "weak_website", "strong_reviews", "strong_reviews"}
  <2>1. IsFiniteSet(A)
    BY FewFinite
  <2>2. DOMAIN FeatureWeight = A
    BY DEF FeatureWeight
  <2> HIDE DEF A
  <2> QED
    BY <2>1, <2>2
<1>6. IsFiniteSet(p.intents) /\ IsFiniteSet(p.features)
  BY <1>1, <1>4, <1>5, FS_Subset
<1>7. SumOver(IntentWeight, p.intents) \in Int
  BY <1>1, <1>3, <1>6, SumType
<1>8. SumOver(FeatureWeight, p.features) \in Int
  BY <1>1, <1>3, <1>6, SumType
<1> QED
  BY <1>2, <1>7, <1>8

\* compute_signal_score.
LEMMA SignalOrder ==
  ASSUME NEW p, NEW q, Later(p, q)
  PROVE  /\ SignalScore(p) \in 0..100 /\ SignalScore(q) \in 0..100
         /\ SignalScore(q) <= SignalScore(p)
<1> DEFINE known == RoleWeight[p.role] + SumOver(IntentWeight, p.intents)
                      + SumOver(FeatureWeight, p.features)
           rest == IF "after_hours" \in p.intents THEN 0 ELSE 15
           a == known + AgeBonus(p.days) + rest
           b == known + AgeBonus(q.days) + rest
<1>1. known \in Int
  BY WeightTypes DEF Later
<1>2. SignalScore(p) = Percent(RoundDiv(100 * a, AllWeights))
  BY DEF SignalScore
<1>3. SignalScore(q) = Percent(RoundDiv(100 * b, AllWeights))
  BY DEF SignalScore, Later
<1> HIDE DEF known
<1>4. /\ AgeBonus(p.days) \in 0..15 /\ AgeBonus(q.days) \in 0..15
      /\ AgeBonus(q.days) <= AgeBonus(p.days)
  BY AgeOrder DEF Later
<1>5. a \in Int /\ b \in Int /\ b <= a
  BY <1>1, <1>4
<1> HIDE DEF a, b
<1>6. 100 * b \in Int /\ 100 * a \in Int /\ 100 * b <= 100 * a /\ AllWeights \in Nat \ {0}
  BY <1>5 DEF AllWeights
<1>7. /\ RoundDiv(100 * b, AllWeights) \in Int /\ RoundDiv(100 * a, AllWeights) \in Int
      /\ RoundDiv(100 * b, AllWeights) <= RoundDiv(100 * a, AllWeights)
  BY <1>6, RoundDivOrder
<1> QED
  BY <1>2, <1>3, <1>7, PercentOrder

\* hiring_intent_score.
LEMMA HiringOrder ==
  ASSUME NEW p, NEW q, Later(p, q)
  PROVE  HiringIntent(q.intents, q.days) <= HiringIntent(p.intents, p.days)
<1> DEFINE W == [icp_match |-> 30, after_hours |-> 15, phone_heavy |-> 15,
                 scheduling_duties |-> 15, multiple_openings |-> 10]
           All == {"icp_match", "after_hours", "phone_heavy", "scheduling_duties", "multiple_openings"}
           n == SumOver(W, p.intents \intersect All)
           bonus(d) == IF d <= 7 THEN 10 ELSE IF d <= 21 THEN 5 ELSE 0
<1>1. IsFiniteSet(p.intents \intersect All)
  <2> DEFINE A == {"icp_match", "after_hours", "phone_heavy", "scheduling_duties"}
             B == {"multiple_openings", "multiple_openings", "multiple_openings", "multiple_openings"}
  <2>1. IsFiniteSet(A) /\ IsFiniteSet(B)
    BY FewFinite
  <2>2. p.intents \intersect All \subseteq A \union B
    OBVIOUS
  <2> HIDE DEF A, B, All
  <2>3. IsFiniteSet(A \union B)
    BY <2>1, FS_Union
  <2> QED
    BY <2>2, <2>3, FS_Subset
<1>2. \A x \in All : W[x] \in -40..40
  OBVIOUS
<1>3. n \in Int
  <2> HIDE DEF W, All
  <2> QED
    BY <1>1, <1>2, SumType
<1>4. HiringIntent(p.intents, p.days) = Percent(25 + n + bonus(p.days))
  BY DEF HiringIntent
<1>5. HiringIntent(q.intents, q.days) = Percent(25 + n + bonus(q.days))
  BY DEF HiringIntent, Later
<1> HIDE DEF n
<1>6. 25 + n + bonus(q.days) <= 25 + n + bonus(p.days) /\ 25 + n + bonus(q.days) \in Int
        /\ 25 + n + bonus(p.days) \in Int
  BY <1>3 DEF Later
<1> HIDE DEF bonus
<1> QED
  BY <1>4, <1>5, <1>6, PercentOrder

\* compute_opportunity_score, and the tier taken from it.
LEMMA OpportunityOrder ==
  ASSUME NEW p, NEW q, Later(p, q)
  PROVE  Opportunity10(q) <= Opportunity10(p) /\ OpportunityTier(q) >= OpportunityTier(p)
<1> DEFINE s == SignalScore(p)
           t == SignalScore(q)
<1>1. s \in 0..100 /\ t \in 0..100 /\ t <= s
  BY SignalOrder
<1> DEFINE i == OpportunityIntent(p)
           j == OpportunityIntent(q)
           v == Recency10(p)
           w == Recency10(q)
<1>2. i \in Nat /\ j \in Nat /\ j <= i
  <2> DEFINE a == RoundDiv(3 * s, 10)
             b == RoundDiv(3 * t, 10)
  <2>1. /\ i = IF p.days <= 60 /\ IntentCategory(s) \in {"high_value", "medium_value"}
                 THEN Smaller(30, a) ELSE 0
        /\ j = IF q.days <= 60 /\ IntentCategory(t) \in {"high_value", "medium_value"}
                 THEN Smaller(30, b) ELSE 0
    BY DEF OpportunityIntent, Active
  <2> HIDE DEF s, t, i, j
  <2>2. a \in Int /\ a >= 0
    BY <1>1, RoundDivType
  <2>3. b \in Int /\ b >= 0 /\ b <= a
    BY <1>1, RoundDivOrder
  <2>4. \A n \in 0..100 : IntentCategory(n) \in {"high_value", "medium_value"} <=> n >= 60
    BY DEF IntentCategory
  <2>5. p.days \in Nat /\ q.days \in Nat /\ p.days <= q.days
    BY DEF Later
  <2> HIDE DEF a, b
  <2>6. Smaller(30, a) \in Nat /\ Smaller(30, b) \in Nat /\ Smaller(30, b) <= Smaller(30, a)
    BY <2>2, <2>3 DEF Smaller
  <2> QED
    BY <1>1, <2>1, <2>4, <2>5, <2>6
<1>3. v \in 0..100 /\ w \in 0..100 /\ w <= v
  <2>1. p.days \in Nat /\ q.days \in Nat /\ p.days <= q.days
    BY DEF Later
  <2>2. /\ Freshness(p.days) \in 10..100 /\ Freshness(q.days) \in 10..100
        /\ Freshness(q.days) <= Freshness(p.days)
    BY <2>1, AgeOrder
  <2> QED
    BY <2>1, <2>2 DEF Recency10, Active, Smaller
<1>4. p.rest \in Nat /\ q.rest = p.rest
  BY ScoringAssumption DEF Later, Posting
<1>5. /\ Opportunity10(p) = Larger(0, Smaller(1000, 10 * (p.rest + i) + v))
      /\ Opportunity10(q) = Larger(0, Smaller(1000, 10 * (q.rest + j) + w))
  BY DEF Opportunity10
<1> HIDE DEF i, j, v, w, s, t
<1>6. Opportunity10(q) <= Opportunity10(p) /\ Opportunity10(p) \in Nat /\ Opportunity10(q) \in Nat
  BY <1>2, <1>3, <1>4, <1>5 DEF Larger, Smaller
<1>7. OpportunityTier(q) >= OpportunityTier(p)
  <2>1. \A m, n \in Nat : m <= n => TierOf(m) >= TierOf(n)
    BY DEF TierOf
  <2> QED
    BY <1>6, <2>1 DEF OpportunityTier
<1> QED
  BY <1>6, <1>7

\* reevaluate_lead, for a lead with one posting and its event.
LEMMA IntentOrder ==
  ASSUME NEW p, NEW q, Later(p, q)
  PROVE  IntentTotal(q) <= IntentTotal(p) /\ IntentPriority(q) >= IntentPriority(p)
<1>1. p.days \in Nat /\ q.days \in Nat /\ p.days <= q.days /\ p.rest \in Nat /\ q.rest = p.rest
  BY ScoringAssumption DEF Later, Posting
<1> DEFINE a == SignalPoints10(p)
           b == SignalPoints10(q)
           c == EventPoints10(p)
           d == EventPoints10(q)
<1>2. a \in Nat /\ b \in Nat /\ b <= a
  <2> DEFINE s == SignalScore(p)
             t == SignalScore(q)
             m == s * Freshness(p.days)
             n == t * Freshness(q.days)
             x == 10 * m * Recency30(p.days)
             y == 10 * n * Recency30(q.days)
  <2>1. s \in Nat /\ t \in Nat /\ t <= s
    BY SignalOrder
  <2>2. /\ Freshness(p.days) \in Nat /\ Freshness(q.days) \in Nat
        /\ Freshness(q.days) <= Freshness(p.days)
        /\ Recency30(p.days) \in Nat /\ Recency30(q.days) \in Nat
        /\ Recency30(q.days) <= Recency30(p.days)
    BY <1>1 DEF Freshness, Recency30, Larger
  <2> HIDE DEF s, t
  <2>3. m \in Nat /\ n \in Nat /\ n <= m
    BY <2>1, <2>2, TimesOrder
  <2>4. /\ SignalPoints10(p) = Smaller(350, RoundDiv(10 * s * Freshness(p.days) * Recency30(p.days), 100 * 30))
        /\ SignalPoints10(q) = Smaller(350, RoundDiv(10 * t * Freshness(q.days) * Recency30(q.days), 100 * 30))
    BY DEF SignalPoints10, s, t
  <2>5. 10 * s * Freshness(p.days) = 10 * m /\ 10 * t * Freshness(q.days) = 10 * n
    BY <2>1, <2>2
  <2> HIDE DEF m, n
  <2>6. 10 * m \in Nat /\ 10 * n \in Nat /\ 10 * n <= 10 * m
    BY <2>3
  <2>7. x \in Nat /\ y \in Nat /\ y <= x
    BY <2>2, <2>6, TimesOrder
  <2>8. a = Smaller(350, RoundDiv(x, 3000)) /\ b = Smaller(350, RoundDiv(y, 3000))
    BY <2>4, <2>5
  <2> HIDE DEF a, b, x, y
  <2>9. RoundDiv(x, 3000) \in Nat /\ RoundDiv(y, 3000) \in Nat /\ RoundDiv(y, 3000) <= RoundDiv(x, 3000)
    BY <2>7, RoundDivOrder
  <2> QED
    BY <2>8, <2>9 DEF Smaller
<1>3. c \in Nat /\ d \in Nat /\ d <= c
  <2> DEFINE e == RoundDiv(10 * 35 * Recency30(p.days), 30)
             f == RoundDiv(10 * 35 * Recency30(q.days), 30)
  <2>1. /\ Recency30(p.days) \in Nat /\ Recency30(q.days) \in Nat
        /\ Recency30(q.days) <= Recency30(p.days)
    BY <1>1, AgeOrder
  <2>2. e \in Nat /\ f \in Nat /\ f <= e
    BY <2>1, RoundDivOrder
  <2>3. c = (IF p.days <= 30 THEN e ELSE 0) /\ d = (IF q.days <= 30 THEN f ELSE 0)
    BY DEF EventPoints10
  <2> HIDE DEF c, d, e, f
  <2> QED
    BY <1>1, <2>2, <2>3
<1> DEFINE g == 10 * p.rest + (IF Active(p) THEN a ELSE 0) + c + (IF Contributions(p) >= 2 THEN 50 ELSE 0)
           h == 10 * q.rest + (IF Active(q) THEN b ELSE 0) + d + (IF Contributions(q) >= 2 THEN 50 ELSE 0)
<1>4. IntentTotal(p) = Percent(RoundDiv(g, 10)) /\ IntentTotal(q) = Percent(RoundDiv(h, 10))
  BY DEF IntentTotal
<1> HIDE DEF a, b, c, d
<1>5. g \in Int /\ h \in Int /\ h <= g
  BY <1>1, <1>2, <1>3 DEF Active, Contributions
<1> HIDE DEF g, h
<1>6. RoundDiv(g, 10) \in Int /\ RoundDiv(h, 10) \in Int /\ RoundDiv(h, 10) <= RoundDiv(g, 10)
  BY <1>5, RoundDivOrder
<1>7. IntentTotal(p) \in 0..100 /\ IntentTotal(q) \in 0..100 /\ IntentTotal(q) <= IntentTotal(p)
  BY <1>4, <1>6, PercentOrder
<1>8. IntentPriority(q) >= IntentPriority(p)
  BY <1>1, <1>7 DEF IntentPriority
<1> QED
  BY <1>7, <1>8

-----------------------------------------------------------------------------
(* Bad news: a mailbox, and a lead.                                        *)

\* n is the mailbox m after more bounces, complaints or failures.
Worse(m, n) ==
  /\ m \in Mail /\ n \in Mail /\ n.total = m.total /\ n.steady = m.steady
  /\ m.bounces <= n.bounces /\ m.complaints <= n.complaints /\ m.failures <= n.failures

\* compute_health_score, and the state it maps to.
LEMMA HealthOrder ==
  ASSUME NEW m, NEW n, Worse(m, n)
  PROVE  MailNoBetter(m, n)
<1> DEFINE T == m.total
           fixed == 10 * m.steady * T
           b == Larger(0, 100 * T - 500 * m.bounces)
           c == Larger(0, 100 * T - 10000 * m.complaints)
           e == Larger(0, 100 - 10 * m.failures)
           b2 == Larger(0, 100 * T - 500 * n.bounces)
           c2 == Larger(0, 100 * T - 10000 * n.complaints)
           e2 == Larger(0, 100 - 10 * n.failures)
           f == T * e
           f2 == T * e2
           x == 40 * b + 30 * c + 15 * 0 + fixed + 5 * f
           y == 40 * b2 + 30 * c2 + 15 * 0 + fixed + 5 * f2
<1>1. /\ T \in Nat \ {0} /\ m.steady \in Nat
      /\ m.bounces \in Nat /\ m.complaints \in Nat /\ m.failures \in Nat
      /\ n.bounces \in Nat /\ n.complaints \in Nat /\ n.failures \in Nat
      /\ m.bounces <= n.bounces /\ m.complaints <= n.complaints /\ m.failures <= n.failures
  <2>1. \A i \in 0..MaxBad : i \in Nat
    BY ScoringAssumption
  <2>2. T \in Nat \ {0} /\ m.steady \in Nat
    <3>1. m.total \in MailTotals /\ m.steady \in {0, 100}
      BY DEF Worse, Mail
    <3>2. MailTotals \subseteq Nat \ {0}
      BY ScoringAssumption
    <3>3. m.steady \in Nat
      <4>1. m.steady = 0 \/ m.steady = 100
        BY <3>1
      <4> QED
        BY <4>1
    <3> QED
      BY <3>1, <3>2, <3>3, Zenon
  <2> QED
    BY <2>1, <2>2 DEF Worse, Mail
<1>2. HealthScore(m) = Percent(RoundDiv(x, 100 * T))
  BY DEF HealthScore
<1>3. HealthScore(n) = Percent(RoundDiv(y, 100 * T))
  BY DEF HealthScore, Worse
<1> HIDE DEF T
<1>4. fixed \in Nat
  <2>1. m.steady * T \in Nat /\ 10 * m.steady \in Nat
    BY <1>1
  <2> QED
    BY <1>1, <2>1
<1>5. /\ b \in Nat /\ b2 \in Nat /\ b2 <= b /\ c \in Nat /\ c2 \in Nat /\ c2 <= c
      /\ e \in Nat /\ e2 \in Nat /\ e2 <= e
  BY <1>1 DEF Larger
<1> HIDE DEF b, b2, c, c2, e, e2, fixed
<1>6. f \in Nat /\ f2 \in Nat /\ f2 <= f
  BY <1>1, <1>5, TimesOrder
<1> HIDE DEF f, f2
<1>7. x \in Int /\ y \in Int /\ y <= x /\ 100 * T \in Nat \ {0}
  BY <1>1, <1>4, <1>5, <1>6
<1> HIDE DEF x, y
<1>8. /\ RoundDiv(x, 100 * T) \in Int /\ RoundDiv(y, 100 * T) \in Int
      /\ RoundDiv(y, 100 * T) <= RoundDiv(x, 100 * T)
  BY <1>7, RoundDivOrder
<1>9. /\ HealthScore(m) \in 0..100 /\ HealthScore(n) \in 0..100
      /\ HealthScore(n) <= HealthScore(m)
  BY <1>2, <1>3, <1>8, PercentOrder
<1>10. \A i, j \in 0..100 : i <= j => HealthRank(i) >= HealthRank(j)
  BY DEF HealthRank
<1> QED
  BY <1>9, <1>10 DEF MailNoBetter

\* n is the lead m with a sign against it.
LEMMA FitOrder ==
  ASSUME NEW m \in Lead, NEW n \in Lead, NEW y \in SignsSeen, IcpWeight[y] < 0,
         n.signs = m.signs \union {y}, n.phone = m.phone, n.unclear = m.unclear
  PROVE  LeadNoBetter(m, n)
<1> DEFINE i == IcpFit(m.signs)
           j == IcpFit(n.signs)
           phone == 20 * (IF m.phone THEN 6 ELSE 2)
<1>1. m.signs \in SUBSET DOMAIN IcpWeight /\ n.signs \in SUBSET DOMAIN IcpWeight /\ y \in DOMAIN IcpWeight
  BY TablesAssumption DEF Lead
<1>2. i \in 0..10 /\ j \in 0..10
  BY <1>1, IcpFitType
<1>3. j <= i
  BY <1>1, IcpFitOrder
<1>4. /\ FitPriority(m.signs, m.phone) = RoundDiv(40 * 3 + 30 * i + phone, 10)
      /\ FitPriority(n.signs, n.phone) = RoundDiv(40 * 3 + 30 * j + phone, 10)
  BY DEF FitPriority
<1>5. FitStatus(n.signs, n.unclear) = "qualified" => ~TooLarge(n.signs) /\ j >= 6
  BY <1>2 DEF FitStatus
<1>6. ~TooLarge(m.signs) /\ i >= 6 => FitStatus(m.signs, m.unclear) = "qualified"
  BY <1>2 DEF FitStatus
<1>7. TooLarge(m.signs) => TooLarge(n.signs)
  BY DEF TooLarge
<1> HIDE DEF i, j
<1>8. phone \in 0..120
  OBVIOUS
<1> HIDE DEF phone
<1>9. /\ FitPriority(m.signs, m.phone) \in Int /\ FitPriority(n.signs, n.phone) \in Int
      /\ FitPriority(n.signs, n.phone) <= FitPriority(m.signs, m.phone)
  <2> DEFINE a == 40 * 3 + 30 * i + phone
             c == 40 * 3 + 30 * j + phone
  <2>1. a \in Int /\ c \in Int /\ c <= a
    BY <1>2, <1>3, <1>8
  <2> HIDE DEF a, c
  <2>2. RoundDiv(a, 10) \in Int /\ RoundDiv(c, 10) \in Int /\ RoundDiv(c, 10) <= RoundDiv(a, 10)
    BY <2>1, RoundDivOrder
  <2> QED
    BY <1>4, <2>2 DEF a, c
<1>10. \A k, l \in Int : k <= l => PriorityTier(k) >= PriorityTier(l)
  BY DEF PriorityTier
<1> QED
  BY <1>2, <1>3, <1>5, <1>6, <1>7, <1>9, <1>10 DEF LeadNoBetter

\* A step is a day more for a posting, an event more for a mailbox, a sign more for
\* a lead, or gives a message its slot.
LEMMA NewsStep ==
  ASSUME Sampled, ScoringNext
  PROVE  /\ sample.of = "posting" => Later(sample, sample')
         /\ sample.of = "mail" => Worse(sample, sample')
         /\ \A x \in SignsSeen : sample.of = "lead" /\ SignSeen(x) =>
              /\ sample \in Lead /\ sample' \in Lead /\ sample'.signs = sample.signs \union {x}
              /\ sample'.phone = sample.phone /\ sample'.unclear = sample.unclear
<1>1. ASSUME sample.of = "posting" PROVE Later(sample, sample')
  <2>1. sample \in Posting
    BY <1>1 DEF Sampled, Lead, Mail, Slot
  <2>2. DayPasses
    BY <1>1 DEF ScoringNext, DayPasses, SignSeen, BadEvent, PickSlot
  <2> QED
    BY <2>1, <2>2, ScoringAssumption DEF DayPasses, Later, Posting
<1>2. ASSUME sample.of = "mail" PROVE Worse(sample, sample')
  <2>1. sample \in Mail
    BY <1>2 DEF Sampled, Posting, Lead, Slot
  <2>2. PICK kind \in {"bounces", "complaints", "failures"} : BadEvent(kind)
    BY <1>2 DEF ScoringNext, DayPasses, SignSeen, BadEvent, PickSlot
  <2>3. sample[kind] \in 0..MaxBad /\ sample[kind] < MaxBad /\ MaxBad \in Nat
    BY <2>1, <2>2, ScoringAssumption DEF BadEvent, Mail
  <2>4. sample' = [sample EXCEPT ![kind] = sample[kind] + 1] /\ sample[kind] + 1 \in 0..MaxBad
    BY <2>2, <2>3 DEF BadEvent
  <2>5. \A i \in 0..MaxBad : i \in Int
    BY <2>3
  <2> QED
    BY <2>1, <2>3, <2>4, <2>5 DEF Worse, Mail
<1>3. ASSUME NEW x \in SignsSeen, sample.of = "lead", SignSeen(x)
      PROVE  /\ sample \in Lead /\ sample' \in Lead /\ sample'.signs = sample.signs \union {x}
             /\ sample'.phone = sample.phone /\ sample'.unclear = sample.unclear
  <2>1. sample \in Lead
    BY <1>3 DEF Sampled, Posting, Mail, Slot
  <2> QED
    BY <1>3, <2>1 DEF SignSeen, Lead
<1> QED
  BY <1>1, <1>2, <1>3

\* An older posting, a bounce, a complaint, a failure, or a sign against a lead never
\* pays, for any postings, leads and mailboxes, of any age and number of messages.
THEOREM BadNewsIsBad == ScoringSpec => BadNewsNeverPays
<1>1. ASSUME Sampled, ScoringNext
      PROVE  /\ sample.of = "posting" => PostingNoBetter(sample, sample')
             /\ sample.of = "mail" => MailNoBetter(sample, sample')
             /\ (sample.of = "lead" /\ \E x \in SignsSeen : SignSeen(x) /\ IcpWeight[x] < 0)
                  => LeadNoBetter(sample, sample')
  <2>1. ASSUME sample.of = "posting" PROVE PostingNoBetter(sample, sample')
    <3>1. Later(sample, sample')
      BY <1>1, <2>1, NewsStep
    <3> QED
      BY <3>1, SignalOrder, HiringOrder, OpportunityOrder, IntentOrder DEF PostingNoBetter
  <2>2. ASSUME sample.of = "mail" PROVE MailNoBetter(sample, sample')
    <3>1. Worse(sample, sample')
      BY <1>1, <2>2, NewsStep
    <3> QED
      BY <3>1, HealthOrder
  <2>3. ASSUME NEW x \in SignsSeen, sample.of = "lead", SignSeen(x), IcpWeight[x] < 0
        PROVE  LeadNoBetter(sample, sample')
    <3>1. /\ sample \in Lead /\ sample' \in Lead /\ sample'.signs = sample.signs \union {x}
          /\ sample'.phone = sample.phone /\ sample'.unclear = sample.unclear
      BY <1>1, <2>3, NewsStep
    <3> QED
      BY <2>3, <3>1, FitOrder
  <2> QED
    BY <2>1, <2>2, <2>3
<1> QED
  BY <1>1, SampledHolds, PTL DEF ScoringSpec, BadNewsNeverPays

-----------------------------------------------------------------------------
(* Research: reports and scores of a company                               *)

\* The hiring signals, the company, and what researchers are at.
HiringOK ==
  hiring \in [Postings -> [status : {"unseen", "active", "expired"}, score : 0..100,
                           fresh : {10, 40, 70, 90, 100}, days : DaysSeen]]

CompanyOK ==
  company \in [listed : BOOLEAN, known : SUBSET Facts, lead : BOOLEAN, meetings : 0..MaxMeetings]

StudiesOK ==
  /\ study \in [Analysts -> [at : {"idle", "ask", "repair", "store"}, hires : BOOLEAN,
                             listed : BOOLEAN, problem : DOMAIN Severity]]
  /\ report \in DOMAIN Severity

\* Points that a company can have without hiring, and in all.
Modest ==
  /\ scorer.points \in Nat
  /\ scorer.at = "problem" => scorer.points <= IF scorer.hires THEN 48 ELSE 18
  /\ scorer.at = "write" => scorer.points <= IF scorer.hires THEN 78 ELSE 48

\* The score under way, and the latest.
ScoresOK ==
  /\ DOMAIN scorer = {"at", "points", "hires"}
  /\ scorer.at \in {"idle", "problem", "write"} /\ scorer.hires \in BOOLEAN
  /\ scored \in [tier : 1..5, first : BOOLEAN, late : BOOLEAN]
  /\ Modest
  /\ CalledWasHiring

Researched == HiringOK /\ CompanyOK /\ StudiesOK /\ ScoresOK

-----------------------------------------------------------------------------
LEMMA ResearchedInit == ResearchInit => Researched
<1> SUFFICES ASSUME ResearchInit PROVE Researched
  OBVIOUS
<1> USE ResearchAssumption DEF ResearchInit
<1>1. HiringOK
  BY DEF HiringOK
<1>2. CompanyOK
  BY DEF CompanyOK
<1>3. StudiesOK
  BY DEF StudiesOK, NoStudy, Severity
<1>4. ScoresOK
  BY DEF ScoresOK, Modest, CalledWasHiring, NotScoring, NoScore
<1> QED
  BY <1>1, <1>2, <1>3, <1>4 DEF Researched

LEMMA FreshnessType == ASSUME NEW d PROVE Freshness(d) \in {10, 40, 70, 90, 100}
  BY DEF Freshness

LEMMA HiringStep ==
  ASSUME HiringOK, NEW p \in Postings, Upsert(p) \/ Rescore(p) \/ GrowsOld(p)
  PROVE  HiringOK'
<1> DEFINE Row == [status : {"unseen", "active", "expired"}, score : 0..100,
                   fresh : {10, 40, 70, 90, 100}, days : DaysSeen]
<1>0. ScoresSeen \subseteq 0..100
  BY ResearchAssumption
<1>1. CASE Upsert(p)
  <2>1. PICK n \in ScoresSeen, d \in DaysSeen : hiring' = [hiring EXCEPT ![p] =
            [status |-> "active", score |-> n, fresh |-> Freshness(d), days |-> d]]
    BY <1>1 DEF Upsert
  <2>2. [status |-> "active", score |-> n, fresh |-> Freshness(d), days |-> d] \in Row
    BY <1>0, FreshnessType
  <2> QED
    BY <2>1, <2>2 DEF HiringOK
<1>2. CASE Rescore(p)
  <2>1. PICK n \in ScoresSeen :
          hiring' = Expired([hiring EXCEPT ![p] =
                      [hiring[p] EXCEPT !.score = n, !.fresh = Freshness(hiring[p].days)]])
    BY <1>2 DEF Rescore
  <2> DEFINE row == [hiring[p] EXCEPT !.score = n, !.fresh = Freshness(hiring[p].days)]
             h == [hiring EXCEPT ![p] = row]
  <2>a. row \in Row
    <3>1. Freshness(hiring[p].days) \in {10, 40, 70, 90, 100}
      BY FreshnessType
    <3>2. hiring[p] \in Row
      BY DEF HiringOK
    <3> QED
      BY <1>0, <3>1, <3>2
  <2> HIDE DEF row
  <2>2. h \in [Postings -> Row]
    BY <2>a DEF HiringOK
  <2> HIDE DEF h
  <2>3. Expired(h) \in [Postings -> Row]
    BY <2>2 DEF Expired
  <2> QED
    BY <2>1, <2>3 DEF HiringOK, h, row
<1>3. CASE GrowsOld(p)
  BY <1>3 DEF GrowsOld, HiringOK
<1> QED
  BY <1>1, <1>2, <1>3

\* A step of a researcher.
LEMMA StudyStep ==
  ASSUME StudiesOK, CompanyOK, NEW r \in Analysts,
         \/ Assemble(r) \/ ModelAnswers(r) \/ FallsBack(r)
         \/ Raises(r) \/ Repair(r) \/ StoreReport(r)
  PROVE  StudiesOK'
<1> DEFINE Study == [at : {"idle", "ask", "repair", "store"}, hires : BOOLEAN,
                     listed : BOOLEAN, problem : DOMAIN Severity]
<1>0. study[r] \in Study /\ NoStudy \in Study /\ ProblemsSeen \union {"high"} \subseteq DOMAIN Severity
  BY ResearchAssumption DEF StudiesOK, NoStudy, Severity
<1>1. ASSUME NEW s \in Study, study' = [study EXCEPT ![r] = s], report' \in DOMAIN Severity
      PROVE  StudiesOK'
  BY <1>1 DEF StudiesOK
<1>2. CASE Assemble(r)
  <2> DEFINE hires == (Live # {})
             s == [at |-> "ask", hires |-> hires, listed |-> company.listed, problem |-> "none"]
  <2>1. study' = [study EXCEPT ![r] = s] /\ report' = report
    BY <1>2 DEF Assemble
  <2>2. hires \in BOOLEAN
    OBVIOUS
  <2> HIDE DEF hires
  <2>3. s \in Study
    BY <2>2 DEF CompanyOK, Severity
  <2> HIDE DEF s, Study
  <2> QED
    BY <1>1, <2>1, <2>3 DEF StudiesOK
<1>3. ASSUME NEW problem \in DOMAIN Severity, Drafted(r, problem)
      PROVE  StudiesOK'
  <2>1. PICK next \in {"store", "repair"} :
          study' = [study EXCEPT ![r].problem = problem, ![r].at = next]
    BY <1>3 DEF Drafted
  <2> DEFINE s == [study[r] EXCEPT !.problem = problem, !.at = next]
  <2>2. s \in Study /\ study' = [study EXCEPT ![r] = s]
    BY <1>0, <2>1 DEF StudiesOK
  <2> HIDE DEF s, Study
  <2> QED
    BY <1>1, <1>3, <2>2 DEF Drafted, StudiesOK
<1>4. CASE ModelAnswers(r) \/ FallsBack(r)
  BY <1>0, <1>3, <1>4 DEF ModelAnswers, FallsBack
<1>5. CASE Raises(r)
  BY <1>0, <1>1, <1>5 DEF Raises, StudiesOK
<1>6. CASE Repair(r)
  <2>1. PICK problem \in ProblemsSeen \union {study[r].problem} :
               study' = [study EXCEPT ![r].problem = problem, ![r].at = "store"]
    BY <1>6 DEF Repair
  <2> DEFINE s == [study[r] EXCEPT !.problem = problem, !.at = "store"]
  <2>2. s \in Study /\ study' = [study EXCEPT ![r] = s]
    BY <1>0, <2>1 DEF StudiesOK
  <2> HIDE DEF s, Study
  <2> QED
    BY <1>1, <1>6, <2>2 DEF Repair, StudiesOK
<1>7. CASE StoreReport(r)
  BY <1>0, <1>1, <1>7 DEF StoreReport
<1> QED
  BY <1>2, <1>4, <1>5, <1>6, <1>7

-----------------------------------------------------------------------------
\* The numbers from 1 to n are n.
LEMMA UpTo == \A n \in {1, 2, 3} : IsFiniteSet(1..n) /\ Cardinality(1..n) = n
<1> SUFFICES ASSUME NEW n \in {1, 2, 3} PROVE IsFiniteSet(1..n) /\ Cardinality(1..n) = n
  OBVIOUS
<1>1. 1 \in Int /\ n \in Int
  OBVIOUS
<1>2. IsFiniteSet(1..n) /\ Cardinality(1..n) = IF 1 > n THEN 0 ELSE n - 1 + 1
  BY <1>1, FS_Interval, Zenon
<1> QED
  BY <1>2

\* At most 13 points speak for a company's fit.
LEMMA GainsOfCompany ==
  ASSUME company.known \in SUBSET Facts
  PROVE  /\ IcpSignals \in SUBSET DOMAIN IcpWeight
         /\ SumOver(IcpWeight, IcpSignals) \in Int
         /\ SumOver(IcpWeight, IcpSignals) <= 13
<1> DEFINE S == IcpSignals
           A == {"single_location", "owner_visible"}
           B == {"simple_site", "residential_focus", "local_service_area"}
           C == {"direct_phone"}
           G == (A \X (1..3)) \union ((B \X (1..2)) \union (C \X (1..1)))
<1>1. S \subseteq A \union B \union C \union {"multi_location"}
  BY DEF IcpSignals, Facts
<1>2. S \in SUBSET DOMAIN IcpWeight
  BY <1>1 DEF IcpWeight
<1>3. IsFiniteSet(S) /\ \A x \in S : IcpWeight[x] \in -40..40
  BY <1>2, IcpSigns, FS_Subset
<1>4. Gains(IcpWeight, S) \subseteq G
  <2> SUFFICES ASSUME NEW x \in S, NEW i \in 1..IcpWeight[x] PROVE <<x, i>> \in G
    BY DEF Gains
  <2>1. CASE x \in A
    BY <2>1 DEF IcpWeight
  <2>2. CASE x \in B
    BY <2>2 DEF IcpWeight
  <2>3. CASE x \in C
    BY <2>3 DEF IcpWeight
  <2>4. CASE x = "multi_location"
    BY <2>4 DEF IcpWeight
  <2> QED
    BY <1>1, <2>1, <2>2, <2>3, <2>4
<1> HIDE DEF S
<1>5. /\ IsFiniteSet(A) /\ Cardinality(A) = 2
      /\ IsFiniteSet(B) /\ Cardinality(B) = 3
      /\ IsFiniteSet(C) /\ Cardinality(C) = 1
  <2>1. \A x : IsFiniteSet({x}) /\ Cardinality({x}) = 1
    BY FS_Singleton, Zenon
  <2>2. ASSUME NEW x, NEW y, x # y PROVE IsFiniteSet({x, y}) /\ Cardinality({x, y}) = 2
    <3>1. {x, y} = {x} \union {y} /\ y \notin {x}
      BY <2>2
    <3>2. IsFiniteSet({x} \union {y}) /\ Cardinality({x} \union {y}) = Cardinality({x}) + 1
      BY <2>1, <3>1, FS_AddElement
    <3>3. Cardinality({x}) = 1 /\ 1 + 1 = 2
      BY <2>1
    <3>4. Cardinality({x} \union {y}) = 2
      BY <3>2, <3>3
    <3> QED
      BY <3>1, <3>2, <3>4, Zenon
  <2>3. "simple_site" # "residential_focus"
    OBVIOUS
  <2> DEFINE B2 == {"simple_site", "residential_focus"}
  <2>4. B = B2 \union {"local_service_area"} /\ "local_service_area" \notin B2
    OBVIOUS
  <2>5. IsFiniteSet(B2) /\ Cardinality(B2) = 2
    BY <2>2, <2>3
  <2> HIDE DEF B2
  <2>6. IsFiniteSet(B) /\ Cardinality(B) = 3
    BY <2>4, <2>5, FS_AddElement
  <2> QED
    BY <2>1, <2>2, <2>6
<1>6. /\ IsFiniteSet(1..3) /\ Cardinality(1..3) = 3
      /\ IsFiniteSet(1..2) /\ Cardinality(1..2) = 2
      /\ IsFiniteSet(1..1) /\ Cardinality(1..1) = 1
  BY UpTo
<1> HIDE DEF A, B, C
<1>7. /\ IsFiniteSet(A \X (1..3)) /\ Cardinality(A \X (1..3)) = 6
      /\ IsFiniteSet(B \X (1..2)) /\ Cardinality(B \X (1..2)) = 6
      /\ IsFiniteSet(C \X (1..1)) /\ Cardinality(C \X (1..1)) = 1
  <2>1. IsFiniteSet(A \X (1..3)) /\ Cardinality(A \X (1..3)) = 2 * 3
    BY <1>5, <1>6, FS_Product
  <2>2. IsFiniteSet(B \X (1..2)) /\ Cardinality(B \X (1..2)) = 3 * 2
    BY <1>5, <1>6, FS_Product
  <2>3. IsFiniteSet(C \X (1..1)) /\ Cardinality(C \X (1..1)) = 1 * 1
    BY <1>5, <1>6, FS_Product
  <2> QED
    BY <2>1, <2>2, <2>3
<1>8. IsFiniteSet(G) /\ Cardinality(G) <= 13
  <2> DEFINE P == A \X (1..3)
             Q == B \X (1..2)
             R == C \X (1..1)
  <2> HIDE DEF P, Q, R
  <2>0. /\ IsFiniteSet(P) /\ Cardinality(P) = 6 /\ IsFiniteSet(Q) /\ Cardinality(Q) = 6
        /\ IsFiniteSet(R) /\ Cardinality(R) = 1
    BY <1>7 DEF P, Q, R
  <2>1. IsFiniteSet(Q \union R) /\ Cardinality(Q \union R) <= 7
    <3>1. IsFiniteSet(Q \union R)
          /\ Cardinality(Q \union R) = Cardinality(Q) + Cardinality(R) - Cardinality(Q \intersect R)
      BY <2>0, FS_Union
    <3>2. Cardinality(Q \intersect R) \in Nat
      BY <2>0, FS_Intersection, FS_CardinalityType
    <3> QED
      BY <2>0, <3>1, <3>2
  <2>2. IsFiniteSet(P \union (Q \union R)) /\ Cardinality(P \union (Q \union R)) <= 13
    <3>1. /\ IsFiniteSet(P \union (Q \union R))
          /\ Cardinality(P \union (Q \union R))
               = Cardinality(P) + Cardinality(Q \union R) - Cardinality(P \intersect (Q \union R))
      BY <2>0, <2>1, FS_Union
    <3>2. Cardinality(P \intersect (Q \union R)) \in Nat /\ Cardinality(Q \union R) \in Nat
      BY <2>0, <2>1, FS_Intersection, FS_CardinalityType
    <3> QED
      BY <2>0, <2>1, <3>1, <3>2
  <2> QED
    BY <2>2 DEF P, Q, R
<1> HIDE DEF G
<1>9. Cardinality(Gains(IcpWeight, S)) <= 13
  <2>1. Cardinality(Gains(IcpWeight, S)) <= Cardinality(G)
    BY <1>4, <1>8, FS_Subset
  <2>2. Cardinality(Gains(IcpWeight, S)) \in Nat /\ Cardinality(G) \in Nat
    BY <1>3, <1>8, SpreadFinite, FS_CardinalityType
  <2> QED
    BY <1>8, <2>1, <2>2
<1>10. Cardinality(Gains(IcpWeight, S)) \in Nat /\ Cardinality(Losses(IcpWeight, S)) \in Nat
  BY <1>3, SpreadFinite, FS_CardinalityType
<1>11. SumOver(IcpWeight, S) \in Int /\ SumOver(IcpWeight, S) <= 13
  BY <1>9, <1>10 DEF SumOver
<1> QED
  BY <1>2, <1>11 DEF S

\* Which is a fit of 7 at most, and 18 points.
LEMMA FitPointsType ==
  ASSUME company.known \in SUBSET Facts
  PROVE  FitPoints \in 0..18
<1> DEFINE n == SumOver(IcpWeight, IcpSignals)
           k == IcpFit(IcpSignals)
<1>1. n \in Int /\ n <= 13
  BY GainsOfCompany
<1>2. k \in 0..10
  BY GainsOfCompany, IcpFitType
<1>3. k = Larger(0, Smaller(10, RoundDiv(10 * n, 18)))
  BY DEF IcpFit
<1>4. FitPoints = RoundDiv(25 * k, 10)
  BY DEF FitPoints
<1> HIDE DEF n, k
<1>5. RoundDiv(10 * n, 18) <= RoundDiv(130, 18) /\ RoundDiv(10 * n, 18) \in Int
  <2>1. 10 * n \in Int /\ 10 * n <= 130
    BY <1>1
  <2> QED
    BY <2>1, RoundDivOrder
<1>6. RoundDiv(130, 18) = 7 /\ RoundDiv(175, 10) = 18
  BY DEF RoundDiv
<1>7. k <= 7
  BY <1>3, <1>5, <1>6 DEF Larger, Smaller
<1>8. RoundDiv(25 * k, 10) <= RoundDiv(175, 10)
  BY <1>2, <1>7, RoundDivOrder
<1>9. RoundDiv(25 * k, 10) \in Int /\ RoundDiv(25 * k, 10) >= 0
  BY <1>2, RoundDivType
<1> QED
  BY <1>4, <1>6, <1>8, <1>9

\* Meetings are worth at most 5 points.
LEMMA HistoryType == company.lead \in BOOLEAN /\ company.meetings \in Nat => History \in 0..5
<1> SUFFICES ASSUME company.lead \in BOOLEAN, company.meetings \in Nat PROVE History \in 0..5
  OBVIOUS
<1>1. RoundDiv(15 * company.meetings, 10) \in Int /\ RoundDiv(15 * company.meetings, 10) >= 0
  BY RoundDivType
<1> QED
  BY <1>1 DEF History, Smaller

\* What is hiring is worth something: numbers, when nothing is, none.
LEMMA HiringPoints ==
  ASSUME HiringOK
  PROVE  /\ IntentPoints \in 0..30 /\ RecencyPoints10 \in 0..100
         /\ Live = {} => IntentPoints = 0 /\ RecencyPoints10 = 0
<1>1. CASE Live = {}
  BY <1>1 DEF IntentPoints, TopPoints, RecencyPoints10
<1>2. CASE Live # {}
  <2> DEFINE S == {hiring[p].score : p \in Live}
             F == {hiring[p].fresh : p \in Live}
             top == Max(S)
  <2>1. S \in SUBSET (0..100) /\ F \in SUBSET (0..100)
    BY DEF HiringOK, Live
  <2>2. S # {} /\ F # {}
    BY <1>2
  <2>6. /\ IntentPoints = IF IntentCategory(top) \in {"high_value", "medium_value"}
                            THEN Smaller(30, RoundDiv(3 * top, 10)) ELSE 0
        /\ RecencyPoints10 = Max(F)
    BY <1>2 DEF IntentPoints, TopPoints, RecencyPoints10
  <2> HIDE DEF S, F
  <2>3. top \in 0..100 /\ Max(F) \in 0..100
    BY <2>1, <2>2, MaxType
  <2> HIDE DEF top
  <2>4. RoundDiv(3 * top, 10) \in Int /\ RoundDiv(3 * top, 10) >= 0
    BY <2>3, RoundDivType
  <2>5. Smaller(30, RoundDiv(3 * top, 10)) \in 0..30
    BY <2>4 DEF Smaller
  <2> QED
    BY <1>2, <2>3, <2>5, <2>6
<1> QED
  BY <1>1, <1>2

\* A tier is one of five; 649 tenths are none that has a company called, 899 not A+.
LEMMA TierType ==
  ASSUME NEW n \in Nat
  PROVE  TierOf(n) \in 1..5 /\ (n <= 649 => TierOf(n) > 3) /\ (n <= 899 => TierOf(n) > 1)
  BY DEF TierOf

-----------------------------------------------------------------------------
\* Scoring a company.
LEMMA ScoreStep ==
  ASSUME Researched, ScoreSignals \/ ScoreProblem \/ ScoreWrite
  PROVE  ScoresOK'
<1>0. ScoresOK /\ report \in DOMAIN Severity
  BY DEF Researched, StudiesOK
<1>1. /\ company.known \in SUBSET Facts /\ company.lead \in BOOLEAN /\ company.meetings \in Nat
      /\ HiringOK
  BY ResearchAssumption DEF Researched, CompanyOK
<1>2. CASE ScoreSignals
  <2> DEFINE n == FitPoints + IntentPoints
             hires == (Live # {})
  <2>1. scorer' = [at |-> "problem", points |-> n, hires |-> hires] /\ scored' = scored
    BY <1>2 DEF ScoreSignals
  <2>2. hires \in BOOLEAN
    OBVIOUS
  <2>3. n \in Nat /\ n <= 48 /\ (~hires => n <= 18)
    <3>1. FitPoints \in 0..18
      BY <1>1, FitPointsType
    <3>2. IntentPoints \in 0..30 /\ (Live = {} => IntentPoints = 0)
      BY <1>1, HiringPoints
    <3> HIDE DEF Live
    <3> QED
      BY <3>1, <3>2
  <2> HIDE DEF n, hires
  <2> QED
    BY <1>0, <2>1, <2>2, <2>3 DEF ScoresOK, Modest, CalledWasHiring
<1>3. CASE ScoreProblem
  <2> DEFINE n == Severity[report] + Contact
  <2>1. Severity[report] \in 0..20 /\ Contact \in 0..10
    BY <1>0 DEF Severity, Contact
  <2>2. scorer.points \in Nat
    BY <1>0 DEF ScoresOK, Modest
  <2>3. /\ scorer'.at = "write" /\ scorer'.hires = scorer.hires /\ scored' = scored
        /\ scorer'.points = scorer.points + Severity[report] + Contact
        /\ DOMAIN scorer' = DOMAIN scorer /\ scorer.at = "problem"
    BY <1>0, <1>3 DEF ScoreProblem, ScoresOK
  <2>4. scorer'.points = scorer.points + n /\ n \in 0..30
    BY <2>1, <2>2, <2>3
  <2> HIDE DEF n
  <2> QED
    BY <1>0, <2>2, <2>3, <2>4 DEF ScoresOK, Modest, CalledWasHiring
<1>4. CASE ScoreWrite
  <2> DEFINE total10 == Larger(0, Smaller(1000, 10 * (scorer.points + History) + RecencyPoints10))
             late == (Live # {})
  <2>1. scorer' = NotScoring /\ scorer.at = "write"
    BY <1>4 DEF ScoreWrite
  <2>2. scored' = IF company.lead THEN [tier |-> TierOf(total10), first |-> scorer.hires, late |-> late]
                                  ELSE scored
    BY <1>4 DEF ScoreWrite
  <2>3. late \in BOOLEAN /\ scorer.hires \in BOOLEAN
    BY <1>0 DEF ScoresOK
  <2>a. scorer.points \in Nat /\ scorer.points <= IF scorer.hires THEN 78 ELSE 48
    BY <1>0, <2>1 DEF ScoresOK, Modest
  <2>b. History \in 0..5
    BY <1>1, HistoryType
  <2>c. RecencyPoints10 \in 0..100 /\ (~late => RecencyPoints10 = 0)
    BY <1>1, HiringPoints
  <2> HIDE DEF late
  <2>d. total10 \in Nat /\ (~scorer.hires => total10 <= 630) /\ (~late => total10 <= 830)
    BY <2>a, <2>b, <2>c DEF Larger, Smaller
  <2> HIDE DEF total10
  <2>4. /\ TierOf(total10) \in 1..5
        /\ ~scorer.hires => TierOf(total10) > 3
        /\ ~late => TierOf(total10) > 1
    BY <2>d, TierType
  <2>5. /\ scored' \in [tier : 1..5, first : BOOLEAN, late : BOOLEAN]
        /\ scored'.tier <= 3 => scored'.first
        /\ scored'.tier = 1 => scored'.late
    <3>1. CASE company.lead
      BY <2>2, <2>3, <2>4, <3>1
    <3>2. CASE ~company.lead
      BY <1>0, <2>2, <3>2 DEF ScoresOK, CalledWasHiring
    <3> QED
      BY <3>1, <3>2
  <2> QED
    BY <2>1, <2>5 DEF ScoresOK, Modest, NotScoring, CalledWasHiring
<1> QED
  BY <1>2, <1>3, <1>4

-----------------------------------------------------------------------------
LEMMA ResearchedStep == Researched /\ [ResearchNext]_researchVars => Researched'
<1> SUFFICES ASSUME Researched, [ResearchNext]_researchVars PROVE Researched'
  OBVIOUS
<1>0. HiringOK /\ CompanyOK /\ StudiesOK /\ ScoresOK
  BY DEF Researched
<1>b. UNCHANGED hiring => HiringOK'
  BY <1>0 DEF HiringOK
<1>c. UNCHANGED company => CompanyOK'
  BY <1>0 DEF CompanyOK
<1>d. UNCHANGED <<study, report>> => StudiesOK'
  BY <1>0 DEF StudiesOK
<1>e. UNCHANGED <<scorer, scored>> => ScoresOK'
  BY <1>0 DEF ScoresOK, Modest, CalledWasHiring
<1>1. ASSUME NEW p \in Postings, Upsert(p) \/ Rescore(p) \/ GrowsOld(p)
      PROVE  Researched'
  <2>1. HiringOK'
    BY <1>0, <1>1, HiringStep
  <2>2. UNCHANGED <<company, study, report, scorer, scored>>
    BY <1>1 DEF Upsert, Rescore, GrowsOld
  <2> QED
    BY <1>c, <1>d, <1>e, <2>1, <2>2 DEF Researched
<1>2. ASSUME Learn \/ MeetingHeld PROVE Researched'
  <2>1. CompanyOK'
    <3>1. CASE Learn
      BY <1>0, <3>1 DEF Learn, CompanyOK
    <3>2. CASE MeetingHeld
      BY <1>0, <3>2, ResearchAssumption DEF MeetingHeld, CompanyOK
    <3> QED
      BY <1>2, <3>1, <3>2
  <2>2. UNCHANGED <<hiring, study, report, scorer, scored>>
    BY <1>2 DEF Learn, MeetingHeld
  <2> QED
    BY <1>b, <1>d, <1>e, <2>1, <2>2 DEF Researched
<1>3. ASSUME NEW r \in Analysts,
             \/ Assemble(r) \/ ModelAnswers(r) \/ FallsBack(r)
             \/ Raises(r) \/ Repair(r) \/ StoreReport(r)
      PROVE  Researched'
  <2>1. StudiesOK'
    BY <1>0, <1>3, StudyStep
  <2>2. UNCHANGED <<hiring, company, scorer, scored>>
    BY <1>3 DEF Assemble, ModelAnswers, FallsBack, Drafted, Raises, Repair, StoreReport
  <2> QED
    BY <1>b, <1>c, <1>e, <2>1, <2>2 DEF Researched
<1>4. ASSUME ScoreSignals \/ ScoreProblem \/ ScoreWrite PROVE Researched'
  <2>1. ScoresOK'
    BY <1>4, ScoreStep
  <2>2. UNCHANGED <<hiring, company, study, report>>
    BY <1>4 DEF ScoreSignals, ScoreProblem, ScoreWrite
  <2> QED
    BY <1>b, <1>c, <1>d, <2>1, <2>2 DEF Researched
<1>5. CASE UNCHANGED researchVars
  BY <1>b, <1>c, <1>d, <1>e, <1>5 DEF researchVars, Researched
<1> QED
  BY <1>1, <1>2, <1>3, <1>4, <1>5 DEF ResearchNext

LEMMA ResearchedHolds == ResearchSpec => []Researched
  BY ResearchedInit, ResearchedStep, PTL DEF ResearchSpec

\* Signals, companies, reports and scores stay in their domains.
THEOREM ResearchTypeCorrect == ResearchSpec => []ResearchTypeOK
<1>1. Researched => ResearchTypeOK
  BY DEF Researched, HiringOK, CompanyOK, StudiesOK, ScoresOK, ResearchTypeOK
<1> QED
  BY <1>1, ResearchedHolds, PTL

\* No company gets a tier that has it called unless it was hiring when its signals were
\* first read, nor A+ unless it still was: for any postings, ages and scores of theirs,
\* researchers, problems and meetings.
THEOREM CalledIsHiring == ResearchSpec => []CalledWasHiring
<1>1. Researched => CalledWasHiring
  BY DEF Researched, ScoresOK
<1> QED
  BY <1>1, ResearchedHolds, PTL

=============================================================================
