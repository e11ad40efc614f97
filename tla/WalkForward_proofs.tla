-------------------------- MODULE WalkForward_proofs --------------------------
(***************************************************************************)
(* Proofs about a walk-forward campaign, for every calendar, horizon and   *)
(* panel: what the session lookups name, which labels a fold and a split   *)
(* have seen, and that the gate of a campaign covers its folds.            *)
(***************************************************************************)
EXTENDS WalkForward, FiniteSetLemmas

-----------------------------------------------------------------------------
(* Purge and embargo, on the positions of the panel's dates.               *)

\* The edges of the folds are whole numbers; the last is the end of the panel.
LEMMA FoldEdgeInteger ==
    ASSUME NEW n \in Nat, NEW splits \in Nat \ {0}, NEW k \in Int
    PROVE  FoldEdge(n, splits, k) \in Int
<1>1. n \div splits \in Int
  OBVIOUS
<1> QED
  BY <1>1 DEF FoldEdge

\* A training date before a test date precedes it by more than the lookahead, and
\* one after it follows by more than the embargo, for any choice of test groups
\* (purged_cv.py:61-76 and :187-203).
THEOREM TrainKeepsItsDistance ==
    ASSUME NEW n \in Nat, NEW splits \in Nat \ {0},
           NEW groups \in SUBSET (0 .. splits - 1),
           NEW lookahead \in Nat, NEW embargo \in Nat,
           NEW i \in TrainPositions(n, splits, groups, lookahead, embargo),
           NEW j \in TestPositions(n, splits, groups)
    PROVE  /\ i < j => i + lookahead < j
           /\ j < i => j + embargo < i
           /\ i # j
<1> DEFINE Edge(k) == FoldEdge(n, splits, k)
<1>1. PICK k \in groups : j \in Edge(k) .. Edge(k + 1) - 1
  BY DEF TestPositions
<1>2. Edge(k) \in Int /\ Edge(k + 1) \in Int
  <2>1. k \in Int /\ k + 1 \in Int
    OBVIOUS
  <2> QED
    BY <2>1, FoldEdgeInteger
<1>3. i \in Int /\ j \in Int
  BY <1>1, <1>2 DEF TrainPositions
<1>4. i \notin Edge(k) .. Edge(k + 1) - 1
  BY DEF TrainPositions, TestPositions
<1>5. i \notin Edge(k) - lookahead .. Edge(k) - 1
  BY DEF TrainPositions, Purged
<1>6. i \notin Edge(k + 1) .. Edge(k + 1) + embargo - 1
  BY DEF TrainPositions, Embargoed
<1> HIDE DEF Edge
<1>7. CASE i < j
  BY <1>1, <1>2, <1>3, <1>4, <1>5, <1>7
<1>8. CASE j < i
  BY <1>1, <1>2, <1>3, <1>4, <1>6, <1>8
<1> QED
  BY <1>1, <1>3, <1>4, <1>7, <1>8

-----------------------------------------------------------------------------
(* The session lookups.                                                    *)

CalendarTyped == calendar \in [Days -> Kinds] /\ now \in Nat /\ now <= 24 * LastDay + 23

\* The last of a set of days is its latest, if there is one.
LEMMA LastIsLatest ==
  ASSUME NEW S \in SUBSET Int, NEW d \in S, \A x \in S : x <= d
  PROVE  LastOf(S) = d
<1>1. Max(S) = d
  <2>1. \A x \in S : d >= x
    OBVIOUS
  <2>2. \A k \in S : (\A y \in S : k >= y) => k = d
    OBVIOUS
  <2> QED
    BY <2>1, <2>2 DEF Max
<1> QED
  BY <1>1 DEF LastOf

LEMMA LastOfFinite ==
  ASSUME NEW S \in SUBSET Int, IsFiniteSet(S)
  PROVE  /\ S = {} => LastOf(S) = NoSession
         /\ S # {} => LastOf(S) \in S /\ \A x \in S : x <= LastOf(S)
  BY ExtremesExist DEF LastOf

\* Sets of days between two days are finite.
LEMMA DaysBetween ==
  ASSUME NEW first \in Int, NEW last \in Int, NEW S \in SUBSET (first..last)
  PROVE  S \in SUBSET Int /\ IsFiniteSet(S) /\ Cardinality(S) \in Nat
<1>1. IsFiniteSet(first..last)
  BY FS_Interval
<1>2. IsFiniteSet(S)
  BY <1>1, FS_Subset
<1> QED
  BY <1>2, FS_CardinalityType

\* Where the moment and the date it has in a zone lie.
LEMMA DatesOfMoment ==
  ASSUME CalendarTyped, NEW zone \in -12..20
  PROVE  /\ DateIn(0, now) \in 0..LastDay
         /\ 24 * DateIn(0, now) <= now /\ now < 24 * DateIn(0, now) + 24
         /\ DateIn(zone, now) \in Int
         /\ 24 * DateIn(zone, now) <= now + zone /\ now + zone < 24 * DateIn(zone, now) + 24
         /\ DateIn(zone, now) \in DateIn(0, now) - 1 .. DateIn(0, now) + 1
<1> DEFINE t == DateIn(0, now)
           a == DateIn(zone, now)
<1>1. now \in Nat /\ LastDay \in Nat /\ now <= 24 * LastDay + 23
  BY DayAssumption DEF CalendarTyped
<1>2. t \in Int /\ 24 * t <= now /\ now < 24 * t + 24
  BY <1>1 DEF DateIn
<1>3. a \in Int /\ 24 * a <= now + zone /\ now + zone < 24 * a + 24
  BY <1>1 DEF DateIn
<1> HIDE DEF t, a
<1>4. t \in 0..LastDay /\ a \in t - 1 .. t + 1
  BY <1>1, <1>2, <1>3
<1> QED
  BY <1>2, <1>3, <1>4 DEF t, a

\* A session closes in the afternoon of its own day.
LEMMA CloseOfSession ==
  ASSUME NEW d \in Int
  PROVE  Close(d) \in Int /\ 24 * d + 13 <= Close(d) /\ Close(d) <= 24 * d + 16
  BY DEF Close

\* Which sessions are over today.
LEMMA CompletedToday ==
  ASSUME CalendarTyped
  PROVE  LET today == DateIn(0, now)
         IN  /\ \A d \in Int : d < today => (d \in Completed <=> IsSession(d))
             /\ today \in Completed <=> IsSession(today) /\ now >= Close(today)
             /\ \A d \in Int : d > today => d \notin Completed
<1> DEFINE today == DateIn(0, now)
<1>1. today \in Int /\ 24 * today <= now /\ now < 24 * today + 24 /\ now \in Int
  <2>1. 0 \in -12..20
    OBVIOUS
  <2> QED
    BY <2>1, DatesOfMoment DEF CalendarTyped
<1> HIDE DEF today
<1>2. ASSUME NEW d \in Int, d < today PROVE Close(d) <= now
  BY <1>1, <1>2, CloseOfSession
<1>3. ASSUME NEW d \in Int, d > today PROVE ~(Close(d) <= now)
  BY <1>1, <1>3, CloseOfSession
<1>4. Close(today) \in Int
  BY <1>1, CloseOfSession
<1>5. today \in Completed <=> IsSession(today) /\ now >= Close(today)
  BY <1>1, <1>4 DEF Completed, IsSession
<1>6. \A d \in Int : d < today => (d \in Completed <=> IsSession(d))
  BY <1>2 DEF Completed, IsSession
<1>7. \A d \in Int : d > today => d \notin Completed
  BY <1>3 DEF Completed
<1> QED
  BY <1>5, <1>6, <1>7 DEF today

\* From a zone that is not ahead of an open exchange the same session is named.
LEMMA SameFromEveryZone ==
  ASSUME CalendarTyped, NEW zone \in -12..20, NotAhead(zone),
         LastOf(Completed \cap (DateIn(0, now) - LookbackDays .. DateIn(0, now)))
            >= DateIn(zone, now) - LookbackDays
  PROVE  LastCompletedSession(zone, now) =
            LastOf(Completed \cap (DateIn(0, now) - LookbackDays .. DateIn(0, now)))
<1> DEFINE t == DateIn(0, now)
           a == DateIn(zone, now)
           n == LookbackDays
           done == Completed \cap (t - n .. t)
           between == SessionsBetween(a - n, a - 1)
           over == IsSession(a) /\ now >= Close(a)
           alt == between \cup (IF over THEN {a} ELSE {})
<1>1. /\ t \in Int /\ a \in Int /\ n \in Nat /\ n >= 1 /\ now \in Int
      /\ now + zone < 24 * a + 24 /\ a \in t - 1 .. t + 1
  BY DatesOfMoment, DayAssumption DEF CalendarTyped
<1>2. /\ \A d \in Int : d < t => (d \in Completed <=> IsSession(d))
      /\ t \in Completed <=> IsSession(t) /\ now >= Close(t)
      /\ \A d \in Int : d > t => d \notin Completed
  BY CompletedToday
<1>3. a > t /\ IsSession(t) => now >= Close(t)
  BY DEF NotAhead
<1>4. LastOf(done) >= a - n
  OBVIOUS
<1>5. over => a \in Completed
  BY DEF Completed, IsSession
<1>6. Completed \subseteq Days /\ Days \subseteq Int /\ \A d \in Days : d >= 0
  BY DEF Completed, Days
<1>7. \A d \in Completed : IsSession(d)
  BY DEF Completed
<1>8. LastCompletedSession(zone, now) = IF over THEN a ELSE LastOf(between)
  BY DEF LastCompletedSession
<1>9. t \in Completed => now >= 24 * t + 13
  BY <1>1, <1>2, CloseOfSession
<1>10. \A d \in between : d \in a - n .. a - 1 /\ IsSession(d)
  BY DEF SessionsBetween
<1>11. \A d \in a - n .. a - 1 : IsSession(d) => d \in between
  BY DEF SessionsBetween
<1>12. between \in SUBSET Int /\ IsFiniteSet(between)
  <2>1. between \in SUBSET (a - n .. a - 1)
    BY <1>10
  <2>2. a - n \in Int /\ a - 1 \in Int
    BY <1>1
  <2> DEFINE lo == a - n
             hi == a - 1
  <2>3. lo \in Int /\ hi \in Int /\ between \in SUBSET (lo..hi)
    BY <2>1, <2>2
  <2> HIDE DEF a, n, between, lo, hi
  <2> QED
    BY <2>3, DaysBetween
<1>13. done \in SUBSET Int /\ IsFiniteSet(done)
  <2>1. t - n \in Int /\ done \in SUBSET (t - n .. t)
    BY <1>1
  <2> HIDE DEF t, n, done
  <2> QED
    BY <1>1, <2>1, DaysBetween
<1>14. a \in Completed => over
  BY DEF Completed
<1> HIDE DEF t, a, n, between, over
<1>15. \A d \in alt : d \in Completed /\ d >= a - n
  <2>1. ASSUME NEW d \in between PROVE d \in Completed /\ d >= a - n
    <3>1. d \in Int /\ d >= a - n /\ d <= a - 1 /\ IsSession(d)
      BY <1>1, <1>10
    <3>2. CASE d < t
      BY <1>2, <3>1, <3>2
    <3>3. CASE ~(d < t)
      <4>1. d = t /\ a > t
        BY <1>1, <3>1, <3>3
      <4> QED
        BY <1>2, <1>3, <3>1, <4>1
    <3> QED
      BY <3>2, <3>3
  <2>2. over => a \in Completed /\ a >= a - n
    BY <1>1, <1>5
  <2> QED
    BY <2>1, <2>2
<1>16. \A d \in Completed : d >= a - n => d \in alt
  <2> SUFFICES ASSUME NEW d \in Completed, d >= a - n PROVE d \in alt
    OBVIOUS
  <2>1. d \in Int /\ d <= t
    BY <1>1, <1>2, <1>6
  <2>2. CASE d <= a - 1
    BY <1>1, <1>7, <1>11, <2>1, <2>2
  <2>3. CASE d = a
    BY <1>14, <2>3
  <2>4. CASE d > a
    <3>1. d = t /\ a = t - 1
      BY <1>1, <2>1, <2>4
    <3>2. now >= 24 * t + 13
      BY <1>9, <3>1
    <3> QED
      BY <1>1, <3>1, <3>2
  <2> QED
    BY <1>1, <2>1, <2>2, <2>3, <2>4
<1>17. alt \in SUBSET Int
  BY <1>1, <1>12
<1>18. LastOf(alt) = LastCompletedSession(zone, now)
  <2>1. CASE over
    <3>1. a \in alt /\ \A d \in alt : d <= a
      BY <1>1, <1>10, <2>1
    <3>2. LastOf(alt) = a
      <4> HIDE DEF alt
      <4> QED
        BY <1>17, <3>1, LastIsLatest
    <3> QED
      BY <1>8, <2>1, <3>2
  <2>2. CASE ~over
    <3>1. alt = between
      BY <2>2
    <3> QED
      BY <1>8, <2>2, <3>1
  <2> QED
    BY <2>1, <2>2
<1>19. LastOf(alt) = LastOf(done)
  <2>1. CASE done # {}
    <3> DEFINE l == LastOf(done)
    <3>1. l \in done /\ \A d \in done : d <= l
      BY <1>13, <2>1, LastOfFinite
    <3>2. l \in Completed /\ l >= t - n /\ l >= a - n
      BY <1>1, <1>4, <3>1
    <3>3. l \in alt
      BY <1>16, <3>2
    <3>4. \A d \in alt : d <= l
      <4> SUFFICES ASSUME NEW d \in alt PROVE d <= l
        OBVIOUS
      <4>1. d \in Completed /\ d \in Int /\ d <= t
        BY <1>1, <1>2, <1>15, <1>17
      <4>2. l \in Int
        BY <1>6, <3>2
      <4>3. CASE d >= t - n
        BY <1>1, <3>1, <4>1, <4>3
      <4>4. CASE d < t - n
        <5> HIDE DEF l
        <5> QED
          BY <1>1, <3>2, <4>1, <4>2, <4>4
      <4> QED
        BY <1>1, <4>1, <4>3, <4>4
    <3> HIDE DEF alt, l
    <3>5. LastOf(alt) = l
      BY <1>17, <3>3, <3>4, LastIsLatest
    <3> QED
      BY <3>5 DEF l
  <2>2. CASE done = {}
    <3>1. LastOf(done) = NoSession
      BY <2>2 DEF LastOf
    <3>2. -1 >= a - n
      BY <1>4, <3>1 DEF NoSession
    <3>3. alt = {}
      <4> SUFFICES ASSUME NEW d \in alt PROVE FALSE
        OBVIOUS
      <4>0. d \in Completed /\ d \in Days
        BY <1>6, <1>15
      <4>1. d \in Int /\ d >= 0 /\ d <= t
        BY <1>1, <1>2, <1>6, <4>0
      <4>2. d \notin done
        BY <2>2
      <4>3. ~(d >= t - n)
        BY <1>1, <4>0, <4>1, <4>2
      <4> QED
        BY <1>1, <3>2, <4>1, <4>3
    <3>4. LastOf(alt) = NoSession
      BY <3>3 DEF LastOf
    <3> QED
      BY <3>1, <3>4
  <2> QED
    BY <2>1, <2>2
<1> QED
  BY <1>18, <1>19 DEF t, n

\* Both ways of looking for the previous session end at the same one.
LEMMA PreviousIsPrevious ==
  ASSUME NEW d \in Int
  PROVE  PreviousSession(d) = PreviousSessionFromCalendar(d)
<1> DEFINE n == LookbackDays
           between == SessionsBetween(d - n, d - 1)
           steps == {k \in 1..n : IsSession(d - k)}
<1>1. n \in Nat
  BY DayAssumption
<1>2. steps \in SUBSET Int /\ IsFiniteSet(steps)
  <2>1. steps \in SUBSET (1..n) /\ 1 \in Int /\ n \in Int
    BY <1>1
  <2> HIDE DEF steps, n
  <2> QED
    BY <2>1, DaysBetween
<1>3. \A x \in between : d - x \in steps /\ x \in Int
  <2> SUFFICES ASSUME NEW x \in between PROVE d - x \in steps /\ x \in Int
    OBVIOUS
  <2>1. x \in d - n .. d - 1 /\ IsSession(x)
    BY DEF SessionsBetween
  <2>2. x \in Int /\ d - x \in 1..n /\ d - (d - x) = x
    BY <1>1, <2>1
  <2> QED
    BY <2>1, <2>2
<1>4. \A k \in steps : d - k \in between
  <2> SUFFICES ASSUME NEW k \in steps PROVE d - k \in between
    OBVIOUS
  <2>1. k \in 1..n /\ IsSession(d - k) /\ d - k \in d - n .. d - 1
    BY <1>1
  <2> QED
    BY <2>1 DEF SessionsBetween
<1>5. PreviousSession(d) = LastOf(between)
  BY DEF PreviousSession
<1>6. PreviousSessionFromCalendar(d) = IF steps = {} THEN NoSession ELSE d - Min(steps)
  BY DEF PreviousSessionFromCalendar
<1> HIDE DEF between, steps, n
<1>7. CASE steps = {}
  <2>1. between = {}
    BY <1>3, <1>7
  <2> QED
    BY <1>5, <1>6, <1>7, <2>1 DEF LastOf
<1>8. CASE steps # {}
  <2>1. Min(steps) \in steps /\ \A k \in steps : Min(steps) <= k
    BY <1>2, <1>8, ExtremesExist
  <2> DEFINE x == d - Min(steps)
  <2>2. x \in between /\ between \in SUBSET Int
    BY <1>3, <1>4, <2>1
  <2>3. \A y \in between : y <= x
    <3> SUFFICES ASSUME NEW y \in between PROVE y <= x
      OBVIOUS
    <3>1. y \in Int /\ d - y \in steps /\ Min(steps) \in Int
      BY <1>2, <1>3, <2>1
    <3>2. Min(steps) <= d - y
      BY <2>1, <3>1
    <3> QED
      BY <3>1, <3>2
  <2> HIDE DEF x
  <2>4. LastOf(between) = x
    BY <2>2, <2>3, LastIsLatest
  <2> QED
    BY <1>5, <1>6, <1>8, <2>4 DEF x
<1> QED
  BY <1>7, <1>8

\* At any moment of any calendar the lookups agree.
LEMMA LookupsAgreeNow == CalendarTyped => LookupsAgree
<1> SUFFICES ASSUME CalendarTyped PROVE LookupsAgree
  OBVIOUS
<1> DEFINE t == DateIn(0, now)
           n == LookbackDays
           last == LastOf(Completed \cap (t - n .. t))
<1>1. /\ t \in 0..LastDay /\ 24 * t <= now /\ now < 24 * t + 24
      /\ n \in Nat /\ n >= 1 /\ now \in Int
  <2>1. 0 \in -12..20
    OBVIOUS
  <2> QED
    BY <2>1, DatesOfMoment, DayAssumption DEF CalendarTyped
<1>2. \A zone \in Zones : NotAhead(zone) /\ last >= DateIn(zone, now) - n =>
          LastCompletedSession(zone, now) = last
  BY SameFromEveryZone, ZoneAssumption
<1>3. PreviousSession(t) = PreviousSessionFromCalendar(t)
  <2>1. t \in Int
    BY <1>1
  <2> QED
    BY <2>1, PreviousIsPrevious
<1>4. Close(t) \in Int /\ Open(t) \in Int /\ Open(t) < Close(t)
  <2>1. t \in Int
    BY <1>1
  <2> HIDE DEF t
  <2> QED
    BY <2>1, CloseOfSession DEF Open
<1>5. LastCompletedSession(0, now) = IF IsSession(t) /\ now >= Close(t) THEN t ELSE PreviousSession(t)
  BY DEF LastCompletedSession, PreviousSession
<1>6. Contains(t, now) \/ (IsSession(t) /\ now < Open(t)) =>
        LastCompletedSession(0, now) = PreviousSession(t)
  <2> HIDE DEF t
  <2> QED
    BY <1>1, <1>4, <1>5 DEF Contains
<1> DEFINE through == SessionsBetween(t - n, t)
           before == SessionsBetween(t - n, t - 1)
<1>7. /\ \A d \in through : d \in Int /\ d <= t
      /\ IsSession(t) => t \in through
      /\ ~IsSession(t) => through = before
  <2>1. \A d : d \in through <=> d \in t - n .. t /\ IsSession(d)
    BY DEF SessionsBetween
  <2>2. \A d : d \in before <=> d \in t - n .. t - 1 /\ IsSession(d)
    BY DEF SessionsBetween
  <2> HIDE DEF t, n, through, before
  <2>3. \A d \in through : d \in Int /\ d <= t
    BY <1>1, <2>1
  <2>4. IsSession(t) => t \in through
    BY <1>1, <2>1
  <2>5. ASSUME ~IsSession(t) PROVE through = before
    <3>1. \A d \in t - n .. t : d # t => d \in t - n .. t - 1
      BY <1>1
    <3>2. \A d \in t - n .. t - 1 : d \in t - n .. t
      BY <1>1
    <3> QED
      BY <2>1, <2>2, <2>5, <3>1, <3>2
  <2> QED
    BY <2>3, <2>4, <2>5
<1>8. ~IsSession(t) \/ now >= Close(t) => LastCompletedSession(0, now) = SessionKey(t)
  <2>1. SessionKey(t) = LastOf(through)
    BY DEF SessionKey
  <2>2. PreviousSession(t) = LastOf(before)
    BY DEF PreviousSession
  <2>3. CASE ~IsSession(t)
    BY <1>5, <1>7, <2>1, <2>2, <2>3
  <2>4. CASE IsSession(t) /\ now >= Close(t)
    <3>1. through \in SUBSET Int
      BY <1>7
    <3> HIDE DEF t, through
    <3>2. LastOf(through) = t
      BY <1>7, <2>4, <3>1, LastIsLatest
    <3> QED
      BY <1>5, <2>1, <2>4, <3>2
  <2> QED
    BY <2>3, <2>4
<1>9. LET d == LastCompletedAlwaysOpen(now)
      IN  24 * (d + 1) <= now + UtcOffset /\ now + UtcOffset < 24 * (d + 2)
  BY <1>1, ZoneAssumption DEF LastCompletedAlwaysOpen, DateIn
<1> HIDE DEF t, n, last
<1> QED
  BY <1>2, <1>3, <1>6, <1>8, <1>9 DEF LookupsAgree, t, n, last

\* The clock stays within the modelled days, whichever hours are looked at.
LEMMA CalendarKept == CalendarTyped /\ [Next]_vars => CalendarTyped' /\ now' \in Nat /\ now <= now'
<1> SUFFICES ASSUME CalendarTyped, [Next]_vars
             PROVE  CalendarTyped' /\ now' \in Nat /\ now <= now'
  OBVIOUS
<1>1. CASE Tick
  <2> DEFINE S == {m \in now + 1 .. now + 24 : m % 24 \in Hours}
             end == 24 * LastDay + 23
  <2>1. now \in Nat /\ end \in Nat /\ now <= end
    BY DayAssumption DEF CalendarTyped
  <2>2. PICK m \in now + 1 .. end : m % 24 \in Hours
    BY <1>1 DEF Tick
  <2> DEFINE k == now + 1 + ((m - now - 1) % 24)
  <2>3. k \in now + 1 .. now + 24 /\ k <= m /\ k % 24 = m % 24
    <3> DEFINE x == m - now - 1
               r == x % 24
               j == x \div 24
    <3>1. x \in Nat /\ x = m - now - 1
      BY <2>1, <2>2
    <3> HIDE DEF x
    <3>2. j \in Nat /\ r \in 0..23 /\ x = 24 * j + r
      BY <3>1
    <3>3. k = now + 1 + r
      BY DEF x
    <3> HIDE DEF j, r, k
    <3>4. k \in now + 1 .. now + 24 /\ k \in Nat /\ m = k + 24 * j
      BY <2>1, <2>2, <3>1, <3>2, <3>3
    <3>5. k <= m /\ k % 24 = m % 24
      BY <3>2, <3>4
    <3> QED
      BY <3>4, <3>5
  <2>4. k \in S
    BY <2>2, <2>3
  <2>5. S \in SUBSET Int /\ IsFiniteSet(S)
    <3> DEFINE lo == now + 1
               hi == now + 24
    <3>1. S \in SUBSET (lo..hi) /\ lo \in Int /\ hi \in Int
      BY <2>1
    <3> HIDE DEF S, lo, hi
    <3> QED
      BY <3>1, DaysBetween
  <2>6. now' = Min(S) /\ calendar' = calendar
    BY <1>1 DEF Tick
  <2>7. Min(S) \in S /\ Min(S) <= k
    <3> HIDE DEF S, k
    <3> QED
      BY <2>4, <2>5, ExtremesExist
  <2>8. Min(S) \in Int /\ now + 1 <= Min(S)
    BY <2>1, <2>7
  <2> HIDE DEF S, k
  <2>9. now' \in Nat /\ now <= now' /\ now' <= end
    BY <2>1, <2>2, <2>3, <2>6, <2>7, <2>8
  <2> QED
    BY <2>6, <2>9 DEF CalendarTyped
<1>2. CASE UNCHANGED <<calendar, now>>
  BY <1>2 DEF CalendarTyped
<1> QED
  BY <1>1, <1>2 DEF Next, Ingest, Train, vars

LEMMA CalendarBegins == Init => CalendarTyped
<1> SUFFICES ASSUME Init PROVE CalendarTyped
  OBVIOUS
<1>1. calendar \in [Days -> Kinds] /\ now = Min(Hours)
  BY CalendarAssumption DEF Init, CalendarInit
<1>2. Hours \in SUBSET Int /\ IsFiniteSet(Hours)
  <2>1. Hours \in SUBSET (0..23) /\ 0 \in Int /\ 23 \in Int
    BY HourAssumption
  <2> QED
    BY <2>1, DaysBetween
<1>3. Min(Hours) \in 0..23
  BY <1>2, HourAssumption, ExtremesExist
<1> QED
  BY <1>1, <1>3, DayAssumption DEF CalendarTyped

\* The lookups agree at every moment of every calendar, from whatever zone that is
\* not ahead of an open exchange: market_calendar.py.
THEOREM LookupsNeverDisagree == Spec => []LookupsAgree
<1>1. CalendarTyped /\ [Next]_vars => CalendarTyped'
  BY CalendarKept
<1> QED
  BY <1>1, CalendarBegins, LookupsAgreeNow, PTL DEF Spec

-----------------------------------------------------------------------------
(* Business days.                                                          *)

Within(P, first, last) == P \cap (first..last)

\* A day more on either side adds itself to the count, if it is one of those counted.
LEMMA CountsGrow ==
  ASSUME NEW P, NEW a \in Int, NEW b \in Int, a <= b + 1
  PROVE  /\ Cardinality(Within(P, a, b)) \in Nat
         /\ b + 1 \in P => Cardinality(Within(P, a, b + 1)) = Cardinality(Within(P, a, b)) + 1
         /\ b + 1 \notin P => Within(P, a, b + 1) = Within(P, a, b)
         /\ a - 1 \in P => Cardinality(Within(P, a - 1, b)) = Cardinality(Within(P, a, b)) + 1
         /\ a - 1 \notin P => Within(P, a - 1, b) = Within(P, a, b)
<1> DEFINE W == Within(P, a, b)
           up == b + 1
           down == a - 1
<1>1. W \in SUBSET (a..b)
  BY DEF Within
<1>2. IsFiniteSet(W) /\ Cardinality(W) \in Nat
  <2> HIDE DEF W
  <2> QED
    BY <1>1, DaysBetween
<1>3. up \in Int /\ down \in Int /\ \A x \in Int : (x \in a..up <=> x \in a..b \/ x = up)
                                             /\ (x \in down..b <=> x \in a..b \/ x = down)
  OBVIOUS
<1>4. up \notin W /\ down \notin W
  BY <1>1
<1>5. \A x \in a..b : x \in Int
  OBVIOUS
<1> HIDE DEF up, down
<1>6. Within(P, a, up) = IF up \in P THEN W \cup {up} ELSE W
  <2>1. \A x : x \in Within(P, a, up) <=> x \in P /\ (x \in a..b \/ x = up)
    BY <1>3, <1>5 DEF Within
  <2>2. \A x : x \in W <=> x \in P /\ x \in a..b
    BY DEF Within
  <2> QED
    BY <2>1, <2>2
<1>7. Within(P, down, b) = IF down \in P THEN W \cup {down} ELSE W
  <2>1. \A x : x \in Within(P, down, b) <=> x \in P /\ (x \in a..b \/ x = down)
    BY <1>3, <1>5 DEF Within
  <2>2. \A x : x \in W <=> x \in P /\ x \in a..b
    BY DEF Within
  <2> QED
    BY <2>1, <2>2
<1> HIDE DEF W
<1>8. /\ Cardinality(W \cup {up}) = Cardinality(W) + 1
      /\ Cardinality(W \cup {down}) = Cardinality(W) + 1
  BY <1>2, <1>4, FS_AddElement
<1> QED
  BY <1>2, <1>6, <1>7, <1>8 DEF W, up, down

Weekdays == {d \in Int : Weekday(d)}

\* The first weekday after a day, and the first before it, are three days off at most.
LEMMA NextWeekday ==
  ASSUME NEW d \in Int
  PROVE  /\ d % 7 < 4 => d + 1 \in Weekdays /\ (d + 1) % 7 = (d % 7) + 1
         /\ d % 7 = 4 => d + 1 \notin Weekdays /\ d + 2 \notin Weekdays /\ d + 3 \in Weekdays /\ (d + 3) % 7 = 0
         /\ d % 7 = 5 => d + 1 \notin Weekdays /\ d + 2 \in Weekdays /\ (d + 2) % 7 = 0
         /\ d % 7 = 6 => d + 1 \in Weekdays /\ (d + 1) % 7 = 0
         /\ d % 7 \in 0..6
  BY DEF Weekdays, Weekday

LEMMA PreviousWeekday ==
  ASSUME NEW d \in Int
  PROVE  /\ d % 7 \in 1..5 => d - 1 \in Weekdays /\ (d - 1) % 7 = (d % 7) - 1
         /\ d % 7 = 0 => d - 1 \notin Weekdays /\ d - 2 \notin Weekdays /\ d - 3 \in Weekdays /\ (d - 3) % 7 = 4
         /\ d % 7 = 6 => d - 1 \notin Weekdays /\ d - 2 \in Weekdays /\ (d - 2) % 7 = 4
         /\ d % 7 \in 0..6
  BY DEF Weekdays, Weekday

\* From a day on, d + BDay(n) is found among the days the operator looks at.
LEMMA NthWeekdayAfter ==
  ASSUME NEW d \in Int, NEW n \in Nat \ {0}
  PROVE  \E x \in d + 1 .. d + 2 * n + 5 :
            x \in Weekdays /\ Cardinality(Within(Weekdays, d + 1, x)) = n
<1> DEFINE W(x) == Within(Weekdays, d + 1, x)
           Reached(k, x) == /\ x \in Int /\ x >= d + 1 /\ x \in Weekdays
                            /\ Cardinality(W(x)) = k
                            /\ 5 * (x - d) + 2 * (x % 7) <= 7 * k + 8
           Good == {k \in Nat : \E x : Reached(k + 1, x)}
<1>1. \A x \in Int : x >= d =>
         /\ Cardinality(W(x)) \in Nat
         /\ x + 1 \in Weekdays => Cardinality(W(x + 1)) = Cardinality(W(x)) + 1
         /\ x + 1 \notin Weekdays => W(x + 1) = W(x)
  <2> SUFFICES ASSUME NEW x \in Int, x >= d
               PROVE  /\ Cardinality(W(x)) \in Nat
                      /\ x + 1 \in Weekdays => Cardinality(W(x + 1)) = Cardinality(W(x)) + 1
                      /\ x + 1 \notin Weekdays => W(x + 1) = W(x)
    OBVIOUS
  <2> DEFINE a == d + 1
  <2>1. a \in Int /\ a <= x + 1
    OBVIOUS
  <2> HIDE DEF a
  <2>2. /\ Cardinality(Within(Weekdays, a, x)) \in Nat
        /\ x + 1 \in Weekdays => Cardinality(Within(Weekdays, a, x + 1)) = Cardinality(Within(Weekdays, a, x)) + 1
        /\ x + 1 \notin Weekdays => Within(Weekdays, a, x + 1) = Within(Weekdays, a, x)
    BY <2>1, CountsGrow
  <2> QED
    BY <2>2 DEF a
<1>2. Cardinality(W(d)) = 0
  <2>1. W(d) = {}
    BY DEF Within
  <2> QED
    BY <2>1, FS_EmptySet
<1> HIDE DEF W
\* The next weekday after x is counted once.
<1>3. ASSUME NEW x \in Int, x >= d, NEW k \in Nat, Cardinality(W(x)) = k
      PROVE  \E y \in Int : /\ y > x /\ y \in Weekdays /\ Cardinality(W(y)) = k + 1
                            /\ \/ x % 7 < 4 /\ y = x + 1 /\ y % 7 = (x % 7) + 1
                               \/ x % 7 = 4 /\ y = x + 3 /\ y % 7 = 0
                               \/ x % 7 = 5 /\ y = x + 2 /\ y % 7 = 0
                               \/ x % 7 = 6 /\ y = x + 1 /\ y % 7 = 0
  <2>1. CASE x % 7 < 4 \/ x % 7 = 6
    <3>1. x + 1 \in Weekdays /\ Cardinality(W(x + 1)) = k + 1
      BY <1>1, <1>3, <2>1, NextWeekday
    <3> QED
      BY <2>1, <3>1, NextWeekday
  <2>2. CASE x % 7 = 5
    <3>1. x + 1 \notin Weekdays /\ x + 2 \in Weekdays /\ (x + 2) % 7 = 0
      BY <2>2, NextWeekday
    <3> DEFINE u == x + 1
    <3>2. u \in Int /\ u >= d /\ u + 1 = x + 2 /\ Cardinality(W(u)) = k
      BY <1>1, <1>3, <3>1
    <3> HIDE DEF u
    <3>3. Cardinality(W(x + 2)) = k + 1
      BY <1>1, <3>1, <3>2
    <3> QED
      BY <2>2, <3>1, <3>3
  <2>3. CASE x % 7 = 4
    <3>1. x + 1 \notin Weekdays /\ x + 2 \notin Weekdays /\ x + 3 \in Weekdays /\ (x + 3) % 7 = 0
      BY <2>3, NextWeekday
    <3> DEFINE u == x + 1
               v == x + 2
    <3>2. u \in Int /\ u >= d /\ u + 1 = v /\ Cardinality(W(u)) = k
      BY <1>1, <1>3, <3>1
    <3>3. v \in Int /\ v >= d /\ v + 1 = x + 3 /\ v \notin Weekdays /\ v + 1 \in Weekdays
      BY <1>3, <3>1
    <3> HIDE DEF u, v
    <3>4. Cardinality(W(v)) = k
      BY <1>1, <3>2, <3>3
    <3>5. Cardinality(W(x + 3)) = k + 1
      BY <1>1, <3>3, <3>4
    <3> QED
      BY <2>3, <3>1, <3>5
  <2> QED
    BY <2>1, <2>2, <2>3, NextWeekday
<1>4. 0 \in Good
  <2>1. PICK y \in Int : /\ y > d /\ y \in Weekdays /\ Cardinality(W(y)) = 0 + 1
                         /\ \/ d % 7 < 4 /\ y = d + 1 /\ y % 7 = (d % 7) + 1
                            \/ d % 7 = 4 /\ y = d + 3 /\ y % 7 = 0
                            \/ d % 7 = 5 /\ y = d + 2 /\ y % 7 = 0
                            \/ d % 7 = 6 /\ y = d + 1 /\ y % 7 = 0
    BY <1>2, <1>3
  <2>2. d % 7 \in 0..6
    OBVIOUS
  <2>3. 5 * (y - d) + 2 * (y % 7) <= 7 * 1 + 8
    BY <2>1, <2>2
  <2>4. Reached(0 + 1, y)
    BY <2>1, <2>3
  <2> QED
    BY <2>4
<1>5. ASSUME NEW k \in Nat, k \in Good PROVE k + 1 \in Good
  <2>1. PICK x : Reached(k + 1, x)
    BY <1>5
  <2>2. PICK y \in Int : /\ y > x /\ y \in Weekdays /\ Cardinality(W(y)) = (k + 1) + 1
                         /\ \/ x % 7 < 4 /\ y = x + 1 /\ y % 7 = (x % 7) + 1
                            \/ x % 7 = 4 /\ y = x + 3 /\ y % 7 = 0
                            \/ x % 7 = 5 /\ y = x + 2 /\ y % 7 = 0
                            \/ x % 7 = 6 /\ y = x + 1 /\ y % 7 = 0
    BY <1>3, <2>1
  <2>3. x % 7 < 5
    BY <2>1 DEF Weekdays, Weekday
  <2>4. 5 * (y - d) + 2 * (y % 7) <= 5 * (x - d) + 2 * (x % 7) + 7
    <3>1. x % 7 \in Int /\ x \in Int
      BY <2>1
    <3>2. CASE x % 7 < 4
      BY <2>2, <3>1, <3>2
    <3>3. CASE x % 7 = 4
      BY <2>2, <3>1, <3>3
    <3> QED
      BY <2>3, <3>1, <3>2, <3>3
  <2>5. x % 7 \in Int /\ y % 7 \in Int
    BY <2>1
  <2>6. Reached((k + 1) + 1, y)
    BY <2>1, <2>2, <2>4, <2>5
  <2> QED
    BY <2>6
<1>6. n - 1 \in Nat /\ (n - 1) + 1 = n
  OBVIOUS
<1> HIDE DEF Good
<1>7. n - 1 \in Good
  BY <1>4, <1>5, <1>6, NatSetInduction
<1>8. PICK x : Reached(n, x)
  BY <1>6, <1>7 DEF Good
<1>9. x \in d + 1 .. d + 2 * n + 5
  <2>1. x % 7 \in 0..6
    BY <1>8
  <2> QED
    BY <1>8, <2>1
<1> QED
  BY <1>8, <1>9 DEF W

\* And so is d - BDay(n) among the days the operator looks at.
LEMMA NthWeekdayBefore ==
  ASSUME NEW d \in Int, NEW n \in Nat \ {0}
  PROVE  \E x \in d - 2 * n - 5 .. d - 1 :
            x \in Weekdays /\ Cardinality(Within(Weekdays, x, d - 1)) = n
<1> DEFINE W(x) == Within(Weekdays, x, d - 1)
           Reached(k, x) == /\ x \in Int /\ x <= d - 1 /\ x \in Weekdays
                            /\ Cardinality(W(x)) = k
                            /\ 5 * (d - x) + 2 * (4 - (x % 7)) <= 7 * k + 8
           Good == {k \in Nat : \E x : Reached(k + 1, x)}
<1>1. \A x \in Int : x <= d =>
         /\ Cardinality(W(x)) \in Nat
         /\ x - 1 \in Weekdays => Cardinality(W(x - 1)) = Cardinality(W(x)) + 1
         /\ x - 1 \notin Weekdays => W(x - 1) = W(x)
  <2> SUFFICES ASSUME NEW x \in Int, x <= d
               PROVE  /\ Cardinality(W(x)) \in Nat
                      /\ x - 1 \in Weekdays => Cardinality(W(x - 1)) = Cardinality(W(x)) + 1
                      /\ x - 1 \notin Weekdays => W(x - 1) = W(x)
    OBVIOUS
  <2> DEFINE b == d - 1
  <2>1. b \in Int /\ x <= b + 1
    OBVIOUS
  <2> HIDE DEF b
  <2>2. /\ Cardinality(Within(Weekdays, x, b)) \in Nat
        /\ x - 1 \in Weekdays => Cardinality(Within(Weekdays, x - 1, b)) = Cardinality(Within(Weekdays, x, b)) + 1
        /\ x - 1 \notin Weekdays => Within(Weekdays, x - 1, b) = Within(Weekdays, x, b)
    BY <2>1, CountsGrow
  <2> QED
    BY <2>2 DEF b
<1>2. Cardinality(W(d)) = 0
  <2>1. W(d) = {}
    BY DEF Within
  <2> QED
    BY <2>1, FS_EmptySet
<1> HIDE DEF W
\* The last weekday before x is counted once.
<1>3. ASSUME NEW x \in Int, x <= d, NEW k \in Nat, Cardinality(W(x)) = k
      PROVE  \E y \in Int : /\ y < x /\ y \in Weekdays /\ Cardinality(W(y)) = k + 1
                            /\ \/ x % 7 \in 1..5 /\ y = x - 1 /\ y % 7 = (x % 7) - 1
                               \/ x % 7 = 0 /\ y = x - 3 /\ y % 7 = 4
                               \/ x % 7 = 6 /\ y = x - 2 /\ y % 7 = 4
  <2>1. CASE x % 7 \in 1..5
    <3>1. x - 1 \in Weekdays /\ Cardinality(W(x - 1)) = k + 1
      BY <1>1, <1>3, <2>1, PreviousWeekday
    <3> QED
      BY <2>1, <3>1, PreviousWeekday
  <2>2. CASE x % 7 = 6
    <3>1. x - 1 \notin Weekdays /\ x - 2 \in Weekdays /\ (x - 2) % 7 = 4
      BY <2>2, PreviousWeekday
    <3> DEFINE u == x - 1
    <3>2. u \in Int /\ u <= d /\ u - 1 = x - 2 /\ Cardinality(W(u)) = k
      BY <1>1, <1>3, <3>1
    <3> HIDE DEF u
    <3>3. Cardinality(W(x - 2)) = k + 1
      BY <1>1, <3>1, <3>2
    <3> QED
      BY <2>2, <3>1, <3>3
  <2>3. CASE x % 7 = 0
    <3>1. x - 1 \notin Weekdays /\ x - 2 \notin Weekdays /\ x - 3 \in Weekdays /\ (x - 3) % 7 = 4
      BY <2>3, PreviousWeekday
    <3> DEFINE u == x - 1
               v == x - 2
    <3>2. u \in Int /\ u <= d /\ u - 1 = v /\ Cardinality(W(u)) = k
      BY <1>1, <1>3, <3>1
    <3>3. v \in Int /\ v <= d /\ v - 1 = x - 3 /\ v \notin Weekdays /\ v - 1 \in Weekdays
      BY <1>3, <3>1
    <3> HIDE DEF u, v
    <3>4. Cardinality(W(v)) = k
      BY <1>1, <3>2, <3>3
    <3>5. Cardinality(W(x - 3)) = k + 1
      BY <1>1, <3>3, <3>4
    <3> QED
      BY <2>3, <3>1, <3>5
  <2> QED
    BY <2>1, <2>2, <2>3, PreviousWeekday
<1>4. 0 \in Good
  <2>1. PICK y \in Int : /\ y < d /\ y \in Weekdays /\ Cardinality(W(y)) = 0 + 1
                         /\ \/ d % 7 \in 1..5 /\ y = d - 1 /\ y % 7 = (d % 7) - 1
                            \/ d % 7 = 0 /\ y = d - 3 /\ y % 7 = 4
                            \/ d % 7 = 6 /\ y = d - 2 /\ y % 7 = 4
    BY <1>2, <1>3
  <2>2. d % 7 \in 0..6
    OBVIOUS
  <2>3. 5 * (d - y) + 2 * (4 - (y % 7)) <= 7 * 1 + 8
    BY <2>1, <2>2
  <2>4. Reached(0 + 1, y)
    BY <2>1, <2>3
  <2> QED
    BY <2>4
<1>5. ASSUME NEW k \in Nat, k \in Good PROVE k + 1 \in Good
  <2>1. PICK x : Reached(k + 1, x)
    BY <1>5
  <2>2. PICK y \in Int : /\ y < x /\ y \in Weekdays /\ Cardinality(W(y)) = (k + 1) + 1
                         /\ \/ x % 7 \in 1..5 /\ y = x - 1 /\ y % 7 = (x % 7) - 1
                            \/ x % 7 = 0 /\ y = x - 3 /\ y % 7 = 4
                            \/ x % 7 = 6 /\ y = x - 2 /\ y % 7 = 4
    BY <1>3, <2>1
  <2>3. x % 7 < 5
    BY <2>1 DEF Weekdays, Weekday
  <2>4. 5 * (d - y) + 2 * (4 - (y % 7)) <= 5 * (d - x) + 2 * (4 - (x % 7)) + 7
    <3>1. x % 7 \in Int /\ x \in Int
      BY <2>1
    <3>2. CASE x % 7 \in 1..4
      BY <2>2, <3>1, <3>2
    <3>3. CASE x % 7 = 0
      BY <2>2, <3>1, <3>3
    <3> QED
      BY <2>3, <3>1, <3>2, <3>3
  <2>5. x % 7 \in Int /\ y % 7 \in Int
    BY <2>1
  <2>6. Reached((k + 1) + 1, y)
    BY <2>1, <2>2, <2>4, <2>5
  <2> QED
    BY <2>6
<1>6. n - 1 \in Nat /\ (n - 1) + 1 = n
  OBVIOUS
<1> HIDE DEF Good
<1>7. n - 1 \in Good
  BY <1>4, <1>5, <1>6, NatSetInduction
<1>8. PICK x : Reached(n, x)
  BY <1>6, <1>7 DEF Good
<1>9. x \in d - 2 * n - 5 .. d - 1
  <2>1. x % 7 \in 0..6
    BY <1>8
  <2> QED
    BY <1>8, <2>1
<1> QED
  BY <1>8, <1>9 DEF W

\* d + BDay(n) is the n-th weekday after d.
LEMMA AddBDayCounts ==
  ASSUME NEW d \in Int, NEW n \in Nat \ {0}
  PROVE  /\ AddBDay(d, n) \in Int /\ AddBDay(d, n) > d /\ AddBDay(d, n) \in Weekdays
         /\ Cardinality(Within(Weekdays, d + 1, AddBDay(d, n))) = n
<1> DEFINE P(x) == Weekday(x) /\ Cardinality({y \in d + 1 .. x : Weekday(y)}) = n
           S == d + 1 .. d + 2 * n + 5
<1>1. \A x : {y \in d + 1 .. x : Weekday(y)} = Within(Weekdays, d + 1, x)
  BY DEF Within, Weekdays
<1>2. \E x \in S : P(x)
  BY <1>1, NthWeekdayAfter DEF Weekdays
<1>3. AddBDay(d, n) = CHOOSE x \in S : P(x)
  BY DEF AddBDay
<1> HIDE DEF S, P
<1>4. AddBDay(d, n) \in S /\ P(AddBDay(d, n))
  BY <1>2, <1>3
<1>5. AddBDay(d, n) \in Int /\ AddBDay(d, n) > d
  BY <1>4 DEF S
<1> QED
  BY <1>1, <1>4, <1>5 DEF P, Weekdays

\* d - BDay(n) is the n-th weekday before d.
LEMMA SubBDayCounts ==
  ASSUME NEW d \in Int, NEW n \in Nat \ {0}
  PROVE  /\ SubBDay(d, n) \in Int /\ SubBDay(d, n) < d /\ SubBDay(d, n) \in Weekdays
         /\ Cardinality(Within(Weekdays, SubBDay(d, n), d - 1)) = n
<1> DEFINE P(x) == Weekday(x) /\ Cardinality({y \in x .. d - 1 : Weekday(y)}) = n
           S == d - 2 * n - 5 .. d - 1
<1>1. \A x : {y \in x .. d - 1 : Weekday(y)} = Within(Weekdays, x, d - 1)
  BY DEF Within, Weekdays
<1>2. \E x \in S : P(x)
  BY <1>1, NthWeekdayBefore DEF Weekdays
<1>3. SubBDay(d, n) = CHOOSE x \in S : P(x)
  BY DEF SubBDay
<1> HIDE DEF S, P
<1>4. SubBDay(d, n) \in S /\ P(SubBDay(d, n))
  BY <1>2, <1>3
<1>5. SubBDay(d, n) \in Int /\ SubBDay(d, n) < d
  BY <1>4 DEF S
<1> QED
  BY <1>1, <1>4, <1>5 DEF P, Weekdays

-----------------------------------------------------------------------------
(* Labels.                                                                 *)

SessionDays == {d \in Int : IsSession(d)}

LEMMA SessionsAreWithin ==
  ASSUME NEW first \in Int, NEW last \in Int
  PROVE  SessionsBetween(first, last) = Within(SessionDays, first, last)
  BY DEF SessionsBetween, Within, SessionDays

\* Once n sessions have passed, a label of horizon n is known.
LEMMA LabelIsKnown ==
  ASSUME NEW a \in Int, NEW b \in Int, b <= LastDay, NEW n \in Nat \ {0},
         Cardinality(Within(SessionDays, a + 1, b)) >= n
  PROVE  LabelEnd(a, n) <= b /\ LabelEnd(a, n) \in Int
<1> DEFINE from == a + 1
           C(x) == Cardinality(Within(SessionDays, from, x))
           reached == {x \in from .. b : C(x) >= n}
           ends == {x \in from .. LastDay : IsSession(x) /\ Cardinality(SessionsBetween(from, x)) = n}
<1>1. LabelEnd(a, n) = IF ends = {} THEN LastDay + 1 ELSE Min(ends)
  BY DEF LabelEnd
<1>2. from \in Int /\ LastDay \in Int
  BY DayAssumption
<1>3. C(b) >= n
  OBVIOUS
<1> HIDE DEF from
<1>4. \A x \in Int : x < from => C(x) = 0
  <2> SUFFICES ASSUME NEW x \in Int, x < from PROVE C(x) = 0
    OBVIOUS
  <2>1. Within(SessionDays, from, x) = {}
    BY <1>2 DEF Within
  <2> QED
    BY <2>1, FS_EmptySet
<1>5. \A x \in Int : x + 1 >= from =>
         /\ C(x) \in Nat
         /\ x + 1 \in SessionDays => C(x + 1) = C(x) + 1
         /\ x + 1 \notin SessionDays => C(x + 1) = C(x)
  BY <1>2, CountsGrow
<1> HIDE DEF C
<1>6. b >= from
  <2>1. CASE b < from
    BY <1>3, <1>4, <2>1
  <2> QED
    BY <1>2, <2>1
<1>7. b \in reached /\ reached \in SUBSET Int /\ IsFiniteSet(reached)
  <2>1. b \in reached /\ reached \in SUBSET (from .. b)
    BY <1>2, <1>3, <1>6
  <2> HIDE DEF reached
  <2> QED
    BY <1>2, <2>1, DaysBetween
<1> DEFINE m == Min(reached)
<1>8. m \in reached /\ \A x \in reached : m <= x
  <2> HIDE DEF reached
  <2> QED
    BY <1>7, ExtremesExist
<1>9. m \in Int /\ m >= from /\ m <= b /\ C(m) >= n
  BY <1>2, <1>8
<1>10. m - 1 \in Int /\ (m - 1) + 1 = m /\ C(m - 1) \in Nat /\ ~(C(m - 1) >= n)
  <2>1. m - 1 \in Int /\ (m - 1) + 1 = m
    BY <1>9
  <2>2. C(m - 1) \in Nat
    BY <1>2, <1>5, <1>9, <2>1
  <2>3. CASE m - 1 < from
    <3>1. C(m - 1) = 0
      BY <1>4, <2>1, <2>3
    <3> QED
      BY <2>1, <2>2, <3>1
  <2>4. CASE m - 1 >= from
    <3>1. m - 1 \notin reached
      BY <1>8, <1>9
    <3>2. m - 1 \in from .. b
      BY <1>2, <1>9, <2>4
    <3> QED
      BY <2>1, <2>2, <3>1, <3>2
  <2> QED
    BY <1>2, <1>9, <2>3, <2>4
<1> HIDE DEF m, reached
<1>11. m \in SessionDays /\ C(m) = n
  <2>1. /\ m \in SessionDays => C(m) = C(m - 1) + 1
        /\ m \notin SessionDays => C(m) = C(m - 1)
    BY <1>2, <1>5, <1>9, <1>10
  <2> QED
    BY <1>9, <1>10, <2>1
<1>12. m \in ends
  <2>1. SessionsBetween(from, m) = Within(SessionDays, from, m)
    BY <1>2, <1>9, SessionsAreWithin
  <2>2. m \in from .. LastDay
    BY <1>2, <1>9
  <2> QED
    BY <1>11, <2>1, <2>2 DEF C, SessionDays
<1>13. ends \in SUBSET Int /\ IsFiniteSet(ends)
  <2>1. ends \in SUBSET (from .. LastDay)
    OBVIOUS
  <2> HIDE DEF ends
  <2> QED
    BY <1>2, <2>1, DaysBetween
<1> HIDE DEF ends
<1>14. Min(ends) \in ends /\ Min(ends) <= m
  BY <1>12, <1>13, ExtremesExist
<1>15. ends # {} /\ Min(ends) \in Int
  BY <1>12, <1>13, <1>14
<1>16. LabelEnd(a, n) = Min(ends)
  BY <1>1, <1>15
<1> QED
  BY <1>9, <1>14, <1>15, <1>16

-----------------------------------------------------------------------------
(* The panel and the folds.                                                *)

\* The panel has dates of completed sessions only.
PanelTyped ==
    /\ ingested \in Int /\ ingested >= NoSession
    /\ \A d \in Dates : d \in Days /\ IsSession(d) /\ panel[d] \in {"thin", "full"}

\* A campaign trains its folds on the panel its gate has passed.
FoldsAreGated ==
    \/ folds = <<>>
    \/ \E c1, c2 \in Cutoffs, e1, e2 \in BOOLEAN, today \in Int :
          /\ folds = <<FoldOf(c1, e1), FoldOf(c2, e2)>>
          /\ FreshEnough(Max({FoldOf(c1, e1).dataEnd, FoldOf(c2, e2).dataEnd}), today)

CampaignIInv == CalendarTyped /\ PanelTyped /\ FoldsAreGated

\* The last completed session is a session of the calendar, if there is one.
LEMMA LastCompletedIsSession ==
  ASSUME CalendarTyped, LastCompletedSession(0, now) # NoSession
  PROVE  /\ LastCompletedSession(0, now) \in Days
         /\ IsSession(LastCompletedSession(0, now))
<1> DEFINE t == DateIn(0, now)
           S == SessionsBetween(t - LookbackDays, t - 1)
<1>1. t \in Int /\ LookbackDays \in Int
  <2>1. 0 \in -12..20
    OBVIOUS
  <2> QED
    BY <2>1, DatesOfMoment, DayAssumption
<1>2. LastCompletedSession(0, now) = IF IsSession(t) /\ now >= Close(t) THEN t ELSE LastOf(S)
  BY DEF LastCompletedSession
<1>3. S \in SUBSET Int /\ IsFiniteSet(S) /\ \A d \in S : IsSession(d)
  <2> DEFINE lo == t - LookbackDays
             hi == t - 1
  <2>1. lo \in Int /\ hi \in Int /\ S \in SUBSET (lo..hi) /\ \A d \in S : IsSession(d)
    BY <1>1 DEF SessionsBetween
  <2> HIDE DEF S, lo, hi
  <2> QED
    BY <2>1, DaysBetween
<1> HIDE DEF S
<1>4. LastOf(S) # NoSession => IsSession(LastOf(S))
  <2>1. CASE S = {}
    BY <1>3, <2>1, LastOfFinite
  <2>2. CASE S # {}
    BY <1>3, <2>2, LastOfFinite
  <2> QED
    BY <2>1, <2>2
<1> QED
  BY <1>2, <1>4 DEF IsSession

LEMMA CampaignBegins == Init => CampaignIInv
<1> SUFFICES ASSUME Init PROVE CampaignIInv
  OBVIOUS
<1>1. CalendarTyped
  BY CalendarBegins
<1>2. PanelTyped
  <2>1. Dates = {}
    BY DEF Init, Dates
  <2> QED
    BY <2>1 DEF Init, PanelTyped, NoSession
<1>3. FoldsAreGated
  BY DEF Init, FoldsAreGated
<1> QED
  BY <1>1, <1>2, <1>3 DEF CampaignIInv

LEMMA CampaignKept == CampaignIInv /\ [Next]_vars => CampaignIInv'
<1> SUFFICES ASSUME CampaignIInv, [Next]_vars PROVE CampaignIInv'
  OBVIOUS
<1>1. CalendarTyped'
  BY CalendarKept DEF CampaignIInv
<1>2. CASE Ingest
  <2> DEFINE d == LastCompletedSession(0, now)
  <2>1. /\ folds = <<>> /\ folds' = folds /\ calendar' = calendar
        /\ d > ingested /\ ingested' = d
        /\ \/ panel' = panel
           \/ \E rows \in {"thin", "full"} :
                panel' = [x \in Dates \cup {d} |-> IF x = d THEN rows ELSE panel[x]]
    BY <1>2 DEF Ingest
  <2>2. d \in Days /\ IsSession(d) /\ d \in Int /\ d >= NoSession
    <3>1. d # NoSession
      BY <2>1 DEF CampaignIInv, PanelTyped, NoSession
    <3>2. d \in Days /\ IsSession(d)
      <4> HIDE DEF d
      <4> QED
        BY <3>1, LastCompletedIsSession DEF CampaignIInv, d
    <3> QED
      BY <3>2, DayAssumption DEF Days, NoSession
  <2>3. PanelTyped
    BY DEF CampaignIInv
  <2> HIDE DEF d
  <2>4. \A x \in Dates' : x \in Days /\ IsSession(x)' /\ panel'[x] \in {"thin", "full"}
    <3>1. \A x : IsSession(x)' <=> IsSession(x)
      BY <2>1 DEF IsSession
    <3>2. CASE panel' = panel
      BY <2>3, <3>1, <3>2 DEF PanelTyped, Dates
    <3>3. CASE \E rows \in {"thin", "full"} :
                  panel' = [x \in Dates \cup {d} |-> IF x = d THEN rows ELSE panel[x]]
      <4>1. PICK rows \in {"thin", "full"} :
               panel' = [x \in Dates \cup {d} |-> IF x = d THEN rows ELSE panel[x]]
        BY <3>3
      <4>2. Dates' = Dates \cup {d}
        BY <4>1 DEF Dates
      <4>3. \A x \in Dates \cup {d} : panel'[x] = IF x = d THEN rows ELSE panel[x]
        BY <4>1
      <4> QED
        BY <2>2, <2>3, <3>1, <4>2, <4>3 DEF PanelTyped
    <3> QED
      BY <2>1, <3>2, <3>3
  <2>5. PanelTyped'
    BY <2>1, <2>2, <2>4 DEF PanelTyped, NoSession
  <2>6. FoldsAreGated'
    BY <2>1 DEF FoldsAreGated
  <2> QED
    BY <1>1, <2>5, <2>6 DEF CampaignIInv
<1>3. CASE Train
  <2>1. calendar' = calendar /\ now' = now /\ panel' = panel /\ ingested' = ingested
    BY <1>3 DEF Train
  <2>2. PanelTyped'
    BY <2>1 DEF CampaignIInv, PanelTyped, Dates, IsSession
  <2>3. PICK c1 \in Cutoffs, c2 \in Cutoffs, e1 \in BOOLEAN, e2 \in BOOLEAN :
          /\ FreshEnough(Max({FoldOf(c1, e1).dataEnd, FoldOf(c2, e2).dataEnd}), Today)
          /\ folds' = <<FoldOf(c1, e1), FoldOf(c2, e2)>>
    BY <1>3 DEF Train
  <2>4. Dates' = Dates
    BY <2>1 DEF Dates
  <2>5. FoldOf(c1, e1)' = FoldOf(c1, e1) /\ FoldOf(c2, e2)' = FoldOf(c2, e2)
    BY <2>4 DEF FoldOf
  <2>6. \A r, t : FreshEnough(r, t)' <=> FreshEnough(r, t)
    BY <2>1, <2>4 DEF FreshEnough, GapDates
  <2>7. Today \in Int
    <3>1. 0 \in -12..20
      OBVIOUS
    <3>2. CalendarTyped
      BY DEF CampaignIInv
    <3> QED
      BY <3>1, <3>2, DatesOfMoment DEF Today
  <2>8. FoldsAreGated'
    <3>1. folds' = <<FoldOf(c1, e1)', FoldOf(c2, e2)'>>
      BY <2>3, <2>5
    <3> DEFINE need == Max({FoldOf(c1, e1).dataEnd, FoldOf(c2, e2).dataEnd})
    <3>2. need' = need
      BY <2>5
    <3>3. PICK r, t : r = need /\ t = Today
      OBVIOUS
    <3>4. FreshEnough(r, t)
      BY <2>3, <3>3
    <3>5. FreshEnough(r, t)'
      BY <2>6, <3>4
    <3>6. need' = r /\ t \in Int
      BY <2>7, <3>2, <3>3
    <3>7. FreshEnough(need, t)'
      BY <3>5, <3>6 DEF FreshEnough, GapDates
    <3> QED
      BY <3>1, <3>6, <3>7 DEF FoldsAreGated
  <2> QED
    BY <1>1, <2>2, <2>8 DEF CampaignIInv
<1>4. CASE UNCHANGED <<panel, ingested, folds, calendar>>
  <2>1. Dates' = Dates
    BY <1>4 DEF Dates
  <2>2. PanelTyped'
    BY <1>4, <2>1 DEF CampaignIInv, PanelTyped, IsSession
  <2>3. CASE folds = <<>>
    <3>1. FoldsAreGated'
      BY <1>4, <2>3 DEF FoldsAreGated
    <3> QED
      BY <1>1, <2>2, <3>1 DEF CampaignIInv
  <2>4. CASE folds # <<>>
    <3>1. PICK c1 \in Cutoffs, c2 \in Cutoffs, e1 \in BOOLEAN, e2 \in BOOLEAN, today \in Int :
            /\ folds = <<FoldOf(c1, e1), FoldOf(c2, e2)>>
            /\ FreshEnough(Max({FoldOf(c1, e1).dataEnd, FoldOf(c2, e2).dataEnd}), today)
      BY <2>4 DEF CampaignIInv, FoldsAreGated
    <3>2. FoldOf(c1, e1)' = FoldOf(c1, e1) /\ FoldOf(c2, e2)' = FoldOf(c2, e2)
      BY <2>1 DEF FoldOf
    <3> DEFINE need == Max({FoldOf(c1, e1).dataEnd, FoldOf(c2, e2).dataEnd})
    <3>3. need' = need
      BY <3>2
    <3>4. FreshEnough(need, today)'
      BY <1>4, <2>1, <3>1, <3>3 DEF FreshEnough, GapDates
    <3>5. FoldsAreGated'
      BY <1>4, <3>1, <3>2, <3>4 DEF FoldsAreGated
    <3> QED
      BY <1>1, <2>2, <3>5 DEF CampaignIInv
  <2> QED
    BY <2>3, <2>4
<1> QED
  BY <1>2, <1>3, <1>4 DEF Next, vars, Tick

\* What a campaign trains on is what its gate has passed, for every calendar, horizon
\* and panel: the inductive invariant of a campaign.
THEOREM CampaignInductive == Spec => []CampaignIInv
  BY CampaignBegins, CampaignKept, PTL DEF Spec

\* What the manifest says of a fold: its feature cutoff is where its data end, and
\* safe_last_label_date is as many weekdays later as its labels are long.
FoldIsTrue(fold) ==
    /\ fold.cutoff \in Int /\ fold.lookahead = Lookahead /\ fold.dataEnd \in Int
    /\ fold.rows = {d \in Dates : d < fold.dataEnd}
    /\ FeatureCutoff(fold) = fold.dataEnd
    /\ SafeLastLabelDate(fold) \in Int /\ SafeLastLabelDate(fold) > fold.dataEnd
    /\ SafeLastLabelDate(fold) \in Weekdays
    /\ Cardinality(Within(Weekdays, fold.dataEnd + 1, SafeLastLabelDate(fold))) = Lookahead

LEMMA TrainedFoldIsTrue ==
  ASSUME NEW c \in Cutoffs, NEW e \in BOOLEAN
  PROVE  FoldIsTrue(FoldOf(c, e))
<1> DEFINE f == FoldOf(c, e)
           end == IF e THEN SubBDay(c, EmbargoDays) ELSE c
<1>1. c \in Days /\ c \in Int /\ c >= 0
  BY CutoffAssumption, DayAssumption DEF Days
<1>2. SubBDay(c, EmbargoDays) \in Int /\ SubBDay(c, EmbargoDays) \in Weekdays
  BY <1>1, HorizonAssumption, SubBDayCounts
<1>3. SubBDay(c, EmbargoDays) # NoDate
  BY <1>2 DEF NoDate, Weekdays, Weekday
<1>4. /\ f.cutoff = c /\ f.lookahead = Lookahead /\ f.dataEnd = end
      /\ f.effective = (IF e THEN end ELSE NoDate)
      /\ f.rows = {d \in Dates : d < end}
  BY DEF FoldOf
<1>5. end \in Int
  BY <1>1, <1>2
<1>6. FeatureCutoff(f) = end
  BY <1>3, <1>4 DEF FeatureCutoff
<1> HIDE DEF f, end
<1>7. Lookahead \in Nat \ {0} /\ Lookahead > 0
  BY HorizonAssumption
<1>8. SafeLastLabelDate(f) = AddBDay(end, Lookahead)
  BY <1>4, <1>6, <1>7 DEF SafeLastLabelDate
<1>9. /\ SafeLastLabelDate(f) \in Int /\ SafeLastLabelDate(f) > end
      /\ SafeLastLabelDate(f) \in Weekdays
      /\ Cardinality(Within(Weekdays, end + 1, SafeLastLabelDate(f))) = Lookahead
  BY <1>5, <1>7, <1>8, AddBDayCounts
<1>10. FoldIsTrue(f)
  BY <1>1, <1>4, <1>5, <1>6, <1>9 DEF FoldIsTrue
<1> QED
  BY <1>10 DEF f

LEMMA FoldsAreTrue ==
  ASSUME CampaignIInv
  PROVE  /\ \A i \in DOMAIN folds : FoldIsTrue(folds[i])
         /\ IsFiniteSet(DOMAIN folds) /\ DOMAIN folds \in SUBSET Int
         /\ folds # <<>> => \E need \in Int, today \in Int :
               FreshEnough(need, today) /\ \A i \in DOMAIN folds : folds[i].dataEnd <= need
<1>0. IsFiniteSet(1..0) /\ IsFiniteSet(1..2)
  <2>1. 0 \in Int /\ 1 \in Int /\ 2 \in Int
    OBVIOUS
  <2> QED
    BY <2>1, FS_Interval
<1>1. CASE folds = <<>>
  <2>1. DOMAIN folds = 1..0
    BY <1>1
  <2> QED
    BY <1>0, <1>1, <2>1
<1>2. CASE folds # <<>>
  <2>1. PICK c1 \in Cutoffs, c2 \in Cutoffs, e1 \in BOOLEAN, e2 \in BOOLEAN, today \in Int :
          /\ folds = <<FoldOf(c1, e1), FoldOf(c2, e2)>>
          /\ FreshEnough(Max({FoldOf(c1, e1).dataEnd, FoldOf(c2, e2).dataEnd}), today)
    BY <1>2 DEF CampaignIInv, FoldsAreGated
  <2> DEFINE f1 == FoldOf(c1, e1)
             f2 == FoldOf(c2, e2)
             ends == {f1.dataEnd, f2.dataEnd}
  <2>2. FoldIsTrue(f1) /\ FoldIsTrue(f2)
    BY TrainedFoldIsTrue
  <2>3. f1.dataEnd \in Int /\ f2.dataEnd \in Int
    BY <2>2 DEF FoldIsTrue
  <2> HIDE DEF f1, f2
  <2>4. IsFiniteSet(ends) /\ ends \in SUBSET Int /\ ends # {}
    <3>1. IsFiniteSet({f1.dataEnd}) /\ IsFiniteSet({f1.dataEnd} \cup {f2.dataEnd})
      BY FS_Singleton, FS_AddElement
    <3>2. ends = {f1.dataEnd} \cup {f2.dataEnd}
      OBVIOUS
    <3> QED
      BY <2>3, <3>1, <3>2
  <2>5. Max(ends) \in ends /\ \A x \in ends : x <= Max(ends)
    <3> HIDE DEF ends
    <3> QED
      BY <2>4, ExtremesExist
  <2>6. Max(ends) \in Int /\ f1.dataEnd <= Max(ends) /\ f2.dataEnd <= Max(ends)
    BY <2>4, <2>5
  <2>7. folds = <<f1, f2>> /\ FreshEnough(Max(ends), today)
    BY <2>1 DEF f1, f2
  <2>8. DOMAIN folds = 1..2 /\ folds[1] = f1 /\ folds[2] = f2
    BY <2>7
  <2> HIDE DEF ends
  <2>9. \A i \in DOMAIN folds : FoldIsTrue(folds[i]) /\ folds[i].dataEnd <= Max(ends)
    BY <2>2, <2>6, <2>8
  <2> QED
    BY <1>0, <2>6, <2>7, <2>8, <2>9
<1> QED
  BY <1>1, <1>2

\* Eligibility is not lost as the days pass, and the choice is among the eligible.
LEMMA ChoiceIsLatest ==
  ASSUME CampaignIInv, NEW today \in Int, EligiblePositions(today) # {}
  PROVE  /\ SelectLatest(today) \in EligiblePositions(today)
         /\ \A i \in EligiblePositions(today) : folds[i].cutoff <= folds[SelectLatest(today)].cutoff
<1> DEFINE E == EligiblePositions(today)
           cuts == {folds[i].cutoff : i \in E}
           latest == Max(cuts)
           those == {i \in E : folds[i].cutoff = latest}
<1>1. /\ \A i \in DOMAIN folds : FoldIsTrue(folds[i])
      /\ IsFiniteSet(DOMAIN folds) /\ DOMAIN folds \in SUBSET Int
  BY FoldsAreTrue
<1>2. E \in SUBSET DOMAIN folds
  BY DEF EligiblePositions
<1>3. IsFiniteSet(E) /\ E \in SUBSET Int
  BY <1>1, <1>2, FS_Subset
<1>4. SelectLatest(today) = Min(those)
  BY DEF SelectLatest
<1> HIDE DEF E
<1>5. \A i \in E : folds[i].cutoff \in Int
  BY <1>1, <1>2 DEF FoldIsTrue
<1>6. IsFiniteSet(cuts) /\ cuts \in SUBSET Int /\ cuts # {}
  <2> DEFINE cut == [i \in E |-> folds[i].cutoff]
  <2>0. cuts = {cut[i] : i \in E} /\ cut \in [E -> cuts]
    OBVIOUS
  <2>1. IsFiniteSet(cuts)
    <3>1. cut \in Surjection(E, cuts)
      BY <2>0 DEF Surjection
    <3> QED
      BY <1>3, <3>1, FS_Surjection
  <2>2. E # {}
    BY DEF E
  <2> QED
    BY <1>5, <2>1, <2>2
<1>7. latest \in cuts /\ \A x \in cuts : x <= latest
  <2> HIDE DEF cuts
  <2> QED
    BY <1>6, ExtremesExist
<1> HIDE DEF latest
<1>8. those # {} /\ those \in SUBSET Int /\ IsFiniteSet(those)
  <2>1. those \in SUBSET E
    OBVIOUS
  <2> QED
    BY <1>3, <1>7, <2>1, FS_Subset
<1>9. Min(those) \in those
  <2> HIDE DEF those
  <2> QED
    BY <1>8, ExtremesExist
<1> QED
  BY <1>4, <1>7, <1>9 DEF E

\* As the days pass the scoring path never goes back to an older fold, for any
\* campaign over any calendar (walk_forward_fold_selection.py:94-120).
THEOREM ScoringNeverGoesBack == Spec => SelectionNeverGoesBack
<1> DEFINE Step == EligiblePositions(Today) # {} =>
                     /\ EligiblePositions(Today)' # {}
                     /\ folds'[SelectLatest(Today)'].cutoff >= folds[SelectLatest(Today)].cutoff
<1>1. CampaignIInv /\ CampaignIInv' /\ [Next]_vars => Step
  <2> SUFFICES ASSUME CampaignIInv, CampaignIInv', [Next]_vars, EligiblePositions(Today) # {}
               PROVE  /\ EligiblePositions(Today)' # {}
                      /\ folds'[SelectLatest(Today)'].cutoff >= folds[SelectLatest(Today)].cutoff
    OBVIOUS
  <2>1. folds # <<>>
    BY DEF EligiblePositions
  <2>2. folds' = folds
    BY <2>1 DEF Next, vars, Ingest, Train
  <2>3. /\ CalendarTyped /\ CalendarTyped' /\ now <= now' /\ now \in Int /\ now' \in Int
    BY CalendarKept DEF CampaignIInv, CalendarTyped
  <2>4. Today \in Int /\ Today' \in Int /\ Today <= Today'
    BY <2>3 DEF Today, DateIn
  <2> DEFINE t == Today
             u == Today'
             i == SelectLatest(t)
             j == SelectLatest(u)
  <2>5. \A k \in DOMAIN folds : SafeLastLabelDate(folds[k]) \in Int /\ folds[k].cutoff \in Int
    BY FoldsAreTrue DEF FoldIsTrue
  <2>6. EligiblePositions(t) \in SUBSET EligiblePositions(u)
    BY <2>4, <2>5 DEF EligiblePositions, IsEligible
  <2>7. EligiblePositions(Today)' = EligiblePositions(u) /\ SelectLatest(Today)' = j
    BY <2>2 DEF EligiblePositions, SelectLatest, IsEligible, SafeLastLabelDate, FeatureCutoff, AddBDay
  <2>8. t \in Int /\ u \in Int
    BY <2>4
  <2> HIDE DEF t, u
  <2>9. EligiblePositions(t) # {}
    BY DEF t
  <2>10. EligiblePositions(u) # {}
    BY <2>6, <2>9
  <2>11. i \in EligiblePositions(t)
    BY <2>8, <2>9, ChoiceIsLatest
  <2>12. j \in EligiblePositions(u) /\ folds[i].cutoff <= folds[j].cutoff
    BY <2>6, <2>8, <2>10, <2>11, ChoiceIsLatest
  <2>13. folds[i].cutoff \in Int /\ folds[j].cutoff \in Int
    BY <2>5, <2>11, <2>12 DEF EligiblePositions
  <2> QED
    BY <2>2, <2>7, <2>10, <2>12, <2>13 DEF t
<1> QED
  BY <1>1, CampaignInductive, PTL DEF Spec, SelectionNeverGoesBack

\* The panel's dates are finitely many days.
LEMMA DatesAreDays ==
  ASSUME PanelTyped
  PROVE  /\ Dates \in SUBSET Int /\ IsFiniteSet(Dates)
         /\ \A d \in Dates : d \in Int /\ d >= 0 /\ d <= LastDay /\ IsSession(d)
         /\ \A S \in SUBSET Dates : S \in SUBSET Int /\ IsFiniteSet(S)
<1>1. 0 \in Int /\ LastDay \in Int
  BY DayAssumption
<1>2. Dates \in SUBSET (0..LastDay) /\ \A d \in Dates : IsSession(d)
  BY DEF PanelTyped, Days
<1>3. Dates \in SUBSET Int /\ IsFiniteSet(Dates)
  BY <1>1, <1>2, DaysBetween
<1>4. ASSUME NEW S \in SUBSET Dates PROVE S \in SUBSET Int /\ IsFiniteSet(S)
  BY <1>3, FS_Subset
<1>5. ASSUME NEW d \in Dates PROVE d \in Int /\ d >= 0 /\ d <= LastDay /\ IsSession(d)
  BY <1>1, <1>2
<1> QED
  BY <1>3, <1>4, <1>5

\* A gate passed for the latest data_end leaves no fold with a hole
\* (training_freshness.py:167-238, called once per campaign).
THEOREM GateCoversEveryFold == Spec => []SlicesAreWhole
<1>1. CampaignIInv => SlicesAreWhole
  <2> SUFFICES ASSUME CampaignIInv, NEW i \in DOMAIN folds
               PROVE  /\ \A d \in folds[i].rows : panel[d] = "full"
                      /\ folds[i].rows # {} =>
                           \A d \in Min(folds[i].rows) .. folds[i].dataEnd - MaxGapDays :
                              \E r \in folds[i].rows : d <= r /\ r < d + MaxGapDays
    BY DEF SlicesAreWhole
  <2> DEFINE end == folds[i].dataEnd
             rows == folds[i].rows
             G == MaxGapDays
  <2>1. end \in Int /\ rows = {d \in Dates : d < end} /\ G \in Int /\ G >= 0
    BY FoldsAreTrue, GateAssumption DEF FoldIsTrue
  <2>2. PICK need \in Int, today \in Int : FreshEnough(need, today) /\ end <= need
    <3>1. folds # <<>>
      OBVIOUS
    <3> QED
      BY <3>1, FoldsAreTrue
  <2>3. /\ Dates \in SUBSET Int /\ IsFiniteSet(Dates)
        /\ \A d \in Dates : d \in Int /\ d >= 0 /\ d <= LastDay /\ IsSession(d)
        /\ \A S \in SUBSET Dates : S \in SUBSET Int /\ IsFiniteSet(S)
    BY DatesAreDays DEF CampaignIInv
  <2> DEFINE after == {d \in Dates : d >= need}
             window == (Dates \ after) \cup (IF after = {} THEN {} ELSE {Min(after)})
  <2>4. /\ Dates # {} /\ Max(Dates) >= need
        /\ \A d \in Dates : d < need => panel[d] = "full"
        /\ NoGapAbove(window, G)
    BY <2>2 DEF FreshEnough, GapDates
  <2> HIDE DEF end, rows, G
  <2>5. \A d \in rows : panel[d] = "full"
    BY <2>1, <2>2, <2>3, <2>4
  <2>6. Max(Dates) \in after
    BY <2>3, <2>4, ExtremesExist
  <2>7. Min(after) \in after
    <3>1. after \in SUBSET Dates /\ after # {}
      BY <2>6
    <3> HIDE DEF after
    <3> QED
      BY <2>3, <3>1, ExtremesExist
  <2>8. /\ window \in SUBSET Dates /\ Min(after) \in window
        /\ \A d \in Dates : d < need => d \in window
        /\ Min(after) \in Int /\ Min(after) >= need
    <3> DEFINE first == Min(after)
    <3>1. first \in Dates /\ first >= need
      BY <2>7
    <3>2. after # {}
      BY <2>6
    <3> HIDE DEF first
    <3>3. window = (Dates \ after) \cup {first}
      BY <3>2 DEF first
    <3>4. window \in SUBSET Dates /\ first \in window
      BY <3>1, <3>3
    <3>5. \A d \in Dates : d < need => d \in window
      <4> SUFFICES ASSUME NEW d \in Dates, d < need PROVE d \in window
        OBVIOUS
      <4>1. d \notin after
        BY <2>2, <2>3
      <4> QED
        BY <3>3, <4>1
    <3> QED
      BY <2>3, <3>1, <3>4, <3>5 DEF first
  <2> HIDE DEF after, window
  <2>9. ASSUME rows # {}, NEW d \in Min(rows) .. end - G
        PROVE  \E r \in rows : d <= r /\ r < d + G
    <3>1. rows \in SUBSET Dates
      BY <2>1
    <3>2. Min(rows) \in rows
      BY <2>3, <2>9, <3>1, ExtremesExist
    <3>3. Min(rows) \in Int /\ Min(rows) < end /\ d \in Int /\ Min(rows) <= d /\ d <= end - G
      <4> DEFINE least == Min(rows)
      <4>1. least \in Int /\ least < end
        BY <2>1, <2>3, <3>1, <3>2
      <4>2. d \in least .. end - G
        BY <2>9
      <4> HIDE DEF least
      <4>3. d \in Int /\ least <= d /\ d <= end - G
        BY <2>1, <4>1, <4>2
      <4> QED
        BY <4>1, <4>3 DEF least
    <3> DEFINE later == {e \in window : e >= d}
               r == Min(later)
    <3>4. Min(after) \in later
      BY <2>1, <2>2, <2>8, <3>3
    <3>5. r \in later /\ \A e \in later : r <= e
      <4>1. later \in SUBSET Dates /\ later # {}
        BY <2>8, <3>4
      <4> HIDE DEF later
      <4> QED
        BY <2>3, <4>1, ExtremesExist
    <3>6. r \in window /\ r >= d /\ r \in Dates /\ r \in Int
      BY <2>3, <2>8, <3>5
    <3> DEFINE earlier == {e \in window : e < r}
               p == Max(earlier)
    <3>7. Min(rows) \in window
      BY <2>1, <2>2, <2>8, <3>1, <3>2, <3>3
    \* The date before r lies before d, so r is less than the gap away.
    <3>8. ASSUME Min(rows) < r PROVE r < d + G
      <4>1. Min(rows) \in earlier
        BY <3>7, <3>8
      <4>2. earlier \in SUBSET Dates /\ earlier # {}
        BY <2>8, <4>1
      <4>3. p \in earlier
        <5> HIDE DEF earlier
        <5> QED
          BY <2>3, <4>2, ExtremesExist
      <4>4. p \in window /\ p < r /\ p \in Int
        BY <2>3, <4>2, <4>3
      <4>5. p < d
        <5>1. ~(r <= p)
          BY <3>6, <4>4
        <5>2. p \notin later
          BY <3>5, <5>1
        <5> QED
          BY <3>3, <4>4, <5>2
      <4>6. r - p <= G
        <5>1. \A x \in window : LET before == {e \in window : e < x}
                                IN  before # {} => x - Max(before) <= G
          BY <2>4 DEF NoGapAbove
        <5> QED
          BY <3>6, <4>2, <5>1
      <4> HIDE DEF r, p
      <4> QED
        BY <2>1, <3>3, <3>6, <4>4, <4>5, <4>6
    <3> HIDE DEF r
    <3>9. CASE Min(rows) < r
      <4>1. r < d + G
        BY <3>8, <3>9
      <4>2. r < end
        BY <2>1, <3>3, <3>6, <4>1
      <4> QED
        BY <2>1, <3>6, <4>1, <4>2
    \* The row itself is the date: the gap is positive, because the gate has seen a
    \* later date within it.
    <3>10. CASE ~(Min(rows) < r)
      <4>1. r = d /\ r = Min(rows)
        BY <3>3, <3>6, <3>10
      <4>2. G > 0
        <5> DEFINE a == Min(after)
                   before == {e \in window : e < a}
        <5>1. a \in window /\ a \in Int /\ a >= need
          BY <2>8
        <5>2. Min(rows) \in before
          BY <2>1, <2>2, <3>3, <3>7, <5>1
        <5>3. Max(before) \in before
          <6>1. before \in SUBSET Dates /\ before # {}
            BY <2>8, <5>2
          <6> HIDE DEF before
          <6> QED
            BY <2>3, <6>1, ExtremesExist
        <5>4. Max(before) \in Int /\ Max(before) < a
          BY <2>3, <2>8, <5>3
        <5>5. a - Max(before) <= G
          <6>1. \A x \in window : LET b == {e \in window : e < x}
                                  IN  b # {} => x - Max(b) <= G
            BY <2>4 DEF NoGapAbove
          <6> QED
            BY <5>1, <5>2, <6>1
        <5> HIDE DEF a, before
        <5> QED
          BY <2>1, <5>1, <5>4, <5>5
      <4>3. d \in rows /\ d <= d /\ d < d + G
        BY <2>1, <3>2, <3>3, <4>1, <4>2
      <4> QED
        BY <4>3
    <3> QED
      BY <3>9, <3>10
  <2> QED
    BY <2>5, <2>9 DEF end, rows, G
<1> QED
  BY <1>1, CampaignInductive, PTL

\* Where no holiday lies, every weekday is a session.
LEMMA NoHolidayNoGap ==
  ASSUME NEW first \in Int, NEW last \in Int, HolidaysBetween(first, last) = {},
         NEW y \in first..last, y \in Weekdays
  PROVE  y \in SessionDays
  BY DEF HolidaysBetween, Weekdays, SessionDays

\* A training row of a walk-forward cut has a label that reaches into the validation
\* period only across a holiday, for every calendar and embargo
\* (walk_forward_splits.py:49-66).
THEOREM CutLeaksOnlyOverHolidays == Spec => []SplitLeaksOnlyOverHolidays
<1>1. CampaignIInv => SplitLeaksOnlyOverHolidays
  <2> SUFFICES ASSUME CampaignIInv, NEW v \in Days, NEW d \in Dates,
                      SplitOf(d, v, LastDay, EmbargoDays) = "train",
                      HolidaysBetween(d, v - 1) = {}
               PROVE  LabelEnd(d, EmbargoDays) < v
    BY DEF SplitLeaksOnlyOverHolidays
  <2> DEFINE s == SubBDay(v, EmbargoDays)
             b == v - 1
             a == d + 1
             S == Within(Weekdays, s, b)
             T == Within(SessionDays, a, b)
  <2>1. d \in Int /\ v \in Int /\ v <= LastDay /\ LastDay \in Int /\ EmbargoDays \in Nat \ {0}
    BY DatesAreDays, DayAssumption, HorizonAssumption DEF CampaignIInv, Days
  <2>2. d < s
    BY DEF SplitOf
  <2>3. s \in Int /\ Cardinality(S) = EmbargoDays
    BY <2>1, SubBDayCounts
  <2>4. b \in Int /\ b <= LastDay /\ a \in Int /\ b < v
    BY <2>1
  <2> HIDE DEF s
  <2>5. S \in SUBSET T
    <3> SUFFICES ASSUME NEW y \in S PROVE y \in T
      OBVIOUS
    <3>1. y \in s..b /\ y \in Weekdays
      BY DEF Within
    <3>2. y \in d..b /\ y \in a..b
      BY <2>1, <2>2, <2>3, <2>4, <3>1
    <3>3. y \in SessionDays
      BY <2>1, <2>4, <3>1, <3>2, NoHolidayNoGap
    <3> QED
      BY <3>2, <3>3 DEF Within
  <2>6. IsFiniteSet(T)
    <3>1. T \in SUBSET (a..b)
      BY DEF Within
    <3> HIDE DEF T, a, b
    <3> QED
      BY <2>4, <3>1, DaysBetween
  <2>7. Cardinality(S) <= Cardinality(T) /\ Cardinality(T) \in Nat
    <3> HIDE DEF S, T
    <3> QED
      BY <2>5, <2>6, SmallerSet
  <2>8. Cardinality(T) >= EmbargoDays
    BY <2>1, <2>3, <2>7
  <2> HIDE DEF S, b
  <2>9. LabelEnd(d, EmbargoDays) <= b /\ LabelEnd(d, EmbargoDays) \in Int
    BY <2>1, <2>4, <2>8, LabelIsKnown
  <2> QED
    BY <2>1, <2>4, <2>9
<1> QED
  BY <1>1, CampaignInductive, PTL

\* The fold that scores has seen no label that is realised on the day or later, for
\* every calendar with not more holidays than the fold's slack between the row and the
\* day (walk_forward_fold_selection.py:42-92).
THEOREM ScoringFoldIsBlind == Spec => []SelectedFoldIsBlind
<1>1. CampaignIInv => SelectedFoldIsBlind
  <2> SUFFICES ASSUME CampaignIInv, EligiblePositions(Today) # {},
                      NEW r \in folds[SelectLatest(Today)].rows,
                      Cardinality(HolidaysBetween(r, Today)) <= Slack(folds[SelectLatest(Today)])
               PROVE  LabelEnd(r, folds[SelectLatest(Today)].lookahead) < Today
    BY DEF SelectedFoldIsBlind
  <2> DEFINE t == Today
             fold == folds[SelectLatest(t)]
             f == fold.dataEnd
             safe == SafeLastLabelDate(fold)
             n == Lookahead
             slack == Slack(fold)
             a == r + 1
             H == HolidaysBetween(r, t)
             S == Within(Weekdays, a, safe)
             T == Within(SessionDays, a, safe)
  <2>1. t \in Int /\ t <= LastDay /\ LastDay \in Int
    <3>1. 0 \in -12..20
      OBVIOUS
    <3> QED
      BY <3>1, DatesOfMoment, DayAssumption DEF CampaignIInv, Today
  <2>2. SelectLatest(t) \in EligiblePositions(t)
    BY <2>1, ChoiceIsLatest
  <2>3. SelectLatest(t) \in DOMAIN folds /\ safe < t
    BY <2>2 DEF EligiblePositions, IsEligible
  <2>4. FoldIsTrue(fold)
    BY <2>3, FoldsAreTrue
  <2>5. /\ fold.lookahead = n /\ f \in Int /\ fold.rows = {d \in Dates : d < f}
        /\ FeatureCutoff(fold) = f /\ safe \in Int /\ safe > f
        /\ Cardinality(Within(Weekdays, f + 1, safe)) = n
    BY <2>4 DEF FoldIsTrue
  <2>6. n \in Nat \ {0}
    BY HorizonAssumption
  <2>7. r \in Dates /\ r < f /\ r \in Int
    BY <2>5, DatesAreDays DEF CampaignIInv
  <2>8. slack = (IF f \in Weekdays THEN 1 ELSE 0)
    BY <2>5 DEF Slack, Weekdays
  <2>9. Cardinality(H) <= slack
    OBVIOUS
  <2> HIDE DEF t, fold, f, safe, n, slack, H
  <2>10. H \in SUBSET (r..t) /\ H = {d \in r..t : Weekday(d) /\ ~IsSession(d)}
    BY DEF H, HolidaysBetween
  <2>11. IsFiniteSet(H) /\ Cardinality(H) \in Nat
    BY <2>1, <2>7, <2>10, DaysBetween
  <2>12. a \in Int /\ safe \in Int /\ a <= f
    BY <2>5, <2>7
  \* The row precedes the cutoff, so the cutoff itself is one of the days after it.
  <2>13. IsFiniteSet(S) /\ Cardinality(S) \in Nat /\ Cardinality(S) >= n + slack
    <3>1. S \in SUBSET (a..safe)
      BY DEF Within
    <3>2. IsFiniteSet(S) /\ Cardinality(S) \in Nat
      <4> HIDE DEF S, a
      <4> QED
        BY <2>12, <3>1, DaysBetween
    <3> DEFINE c == f + 1
               U == Within(Weekdays, c, safe)
               V == Within(Weekdays, f, safe)
    <3>3. c \in Int /\ c - 1 = f /\ c <= safe + 1 /\ Cardinality(U) = n
      BY <2>5
    <3>4. /\ f \in Weekdays => Cardinality(V) = Cardinality(U) + 1
          /\ f \notin Weekdays => V = U
      <4> HIDE DEF c
      <4>1. /\ c - 1 \in Weekdays => Cardinality(Within(Weekdays, c - 1, safe)) = Cardinality(Within(Weekdays, c, safe)) + 1
            /\ c - 1 \notin Weekdays => Within(Weekdays, c - 1, safe) = Within(Weekdays, c, safe)
        BY <2>5, <3>3, CountsGrow
      <4> QED
        BY <3>3, <4>1
    <3>5. Cardinality(V) = n + slack
      BY <2>6, <2>8, <3>3, <3>4
    <3>6. V \in SUBSET S
      BY <2>5, <2>12 DEF Within
    <3>7. Cardinality(V) <= Cardinality(S)
      <4> HIDE DEF S, V
      <4> QED
        BY <3>2, <3>6, SmallerSet
    <3> QED
      BY <2>6, <3>2, <3>5, <3>7
  <2> DEFINE lost == S \ T
  <2>14. T \in SUBSET (a..safe) /\ IsFiniteSet(T) /\ Cardinality(T) \in Nat
    <3>1. T \in SUBSET (a..safe)
      BY DEF Within
    <3> HIDE DEF T, a
    <3> QED
      BY <2>12, <3>1, DaysBetween
  <2>15. lost \in SUBSET H
    <3> SUFFICES ASSUME NEW y \in lost PROVE y \in H
      OBVIOUS
    <3>1. y \in a..safe /\ y \in Weekdays /\ y \notin SessionDays
      BY DEF Within
    <3>2. y \in r..t
      BY <2>1, <2>3, <2>7, <2>12, <3>1
    <3> QED
      BY <2>10, <3>1, <3>2 DEF Weekdays, SessionDays
  <2> DEFINE kept == S \cap T
  <2>16. Cardinality(kept) >= n
    <3> HIDE DEF S, T
    <3>1. lost \in SUBSET S /\ kept = S \ lost
      OBVIOUS
    <3>2. Cardinality(kept) = Cardinality(S) - Cardinality(lost) /\ Cardinality(lost) \in Nat
      BY <2>13, <3>1, SmallerSet
    <3>3. Cardinality(lost) <= Cardinality(H)
      <4> HIDE DEF lost
      <4> QED
        BY <2>11, <2>15, SmallerSet
    <3> HIDE DEF lost, kept
    <3>4. slack \in Int
      BY <2>8
    <3> QED
      BY <2>6, <2>9, <2>11, <2>13, <3>2, <3>3, <3>4
  <2>17. Cardinality(T) >= n
    <3>1. kept \in SUBSET T
      OBVIOUS
    <3> HIDE DEF kept, T
    <3>2. Cardinality(kept) <= Cardinality(T) /\ Cardinality(kept) \in Nat
      BY <2>14, <3>1, SmallerSet
    <3> QED
      BY <2>6, <2>14, <2>16, <3>2
  <2>18. safe <= LastDay
    BY <2>1, <2>3, <2>5
  <2>19. LabelEnd(r, n) <= safe /\ LabelEnd(r, n) \in Int
    BY <2>5, <2>6, <2>7, <2>17, <2>18, LabelIsKnown
  <2>20. LabelEnd(r, n) < t
    BY <2>1, <2>3, <2>5, <2>19
  <2> QED
    BY <2>5, <2>20 DEF fold, t
<1> QED
  BY <1>1, CampaignInductive, PTL

\* The positions of a test group are positions of the panel.
LEMMA TestIsInside ==
  ASSUME NEW n \in Nat, NEW splits \in Nat \ {0}, NEW groups \in SUBSET (0 .. splits - 1),
         NEW j \in TestPositions(n, splits, groups)
  PROVE  j \in 0 .. n - 1
<1> DEFINE q == n \div splits
<1>1. q \in Nat /\ splits * q <= n
  <2> DEFINE r == n % splits
  <2>1. q \in Int /\ r \in 0 .. splits - 1 /\ n = splits * q + r
    OBVIOUS
  <2>2. q >= 0
    <3> DEFINE p == splits * q
    <3>1. ASSUME q <= -1 PROVE p <= -splits
      BY <2>1, <3>1
    <3> HIDE DEF p, q, r
    <3> QED
      BY <2>1, <3>1 DEF p
  <2> HIDE DEF q, r
  <2> QED
    BY <2>1, <2>2
<1> HIDE DEF q
<1>2. PICK k \in groups : j \in FoldEdge(n, splits, k) .. FoldEdge(n, splits, k + 1) - 1
  BY DEF TestPositions
<1>3. k \in Nat /\ k + 1 <= splits
  OBVIOUS
<1>4. FoldEdge(n, splits, k) = k * q /\ k * q \in Nat
  BY <1>1, <1>3 DEF FoldEdge, q
<1>5. FoldEdge(n, splits, k + 1) \in Int /\ FoldEdge(n, splits, k + 1) <= n
  <2>1. CASE k + 1 = splits
    BY <2>1 DEF FoldEdge
  <2>2. CASE k + 1 # splits
    <3>1. FoldEdge(n, splits, k + 1) = (k + 1) * q
      BY <2>2 DEF FoldEdge, q
    <3>2. (k + 1) * q \in Int /\ (k + 1) * q <= splits * q
      <4> DEFINE m == splits - (k + 1)
      <4>1. m \in Nat /\ splits = (k + 1) + m
        BY <1>3
      <4> HIDE DEF m
      <4>2. m * q \in Nat /\ splits * q = (k + 1) * q + m * q
        BY <1>1, <1>3, <4>1
      <4> QED
        BY <1>1, <1>3, <4>2
    <3> QED
      BY <1>1, <3>1, <3>2
  <2> QED
    BY <2>1, <2>2
<1> QED
  BY <1>2, <1>4, <1>5

\* Between two dates of the panel as far apart as this lie so many sessions that the
\* label of the earlier one is known before the later one.
LEMMA LabelsKeepTheirDistance ==
  ASSUME PanelTyped, NEW x \in Dates, NEW y \in Dates, NEW n \in Nat \ {0},
         Cardinality({e \in Dates : e < x}) + n < Cardinality({e \in Dates : e < y})
  PROVE  LabelEnd(x, n) < y
<1> DEFINE A == {e \in Dates : e < x}
           B == {e \in Dates : e < y}
           a == x + 1
           b == y - 1
           S == {e \in Dates : x < e /\ e < y}
           T == Within(SessionDays, a, b)
<1>1. /\ Dates \in SUBSET Int /\ IsFiniteSet(Dates)
      /\ x \in Int /\ y \in Int /\ y <= LastDay /\ LastDay \in Int
      /\ \A d \in Dates : d \in SessionDays
  BY DatesAreDays, DayAssumption DEF SessionDays
<1>2. /\ IsFiniteSet(A) /\ IsFiniteSet(B) /\ IsFiniteSet(S)
      /\ Cardinality(A) \in Nat /\ Cardinality(B) \in Nat /\ Cardinality(S) \in Nat
  <2>1. A \in SUBSET Dates /\ B \in SUBSET Dates /\ S \in SUBSET Dates
    OBVIOUS
  <2> HIDE DEF A, B, S
  <2> QED
    BY <1>1, <2>1, SmallerSet
<1>3. Cardinality(A) + n < Cardinality(B)
  OBVIOUS
<1>4. x < y
  <2>1. ASSUME ~(x < y) PROVE B \in SUBSET A
    <3>1. \A e \in Dates : e \in Int /\ (e < y => e < x)
      BY <1>1, <2>1
    <3> QED
      BY <3>1
  <2>2. B \in SUBSET A => Cardinality(B) <= Cardinality(A)
    <3> HIDE DEF A, B
    <3> QED
      BY <1>2, SmallerSet
  <2> HIDE DEF A, B
  <2> QED
    BY <1>2, <1>3, <2>1, <2>2
<1>5. A \in SUBSET B /\ B \ A = S \cup {x} /\ x \notin S
  <2>1. \A e \in Dates : /\ e < x => e < y
                         /\ e < y /\ ~(e < x) <=> (x < e /\ e < y) \/ e = x
    BY <1>1, <1>4
  <2>2. ~(x < x)
    BY <1>1
  <2> QED
    BY <2>1, <2>2
<1>6. Cardinality(S) >= n
  <2> HIDE DEF A, B, S
  <2>1. Cardinality(B \ A) = Cardinality(B) - Cardinality(A)
    BY <1>2, <1>5, SmallerSet
  <2>2. Cardinality(S \cup {x}) = Cardinality(S) + 1
    BY <1>2, <1>5, FS_AddElement
  <2>3. Cardinality(B \ A) = Cardinality(S) + 1
    BY <1>5, <2>2
  <2> QED
    BY <1>2, <1>3, <2>1, <2>3
<1>7. a \in Int /\ b \in Int /\ b <= LastDay /\ b < y
  BY <1>1
<1>8. S \in SUBSET T
  <2> SUFFICES ASSUME NEW e \in S PROVE e \in T
    OBVIOUS
  <2>1. e \in Int /\ e \in SessionDays /\ x < e /\ e < y
    BY <1>1
  <2>2. e \in a..b
    BY <1>1, <2>1
  <2> QED
    BY <2>1, <2>2 DEF Within
<1>9. IsFiniteSet(T)
  <2>1. T \in SUBSET (a..b)
    BY DEF Within
  <2> HIDE DEF T, a, b
  <2> QED
    BY <1>7, <2>1, DaysBetween
<1>10. Cardinality(T) >= n
  <2> HIDE DEF S, T
  <2>1. Cardinality(S) <= Cardinality(T) /\ Cardinality(T) \in Nat
    BY <1>8, <1>9, SmallerSet
  <2> QED
    BY <1>2, <1>6, <2>1
<1> HIDE DEF b, S, A, B
<1>11. LabelEnd(x, n) <= b /\ LabelEnd(x, n) \in Int
  BY <1>1, <1>7, <1>10, LabelIsKnown
<1> QED
  BY <1>1, <1>7, <1>11

\* The same for any number of folds, up to one a date and beyond, and any choice of them
\* as test groups; PurgedSplitsDoNotLeak is the part of it that a run can enumerate.
AnyPurgedSplitDoesNotLeak ==
    LET n  == Cardinality(Dates)
        at == [i \in 0 .. n - 1 |-> CHOOSE d \in Dates : Cardinality({e \in Dates : e < d}) = i]
    IN  \A splits \in Nat \ {0} : \A groups \in SUBSET (0 .. splits - 1) :
            \A i \in TrainPositions(n, splits, groups, Lookahead, Lookahead),
               j \in TestPositions(n, splits, groups) :
                /\ i # j /\ at[i] \in Dates /\ at[j] \in Dates
                /\ i < j => LabelEnd(at[i], Lookahead) < at[j]
                /\ j < i => LabelEnd(at[j], Lookahead) < at[i]

\* A panel of sessions is all it takes.
LEMMA SplitOfSessions == PanelTyped => AnyPurgedSplitDoesNotLeak
<1> DEFINE n == Cardinality(Dates)
           before(d) == {e \in Dates : e < d}
           at == [i \in 0 .. n - 1 |-> CHOOSE d \in Dates : Cardinality(before(d)) = i]
<1> SUFFICES ASSUME PanelTyped, NEW splits \in Nat \ {0},
                    NEW groups \in SUBSET (0 .. splits - 1),
                    NEW i \in TrainPositions(n, splits, groups, Lookahead, Lookahead),
                    NEW j \in TestPositions(n, splits, groups)
             PROVE  /\ i # j /\ at[i] \in Dates /\ at[j] \in Dates
                    /\ i < j => LabelEnd(at[i], Lookahead) < at[j]
                    /\ j < i => LabelEnd(at[j], Lookahead) < at[i]
  BY DEF AnyPurgedSplitDoesNotLeak
<1>1. Dates \in SUBSET Int /\ IsFiniteSet(Dates) /\ n \in Nat
  BY DatesAreDays, FS_CardinalityType
<1>2. Lookahead \in Nat \ {0} /\ Lookahead \in Nat
  BY HorizonAssumption
<1> HIDE DEF n, at
<1>3. i \in 0 .. n - 1 /\ j \in 0 .. n - 1
  BY <1>1, TestIsInside DEF TrainPositions
<1>4. /\ i < j => i + Lookahead < j
      /\ j < i => j + Lookahead < i
      /\ i # j
  BY <1>1, <1>2, TrainKeepsItsDistance
<1>5. ASSUME NEW k \in 0 .. n - 1
      PROVE  at[k] \in Dates /\ Cardinality(before(at[k])) = k
  <2> DEFINE P(d) == Cardinality(before(d)) = k
  <2>1. \E d \in Dates : P(d)
    BY <1>1, RanksExist DEF n
  <2>2. at[k] = CHOOSE d \in Dates : P(d)
    BY DEF at
  <2> HIDE DEF P
  <2>3. at[k] \in Dates /\ P(at[k])
    BY <2>1, <2>2
  <2> QED
    BY <2>3 DEF P
<1>6. ASSUME NEW k \in 0 .. n - 1, NEW l \in 0 .. n - 1, k + Lookahead < l
      PROVE  LabelEnd(at[k], Lookahead) < at[l]
  <2>1. /\ at[k] \in Dates /\ Cardinality(before(at[k])) = k
        /\ at[l] \in Dates /\ Cardinality(before(at[l])) = l
    BY <1>5
  <2> QED
    BY <1>2, <1>6, <2>1, LabelsKeepTheirDistance
<1> QED
  BY <1>3, <1>4, <1>5, <1>6

\* The label windows of the training rows and of the test rows of a purged split never
\* overlap, for every calendar, panel, lookahead, number of folds and choice of test
\* groups (purged_cv.py:61-76 and :187-203).
THEOREM NoPurgedSplitLeaks == Spec => []AnyPurgedSplitDoesNotLeak
<1>1. CampaignIInv => AnyPurgedSplitDoesNotLeak
  BY SplitOfSessions DEF CampaignIInv
<1> QED
  BY <1>1, CampaignInductive, PTL

\* In particular in the splits PurgedKFold and CombinatorialPurgedCV make with two to
\* four folds, which the run enumerates.
THEOREM PurgedSplitsNeverLeak == Spec => []PurgedSplitsDoNotLeak
<1>1. AnyPurgedSplitDoesNotLeak => PurgedSplitsDoNotLeak
  <2> DEFINE n == Cardinality(Dates)
             at == [i \in 0 .. n - 1 |-> CHOOSE d \in Dates : Cardinality({e \in Dates : e < d}) = i]
             labelEnd == [d \in Dates |-> LabelEnd(d, Lookahead)]
  <2> SUFFICES ASSUME AnyPurgedSplitDoesNotLeak, NEW splits \in {k \in 2..4 : n >= k},
                      NEW groups \in KFoldGroups(splits) \cup CombinatorialGroups(splits, 2),
                      NEW i \in TrainPositions(n, splits, groups, Lookahead, Lookahead),
                      NEW j \in TestPositions(n, splits, groups)
               PROVE  /\ i # j
                      /\ i < j => labelEnd[at[i]] < at[j]
                      /\ j < i => labelEnd[at[j]] < at[i]
    BY DEF PurgedSplitsDoNotLeak
  <2>1. splits \in Nat \ {0} /\ groups \in SUBSET (0 .. splits - 1)
    BY DEF KFoldGroups, CombinatorialGroups
  <2>2. /\ i # j /\ at[i] \in Dates /\ at[j] \in Dates
        /\ i < j => LabelEnd(at[i], Lookahead) < at[j]
        /\ j < i => LabelEnd(at[j], Lookahead) < at[i]
    BY <2>1 DEF AnyPurgedSplitDoesNotLeak
  <2> HIDE DEF n, at
  <2> QED
    BY <2>2
<1> QED
  BY <1>1, NoPurgedSplitLeaks, PTL
=============================================================================
