-------------------------- MODULE MCAlarms_proofs --------------------------
(***************************************************************************)
(* Proofs about the alarm managers.  For the daily one (DailyAlarm) the    *)
(* key is a count of the times of a row up to a moment, midnights and time *)
(* of day put together: what renewTimes computes from the two ends of an   *)
(* interval is the difference of the counts (RenewCounts), and a tick      *)
(* moves the count by what comes due (CountTick).  For the weekly and the  *)
(* monthly one (CalendarAlarm) the key is that a row which is called at    *)
(* its time was called in the present period or in the one right before    *)
(* (CalendarInv), over the end of a year as well (MonthSuccessor).         *)
(***************************************************************************)
EXTENDS MCAlarms, FiniteSetTheorems, WellFoundedInduction, TLAPS

(* The entries of the row at or before a time of day.                      *)
Below(a, s) == {i \in 1 .. Number(a) : timeOffsets[a][i] <= s}

Count(a, t) ==
  (Local(t) \div Day) * Number(a) + Cardinality(Below(a, Local(t) % Day))

SavedLost == \A a \in Alarm : saved.steady[a] =>
  /\ saved.run[a] \in Int /\ saved.run[a] <= now
  /\ saved.owed[a] = renewTimes(a, now, saved.run[a])

IInv == TypeOK /\ NothingLost /\ SavedLost /\ CleanIsSaved

-----------------------------------------------------------------------------
(* Quotients and remainders of times.                                      *)
LEMMA DivMod ==
  ASSUME NEW D \in Nat \ {0}, NEW x \in Int
  PROVE  /\ x \div D \in Int /\ (x % D) \in 0 .. D - 1
         /\ x = (x \div D) * D + (x % D)
  OBVIOUS

LEMMA DivUnique ==
  ASSUME NEW D \in Nat \ {0}, NEW q \in Int, NEW r \in 0 .. D - 1
  PROVE  (q * D + r) \div D = q /\ (q * D + r) % D = r
  OBVIOUS

LEMMA Product ==
  ASSUME NEW p \in Int, NEW q \in Int, NEW n \in Nat, p <= q
  PROVE  /\ p * n \in Int /\ (p + 1) * n = p * n + n
         /\ p * n <= q * n
<1>1. q * n - p * n = (q - p) * n
  OBVIOUS
<1>2. q - p \in Nat
  OBVIOUS
<1>3. (q - p) * n >= 0
  BY <1>2
<1> QED BY <1>1, <1>3

LEMMA DivMove ==
  ASSUME NEW D \in Nat \ {0}, NEW x \in Int, NEW d \in Int
  PROVE  (x + d * D) \div D = x \div D + d /\ (x + d * D) % D = (x % D)
<1> DEFINE q == x \div D
           r == x % D
<1>1. q \in Int /\ r \in 0 .. D - 1 /\ x = q * D + r
  BY DivMod
<1>2. (q + d \in Int) /\ D \in Int
  BY <1>1
<1> HIDE DEF q, r
<1>3. x + d * D = (q + d) * D + r
  BY <1>1, <1>2
<1>4. ((q + d) * D + r) \div D = q + d /\ ((q + d) * D + r) % D = r
  BY <1>1, <1>2, DivUnique
<1>5. (x + d * D) \div D = q + d /\ (x + d * D) % D = r
  BY <1>3, <1>4
<1> QED BY <1>5 DEF q, r

LEMMA DivNext ==
  ASSUME NEW D \in Nat \ {0}, NEW x \in Int
  PROVE  \/ (x + 1) \div D = x \div D /\ (x + 1) % D = (x % D) + 1
         \/ /\ (x + 1) \div D = x \div D + 1 /\ (x + 1) % D = 0
            /\ (x % D) = D - 1
<1> DEFINE q == x \div D
           r == x % D
<1>1. q \in Int /\ r \in 0 .. D - 1 /\ x = q * D + r
  BY DivMod
<1>2. D \in Nat \ {0}
  OBVIOUS
<1> HIDE DEF q, r
<1>3. CASE r = D - 1
  <2>1. x + 1 = (q + 1) * D + 0
    BY <1>1, <1>2, <1>3, Product
  <2>2. (q + 1) \in Int /\ 0 \in 0 .. D - 1
    BY <1>1, <1>2
  <2>3. ((q + 1) * D + 0) \div D = q + 1 /\ ((q + 1) * D + 0) % D = 0
    BY <2>2, DivUnique
  <2>4. (x + 1) \div D = q + 1 /\ (x + 1) % D = 0
    BY <2>1, <2>3
  <2> QED BY <2>4, <1>3 DEF q, r
<1>4. CASE r # D - 1
  <2>1. x + 1 = q * D + (r + 1)
    BY <1>1, <1>2
  <2>2. r + 1 \in 0 .. D - 1
    BY <1>1, <1>2, <1>4
  <2>3. (q * D + (r + 1)) \div D = q /\ (q * D + (r + 1)) % D = r + 1
    BY <1>1, <2>2, DivUnique
  <2>4. (x + 1) \div D = q /\ (x + 1) % D = r + 1
    BY <2>1, <2>3
  <2> QED BY <2>4 DEF q, r
<1> QED BY <1>3, <1>4

LEMMA DivMono ==
  ASSUME NEW D \in Nat \ {0}, NEW x \in Int, NEW y \in Int, x <= y
  PROVE  /\ x \div D <= y \div D
         /\ x \div D = y \div D => (x % D) <= (y % D)
<1> DEFINE q == x \div D
           r == x % D
           p == y \div D
           s == y % D
<1>1. q \in Int /\ r \in 0 .. D - 1 /\ x = q * D + r
  BY DivMod
<1>2. p \in Int /\ s \in 0 .. D - 1 /\ y = p * D + s
  BY DivMod
<1>3. D \in Nat \ {0}
  OBVIOUS
<1> HIDE DEF q, r, p, s
<1>4. q <= p
  <2> SUFFICES ASSUME p + 1 <= q PROVE FALSE
    BY <1>1, <1>2
  <2>1. (p + 1) * D = p * D + D /\ p * D \in Int
    BY <1>2, <1>3, Product
  <2>2. (p + 1) * D <= q * D /\ q * D \in Int
    BY <1>1, <1>2, <1>3, Product
  <2> QED BY <2>1, <2>2, <1>1, <1>2, <1>3
<1>5. ASSUME q = p PROVE r <= s
  <2>1. p * D \in Int
    BY <1>2, <1>3, Product
  <2>2. x = p * D + r
    BY <1>1, <1>5
  <2> QED BY <2>1, <2>2, <1>1, <1>2
<1> QED BY <1>4, <1>5 DEF q, r, p, s

(* For the days.                                                           *)
LEMMA DayMod ==
  ASSUME NEW x \in Int
  PROVE  /\ x \div Day \in Int /\ (x % Day) \in 0 .. Day - 1
         /\ x = (x \div Day) * Day + (x % Day)
  BY DivMod, AlarmAssumption

LEMMA DayMove ==
  ASSUME NEW x \in Int, NEW d \in Int
  PROVE  (x + d * Day) \div Day = x \div Day + d /\ (x + d * Day) % Day = (x % Day)
  BY DivMove, AlarmAssumption

LEMMA DayNext ==
  ASSUME NEW x \in Int
  PROVE  \/ (x + 1) \div Day = x \div Day /\ (x + 1) % Day = (x % Day) + 1
         \/ /\ (x + 1) \div Day = x \div Day + 1 /\ (x + 1) % Day = 0
            /\ (x % Day) = Day - 1
  BY DivNext, AlarmAssumption

LEMMA DayMono ==
  ASSUME NEW x \in Int, NEW y \in Int, x <= y
  PROVE  /\ x \div Day <= y \div Day
         /\ x \div Day = y \div Day => (x % Day) <= (y % Day)
  BY DivMono, AlarmAssumption

-----------------------------------------------------------------------------
LEMMA RowFacts ==
  ASSUME NEW a \in Alarm
  PROVE  /\ Number(a) \in Nat \ {0}
         /\ \A i \in 1 .. Number(a) : timeOffsets[a][i] \in 0 .. Day - 1
BY AlarmAssumption DEF Number

LEMMA LocalFacts ==
  ASSUME TypeOK, NEW t \in Int
  PROVE  Local(t) \in Int
<1>1. m_timeZone \in Int /\ Hour \in Int
  BY AlarmAssumption DEF TypeOK
<1>2. m_timeZone * Hour \in Int
  BY <1>1
<1> QED BY <1>2 DEF Local

LEMMA BelowFacts ==
  ASSUME NEW a \in Alarm, NEW s \in Int
  PROVE  /\ IsFiniteSet(Below(a, s))
         /\ Cardinality(Below(a, s)) \in 0 .. Number(a)
<1>1. IsFiniteSet(1 .. Number(a)) /\ Cardinality(1 .. Number(a)) = Number(a)
  BY RowFacts, FS_Interval
<1>2. Below(a, s) \subseteq 1 .. Number(a)
  BY DEF Below
<1>3. /\ IsFiniteSet(Below(a, s))
      /\ Cardinality(Below(a, s)) <= Cardinality(1 .. Number(a))
  BY <1>1, <1>2, FS_Subset
<1>4. Cardinality(Below(a, s)) \in Nat
  BY <1>3, FS_CardinalityType
<1> QED BY <1>1, <1>3, <1>4, RowFacts

LEMMA BelowMono ==
  ASSUME NEW a \in Alarm, NEW s \in Int, NEW r \in Int, s <= r
  PROVE  Cardinality(Below(a, s)) <= Cardinality(Below(a, r))
<1>1. Below(a, s) \subseteq Below(a, r)
  BY RowFacts, AlarmAssumption DEF Below
<1> QED BY <1>1, BelowFacts, FS_Subset

LEMMA CountFacts ==
  ASSUME TypeOK, NEW a \in Alarm, NEW t \in Int
  PROVE  Count(a, t) \in Int
<1>1. Local(t) \div Day \in Int /\ Local(t) % Day \in Int
  <2>1. Local(t) \in Int
    BY LocalFacts
  <2>2. Local(t) \div Day \in Int /\ (Local(t) % Day) \in 0 .. Day - 1
    BY <2>1, DayMod
  <2> QED BY <2>2, AlarmAssumption
<1>2. (Local(t) \div Day) * Number(a) \in Int
  BY <1>1, RowFacts
<1>3. Cardinality(Below(a, Local(t) % Day)) \in Int
  BY <1>1, BelowFacts
<1> QED BY <1>2, <1>3 DEF Count

(* On the day of at, the index of a moment is the number of the row's      *)
(* times at or before it: yesterday's last is always among them.           *)
LEMMA IndexValue ==
  ASSUME TypeOK, NEW a \in Alarm, NEW at \in Int, NEW t \in Int,
         Local(t) \div Day = Local(at) \div Day
  PROVE  Index(a, at, t) = Cardinality(Below(a, Local(t) % Day))
<1> DEFINE s == Local(t) % Day
           start == at - (Local(at) % Day)
           hit == {i \in 0 .. Number(a) : t >= clock_seconds(a, at)[i]}
<1>1. Local(at) \in Int /\ Local(t) \in Int
  BY LocalFacts
<1>2. s \in 0 .. Day - 1 /\ Local(at) % Day \in 0 .. Day - 1
  BY <1>1, DayMod
<1>3. t = start + s
  <2>1. Local(at) - Local(t) = (Local(at) % Day) - s
    <3> DEFINE p == (Local(at) \div Day) * Day
    <3>1. Local(at) = p + (Local(at) % Day) /\ Local(t) = p + s
      BY <1>1, DayMod
    <3>2. p \in Int
      <4>1. Local(at) \div Day \in Int /\ Day \in Int
        BY <1>1, DayMod, AlarmAssumption
      <4> QED BY <4>1
    <3> QED BY <3>1, <3>2, <1>2
  <2>2. Local(at) - Local(t) = at - t
    <3>1. m_timeZone * Hour \in Int
      BY AlarmAssumption DEF TypeOK
    <3> QED BY <3>1 DEF Local
  <2> QED BY <2>1, <2>2, <1>2
<1>4. start \in Int /\ Day \in Nat \ {0} /\ Number(a) \in Nat \ {0}
  BY <1>2, RowFacts, AlarmAssumption
<1>5. \A i \in 0 .. Number(a) :
        clock_seconds(a, at)[i] = IF i = 0 THEN (start + timeOffsets[a][Number(a)]) - Day
                                  ELSE start + timeOffsets[a][i]
  BY DEF clock_seconds, nd_time_from_offset
<1> HIDE DEF s, start
<1>6. \A i \in 1 .. Number(a) :
        (t >= clock_seconds(a, at)[i]) <=> timeOffsets[a][i] <= s
  BY <1>2, <1>3, <1>4, <1>5, RowFacts
<1>7. t >= clock_seconds(a, at)[0]
  <2>1. timeOffsets[a][Number(a)] \in 0 .. Day - 1
    BY <1>4, RowFacts
  <2>2. clock_seconds(a, at)[0] = (start + timeOffsets[a][Number(a)]) - Day
    BY <1>4, <1>5
  <2> QED BY <2>1, <2>2, <1>2, <1>3, <1>4
<1>8. hit = Below(a, s) \cup {0}
  BY <1>4, <1>6, <1>7 DEF Below
<1>9. 0 \notin Below(a, s)
  BY DEF Below
<1>10. IsFiniteSet(Below(a, s)) /\ Cardinality(Below(a, s)) \in Nat
  BY <1>2, BelowFacts
<1>11. Cardinality(hit) = Cardinality(Below(a, s)) + 1
  BY <1>8, <1>9, <1>10, FS_AddElement
<1>12. Index(a, at, t) = Cardinality(hit) - 1
  BY DEF Index
<1> HIDE DEF hit
<1>13. Index(a, at, t) = Cardinality(Below(a, s))
  BY <1>10, <1>11, <1>12
<1> QED BY <1>13 DEF s

LEMMA RenewCounts ==
  ASSUME TypeOK, NEW a \in Alarm, NEW at \in Int, NEW last \in Int, last <= at
  PROVE  renewTimes(a, at, last) = Count(a, at) - Count(a, last)
<1> DEFINE p == Local(last) \div Day
           q == Local(at) \div Day
           days == q - p
           moved == IF days > 0 THEN last + days * Day ELSE last
<1>1. Local(last) \in Int /\ Local(at) \in Int /\ Local(last) <= Local(at)
  <2>1. m_timeZone * Hour \in Int
    BY AlarmAssumption DEF TypeOK
  <2> QED BY <2>1 DEF Local
<1>2. p \in Int /\ q \in Int /\ p <= q
  BY <1>1, DayMod, DayMono
<1>3. Local(last) % Day \in Int /\ Local(at) % Day \in Int /\ Day \in Int
  <2>1. (Local(last) % Day) \in 0 .. Day - 1 /\ (Local(at) % Day) \in 0 .. Day - 1
    BY <1>1, DayMod
  <2> QED BY <2>1, AlarmAssumption
<1>4. days \in Nat /\ days * Day \in Int
  BY <1>2, <1>3
<1>5. moved \in Int /\ Local(moved) = Local(last) + days * Day
  <2>1. m_timeZone * Hour \in Int
    BY AlarmAssumption DEF TypeOK
  <2>2. CASE days > 0
    BY <2>1, <2>2, <1>4 DEF Local
  <2>3. CASE ~(days > 0)
    <3>1. days = 0 /\ days * Day = 0
      BY <2>3, <1>3, <1>4
    <3>2. moved = last
      BY <2>3
    <3> HIDE DEF moved, days
    <3> QED BY <3>1, <3>2, <1>1
  <2> QED BY <2>2, <2>3
<1>6. Local(moved) \div Day = p + days /\ Local(moved) % Day = Local(last) % Day
  BY <1>1, <1>4, <1>5, DayMove
<1>7. Index(a, at, moved) = Cardinality(Below(a, Local(last) % Day))
  <2>1. Local(moved) \div Day = q
    BY <1>2, <1>6
  <2> HIDE DEF moved
  <2>2. Index(a, at, moved) = Cardinality(Below(a, Local(moved) % Day))
    BY <2>1, <1>5, IndexValue
  <2> QED BY <2>2, <1>6
<1>8. Index(a, at, at) = Cardinality(Below(a, Local(at) % Day))
  BY IndexValue
<1>9. renewTimes(a, at, last)
        = (IF days > 0 THEN days * Number(a) ELSE 0)
            + Index(a, at, at) - Index(a, at, moved)
  BY DEF renewTimes, nd_time_day_interval_ex
<1>10. (IF days > 0 THEN days * Number(a) ELSE 0) = q * Number(a) - p * Number(a)
  <2>1. Number(a) \in Nat
    BY RowFacts
  <2>2. days * Number(a) = q * Number(a) - p * Number(a)
    BY <2>1, <1>2
  <2>3. days = 0 => days * Number(a) = 0
    BY <2>1
  <2> HIDE DEF days
  <2> QED BY <2>2, <2>3, <1>4
<1>11. /\ q * Number(a) \in Int /\ p * Number(a) \in Int
       /\ Cardinality(Below(a, Local(last) % Day)) \in Int
       /\ Cardinality(Below(a, Local(at) % Day)) \in Int
  BY <1>2, <1>3, RowFacts, BelowFacts
<1>12. /\ Count(a, at) = q * Number(a) + Cardinality(Below(a, Local(at) % Day))
       /\ Count(a, last) = p * Number(a) + Cardinality(Below(a, Local(last) % Day))
  BY DEF Count
<1> HIDE DEF p, q, days, moved
<1> QED BY <1>7, <1>8, <1>9, <1>10, <1>11, <1>12

LEMMA CountMono ==
  ASSUME TypeOK, NEW a \in Alarm, NEW at \in Int, NEW last \in Int, last <= at
  PROVE  Count(a, last) <= Count(a, at)
<1> DEFINE p == Local(last) \div Day
           q == Local(at) \div Day
           r == Local(last) % Day
           s == Local(at) % Day
           n == Number(a)
<1>1. Local(last) \in Int /\ Local(at) \in Int /\ Local(last) <= Local(at)
  <2>1. m_timeZone * Hour \in Int
    BY AlarmAssumption DEF TypeOK
  <2> QED BY <2>1 DEF Local
<1>2. p \in Int /\ q \in Int /\ p <= q /\ (p = q => r <= s)
  BY <1>1, DayMod, DayMono
<1>3. r \in 0 .. Day - 1 /\ s \in 0 .. Day - 1 /\ Day \in Nat /\ n \in Nat
  BY <1>1, DayMod, RowFacts, AlarmAssumption
<1>4. /\ Cardinality(Below(a, r)) \in 0 .. n
      /\ Cardinality(Below(a, s)) \in 0 .. n
  <2>1. r \in Int /\ s \in Int
    BY <1>3
  <2> HIDE DEF r, s
  <2> QED BY <2>1, BelowFacts
<1>5. /\ Count(a, at) = q * n + Cardinality(Below(a, s))
      /\ Count(a, last) = p * n + Cardinality(Below(a, r))
  BY DEF Count
<1> HIDE DEF p, q, r, s, n
<1>6. CASE p = q
  <2>1. Cardinality(Below(a, r)) <= Cardinality(Below(a, s))
    BY <1>2, <1>3, <1>6, BelowMono
  <2>2. p * n = q * n /\ p * n \in Int
    BY <1>2, <1>3, <1>6, Product
  <2> QED BY <2>1, <2>2, <1>3, <1>4, <1>5
<1>7. CASE p # q
  <2>1. p + 1 <= q /\ p + 1 \in Int
    BY <1>2, <1>7
  <2>2. (p + 1) * n = p * n + n /\ p * n \in Int
    BY <1>2, <1>3, Product
  <2>3. (p + 1) * n <= q * n /\ q * n \in Int
    BY <2>1, <1>2, <1>3, Product
  <2> QED BY <2>2, <2>3, <1>3, <1>4, <1>5
<1> QED BY <1>6, <1>7

(* A tick moves the count by what comes due at the new time.               *)
LEMMA CountTick ==
  ASSUME TypeOK, NEW a \in Alarm, NEW t \in Int
  PROVE  Count(a, t + 1) = Count(a, t) + DueAt(a, t + 1)
<1> DEFINE q == Local(t) \div Day
           r == Local(t) % Day
           n == Number(a)
           due == {i \in 1 .. n : timeOffsets[a][i] = Local(t + 1) % Day}
<1>1. Local(t) \in Int /\ Local(t + 1) = Local(t) + 1
  <2>1. m_timeZone * Hour \in Int
    BY AlarmAssumption DEF TypeOK
  <2> QED BY <2>1 DEF Local
<1>2. q \in Int /\ r \in 0 .. Day - 1 /\ n \in Nat /\ Day \in Nat \ {0}
  BY <1>1, DayMod, RowFacts, AlarmAssumption
<1>3. /\ Count(a, t) = q * n + Cardinality(Below(a, r))
      /\ Count(a, t + 1)
           = (Local(t + 1) \div Day) * n + Cardinality(Below(a, Local(t + 1) % Day))
      /\ DueAt(a, t + 1) = Cardinality(due)
  BY DEF Count, DueAt
<1>4. \/ Local(t + 1) \div Day = q /\ Local(t + 1) % Day = r + 1
      \/ Local(t + 1) \div Day = q + 1 /\ Local(t + 1) % Day = 0 /\ r = Day - 1
  BY <1>1, DayNext
<1>5. \A i \in 1 .. n : timeOffsets[a][i] \in 0 .. Day - 1
  BY RowFacts
<1>6. q * n \in Int /\ (q + 1) * n = q * n + n
  BY <1>2, Product
<1>7. r \in Int /\ Cardinality(Below(a, r)) \in 0 .. n
  <2>1. r \in Int
    BY <1>2
  <2> HIDE DEF r
  <2> QED BY <2>1, BelowFacts
<1> HIDE DEF q, r
<1>8. CASE Local(t + 1) \div Day = q /\ Local(t + 1) % Day = r + 1
  <2>1. due \subseteq 1 .. n /\ Below(a, r) \subseteq 1 .. n
    BY DEF Below
  <2>2. Below(a, r + 1) = Below(a, r) \cup due
    BY <1>5, <1>7, <1>8, <1>2 DEF Below
  <2>3. Below(a, r) \cap due = {}
    BY <1>5, <1>7, <1>8, <1>2 DEF Below
  <2>4. IsFiniteSet(Below(a, r)) /\ IsFiniteSet(due)
    <3>1. IsFiniteSet(1 .. n)
      BY <1>2, FS_Interval
    <3> QED BY <3>1, <2>1, FS_Subset
  <2>5. Cardinality(Below(a, r) \cup due) = Cardinality(Below(a, r)) + Cardinality(due)
    <3>1. /\ Cardinality(Below(a, r) \cap due) = 0
          /\ Cardinality(Below(a, r)) \in Nat /\ Cardinality(due) \in Nat
      BY <2>3, <2>4, FS_EmptySet, FS_CardinalityType
    <3>2. Cardinality(Below(a, r) \cup due)
            = Cardinality(Below(a, r)) + Cardinality(due) - Cardinality(Below(a, r) \cap due)
      BY <2>4, FS_Union
    <3> HIDE DEF due
    <3> QED BY <3>1, <3>2
  <2>6. Cardinality(due) \in Nat
    BY <2>4, FS_CardinalityType
  <2>7. Count(a, t + 1) = q * n + Cardinality(Below(a, r + 1))
    BY <1>3, <1>8
  <2> HIDE DEF n, due
  <2>8. Cardinality(Below(a, r + 1)) = Cardinality(Below(a, r)) + Cardinality(due)
    BY <2>2, <2>5
  <2> QED BY <2>6, <2>7, <2>8, <1>3, <1>6, <1>7
<1>9. CASE Local(t + 1) \div Day = q + 1 /\ Local(t + 1) % Day = 0 /\ r = Day - 1
  <2>1. Below(a, r) = 1 .. n
    BY <1>5, <1>9, <1>2 DEF Below
  <2>2. Cardinality(Below(a, r)) = n
    BY <2>1, <1>2, FS_Interval
  <2>3. Below(a, 0) = due
    BY <1>5, <1>9, <1>2 DEF Below
  <2>4. IsFiniteSet(Below(a, 0)) /\ Cardinality(Below(a, 0)) \in 0 .. n
    BY BelowFacts
  <2>5. Count(a, t + 1) = (q + 1) * n + Cardinality(Below(a, 0))
    BY <1>3, <1>9
  <2> HIDE DEF n, due
  <2> QED BY <2>2, <2>3, <2>4, <2>5, <1>3, <1>6, <1>2
<1> QED BY <1>4, <1>8, <1>9

-----------------------------------------------------------------------------
(* What the two ends of an interval give is a number of times, none at all *)
(* for an interval without length, and the times of one day for one day.   *)
LEMMA RenewFacts ==
  ASSUME TypeOK, NEW a \in Alarm, NEW at \in Int, NEW last \in Int, last <= at
  PROVE  /\ renewTimes(a, at, last) \in Nat
         /\ renewTimes(a, at, at) = 0
         /\ renewTimes(a, at + 1, last) = renewTimes(a, at, last) + DueAt(a, at + 1)
<1>1. Count(a, at) \in Int /\ Count(a, last) \in Int /\ Count(a, at + 1) \in Int
  BY CountFacts
<1>2. Count(a, last) <= Count(a, at) /\ Count(a, at + 1) = Count(a, at) + DueAt(a, at + 1)
  BY CountMono, CountTick
<1>3. /\ renewTimes(a, at, last) = Count(a, at) - Count(a, last)
      /\ renewTimes(a, at, at) = Count(a, at) - Count(a, at)
      /\ renewTimes(a, at + 1, last) = Count(a, at + 1) - Count(a, last)
  BY RenewCounts
<1>4. DueAt(a, at + 1) \in Int
  <2>1. IsFiniteSet(1 .. Number(a))
    BY RowFacts, FS_Interval
  <2> DEFINE due == {i \in 1 .. Number(a) : timeOffsets[a][i] = Local(at + 1) % Day}
  <2>2. IsFiniteSet(due)
    BY <2>1, FS_Subset
  <2>3. Cardinality(due) \in Nat
    BY <2>2, FS_CardinalityType
  <2> QED BY <2>3 DEF DueAt
<1> QED BY <1>1, <1>2, <1>3, <1>4

LEMMA OneDay ==
  ASSUME TypeOK, NEW a \in Alarm, NEW t \in Int
  PROVE  renewTimes(a, t, t - Day) = Number(a)
<1> DEFINE q == Local(t) \div Day
           s == Local(t) % Day
           n == Number(a)
<1>1. Day \in Nat \ {0} /\ n \in Nat /\ t - Day \in Int /\ t - Day <= t
  BY RowFacts, AlarmAssumption
<1>2. Local(t) \in Int /\ Local(t - Day) = Local(t) + (-1) * Day
  <2>1. m_timeZone * Hour \in Int
    BY AlarmAssumption DEF TypeOK
  <2> QED BY <2>1, <1>1 DEF Local
<1>3. Local(t - Day) \div Day = q + (-1) /\ Local(t - Day) % Day = s
  BY <1>2, DayMove
<1>4. q \in Int /\ s \in Int
  <2>1. q \in Int /\ s \in 0 .. Day - 1
    BY <1>2, DayMod
  <2> QED BY <2>1, <1>1
<1>5. /\ Count(a, t) = q * n + Cardinality(Below(a, s))
      /\ Count(a, t - Day) = (q + (-1)) * n + Cardinality(Below(a, s))
  BY <1>3 DEF Count
<1>6. renewTimes(a, t, t - Day) = Count(a, t) - Count(a, t - Day)
  BY <1>1, RenewCounts
<1> HIDE DEF q, s
<1>7. Cardinality(Below(a, s)) \in Int
  BY <1>4, BelowFacts
<1> HIDE DEF n
<1>8. q * n \in Int /\ (q + (-1)) * n = q * n - n
  BY <1>1, <1>4
<1>9. renewTimes(a, t, t - Day) = n
  BY <1>1, <1>5, <1>6, <1>7, <1>8
<1> QED BY <1>9 DEF n

(* A step that leaves the time zone computes with the same times.          *)
LEMMA SameZone ==
  ASSUME UNCHANGED m_timeZone, NEW a \in Alarm
  PROVE  /\ renewTimes(a, now, m_lastRunInfo[a])' = renewTimes(a, now', m_lastRunInfo'[a])
         /\ renewTimes(a, now, saved.run[a])' = renewTimes(a, now', saved'.run[a])
BY DEF renewTimes, nd_time_day_interval_ex, Index, clock_seconds, nd_time_from_offset,
       Local, Number

-----------------------------------------------------------------------------
LEMMA InitIInv == Init => IInv
<1> SUFFICES ASSUME Init PROVE IInv
  OBVIOUS
<1>1. /\ saved.run = [a \in Alarm |-> Never] /\ saved.owed = [a \in Alarm |-> 0]
      /\ saved.steady = [a \in Alarm |-> FALSE]
      /\ saved = [run |-> saved.run, owed |-> saved.owed, steady |-> saved.steady]
      /\ m_lastRunInfo = saved.run /\ owed = saved.owed /\ steady = saved.steady
  BY DEF Init, Unsaved
<1>2. TypeOK
  <2>1. now \in Int /\ m_timeZone \in TimeZone /\ m_bChanged = FALSE /\ forced = FALSE
    BY AlarmAssumption DEF Init
  <2>2. /\ saved.run \in [Alarm -> Int \cup {Never}] /\ saved.owed \in [Alarm -> Nat]
        /\ saved.steady \in [Alarm -> BOOLEAN]
    BY <1>1
  <2> QED BY <1>1, <2>1, <2>2 DEF TypeOK
<1> QED BY <1>1, <1>2 DEF IInv, NothingLost, Pending, SavedLost, CleanIsSaved

LEMMA TickIInv ==
  ASSUME IInv, Tick
  PROVE  IInv'
<1>1. TypeOK /\ now \in Int /\ now' = now + 1 /\ now' \in Int
  BY DEF IInv, TypeOK, Tick
<1>2. UNCHANGED <<m_timeZone, m_lastRunInfo, m_bChanged, steady, forced>>
  BY DEF Tick
<1>3. /\ saved'.run = saved.run /\ saved'.steady = saved.steady
      /\ saved'.owed = [a \in Alarm |-> IF saved.steady[a]
                                        THEN saved.owed[a] + DueAt(a, now + 1) ELSE 0]
      /\ saved' = [run |-> saved'.run, owed |-> saved'.owed, steady |-> saved'.steady]
  BY DEF Tick
<1>4. ASSUME NEW a \in Alarm, steady[a]
      PROVE  /\ m_lastRunInfo[a] \in Int /\ m_lastRunInfo[a] <= now
             /\ owed[a] = renewTimes(a, now, m_lastRunInfo[a])
  BY <1>1, <1>4 DEF IInv, TypeOK, NothingLost, Pending, Registered, Behind
<1>5. ASSUME NEW a \in Alarm, saved.steady[a]
      PROVE  /\ saved.run[a] \in Int /\ saved.run[a] <= now
             /\ saved.owed[a] = renewTimes(a, now, saved.run[a])
  BY <1>5 DEF IInv, SavedLost
<1>6. ASSUME NEW a \in Alarm, NEW last \in Int, last <= now
      PROVE  /\ renewTimes(a, now', last) = renewTimes(a, now, last) + DueAt(a, now + 1)
             /\ renewTimes(a, now, last) + DueAt(a, now + 1) \in Nat
  <2>1. renewTimes(a, now + 1, last) = renewTimes(a, now, last) + DueAt(a, now + 1)
    BY <1>1, <1>6, RenewFacts
  <2>2. last <= now + 1 /\ now + 1 \in Int
    BY <1>1, <1>6
  <2>3. renewTimes(a, now + 1, last) \in Nat
    BY <1>1, <2>2, RenewFacts
  <2> QED BY <1>1, <2>1, <2>3
<1>7. ASSUME NEW a \in Alarm, steady[a]
      PROVE  /\ owed'[a] = renewTimes(a, now', m_lastRunInfo'[a]) /\ owed'[a] \in Nat
  <2>1. owed'[a] = owed[a] + DueAt(a, now + 1)
    BY <1>7 DEF Tick
  <2> QED BY <2>1, <1>2, <1>4, <1>6, <1>7
<1>8. ASSUME NEW a \in Alarm, saved.steady[a]
      PROVE  /\ saved'.owed[a] = renewTimes(a, now', saved'.run[a]) /\ saved'.owed[a] \in Nat
  <2>1. saved'.owed[a] = saved.owed[a] + DueAt(a, now + 1)
    BY <1>3, <1>8
  <2> QED BY <2>1, <1>3, <1>5, <1>6, <1>8
<1>9. NothingLost'
  <2> SUFFICES ASSUME NEW a \in Alarm, steady'[a]
               PROVE  /\ Registered(a)' /\ ~Behind(a)'
                      /\ owed'[a] = renewTimes(a, now, m_lastRunInfo[a])'
    BY DEF NothingLost, Pending
  <2>1. steady[a] /\ m_lastRunInfo'[a] = m_lastRunInfo[a]
    BY <1>2
  <2>2. Registered(a)' /\ ~Behind(a)'
    BY <1>1, <1>4, <2>1, AlarmAssumption DEF Registered, Behind
  <2>3. renewTimes(a, now, m_lastRunInfo[a])' = renewTimes(a, now', m_lastRunInfo'[a])
    BY <1>2, SameZone
  <2> QED BY <1>7, <2>1, <2>2, <2>3
<1>10. SavedLost'
  <2> SUFFICES ASSUME NEW a \in Alarm, saved'.steady[a]
               PROVE  /\ saved'.run[a] \in Int /\ saved'.run[a] <= now'
                      /\ saved'.owed[a] = renewTimes(a, now, saved.run[a])'
    BY DEF SavedLost
  <2>1. saved.steady[a] /\ saved'.run[a] = saved.run[a]
    BY <1>3
  <2>2. renewTimes(a, now, saved.run[a])' = renewTimes(a, now', saved'.run[a])
    BY <1>2, SameZone
  <2> QED BY <1>1, <1>5, <1>8, <2>1, <2>2
<1>11. TypeOK'
  <2>1. owed' \in [Alarm -> Nat]
    <3>1. owed' = [a \in Alarm |-> IF steady[a] THEN owed[a] + DueAt(a, now + 1) ELSE 0]
      BY DEF Tick
    <3>2. \A a \in Alarm : owed'[a] \in Nat
      <4> SUFFICES ASSUME NEW a \in Alarm PROVE owed'[a] \in Nat
        OBVIOUS
      <4>1. CASE steady[a]
        BY <4>1, <1>7
      <4>2. CASE ~steady[a]
        BY <4>2, <3>1
      <4> QED BY <4>1, <4>2
    <3> QED BY <3>1, <3>2
  <2>2. saved'.owed \in [Alarm -> Nat]
    <3>2. \A a \in Alarm : saved'.owed[a] \in Nat
      <4> SUFFICES ASSUME NEW a \in Alarm PROVE saved'.owed[a] \in Nat
        OBVIOUS
      <4>1. CASE saved.steady[a]
        BY <4>1, <1>8
      <4>2. CASE ~saved.steady[a]
        BY <4>2, <1>3
      <4> QED BY <4>1, <4>2
    <3> QED BY <1>3, <3>2
  <2>3. saved'.run \in [Alarm -> Int \cup {Never}] /\ saved'.steady \in [Alarm -> BOOLEAN]
    BY <1>1, <1>3 DEF TypeOK
  <2> QED BY <1>1, <1>2, <1>3, <2>1, <2>2, <2>3 DEF TypeOK
<1>12. CleanIsSaved'
  BY <1>2, <1>3 DEF IInv, CleanIsSaved
<1> QED BY <1>9, <1>10, <1>11, <1>12 DEF IInv

(* What a step needs that forgets the history.                             *)
LEMMA ForgetFacts ==
  ASSUME TypeOK, Forget
  PROVE  /\ steady' = [a \in Alarm |-> FALSE] /\ owed' = [a \in Alarm |-> 0]
         /\ saved'.run = saved.run /\ saved'.steady = [a \in Alarm |-> FALSE]
         /\ saved' \in [run : [Alarm -> Int \cup {Never}], owed : [Alarm -> Nat],
                        steady : [Alarm -> BOOLEAN]]
<1>1. /\ saved' = [run |-> saved.run, owed |-> [a \in Alarm |-> 0],
                   steady |-> [a \in Alarm |-> FALSE]]
      /\ steady' = [a \in Alarm |-> FALSE] /\ owed' = [a \in Alarm |-> 0]
  BY DEF Forget, Unsaved
<1>2. saved.run \in [Alarm -> Int \cup {Never}]
  BY DEF TypeOK
<1> QED BY <1>1, <1>2

LEMMA ForgetIInv ==
  ASSUME IInv, Forget, UNCHANGED <<m_lastRunInfo, m_bChanged, forced>>,
         now' \in Int, m_timeZone' \in TimeZone
  PROVE  IInv'
<1>1. TypeOK /\ CleanIsSaved
  BY DEF IInv
<1>2. /\ steady' = [a \in Alarm |-> FALSE] /\ owed' = [a \in Alarm |-> 0]
      /\ saved'.run = saved.run /\ saved'.steady = [a \in Alarm |-> FALSE]
      /\ saved' \in [run : [Alarm -> Int \cup {Never}], owed : [Alarm -> Nat],
                     steady : [Alarm -> BOOLEAN]]
  BY <1>1, ForgetFacts
<1>3. TypeOK'
  BY <1>1, <1>2 DEF TypeOK
<1>4. NothingLost' /\ SavedLost'
  BY <1>2 DEF NothingLost, Pending, SavedLost
<1>5. CleanIsSaved'
  BY <1>1, <1>2 DEF CleanIsSaved
<1> QED BY <1>3, <1>4, <1>5 DEF IInv

(* Update tells what was owed, so that every row it leaves steady is       *)
(* settled.                                                                *)
LEMMA UpdateSettles ==
  ASSUME IInv, Update, NEW a \in Alarm
  PROVE  /\ owed'[a] = 0
         /\ steady'[a] => /\ m_lastRunInfo'[a] \in Int /\ m_lastRunInfo'[a] <= now
                          /\ renewTimes(a, now, m_lastRunInfo'[a]) = 0
<1>1. TypeOK /\ now \in Int
  BY DEF IInv, TypeOK
<1>2. /\ owed'[a] = IF steady[a] THEN owed[a] - Times(a) ELSE 0
      /\ steady'[a] = (steady[a] \/ Runs(a) \/ Behind(a))
      /\ m_lastRunInfo'[a] = IF Runs(a) \/ Behind(a) THEN now ELSE m_lastRunInfo[a]
  BY DEF Update
<1>3. renewTimes(a, now, now) = 0
  BY <1>1, RenewFacts
<1>4. ASSUME steady[a]
      PROVE  /\ m_lastRunInfo[a] \in Int /\ m_lastRunInfo[a] <= now
             /\ Times(a) = owed[a] /\ owed[a] \in Nat /\ ~Behind(a)
             /\ owed[a] = renewTimes(a, now, m_lastRunInfo[a])
  <2>1. Registered(a) /\ ~Behind(a) /\ owed[a] = renewTimes(a, now, m_lastRunInfo[a])
    BY <1>4 DEF IInv, NothingLost, Pending
  <2>2. m_lastRunInfo[a] \in Int \cup {Never} /\ owed[a] \in Nat
    BY <1>1 DEF TypeOK
  <2> QED BY <2>1, <2>2, <1>1 DEF Registered, Behind, Times
<1>5. owed'[a] = 0
  BY <1>2, <1>4
<1>6. ASSUME steady'[a]
      PROVE  /\ m_lastRunInfo'[a] \in Int /\ m_lastRunInfo'[a] <= now
             /\ renewTimes(a, now, m_lastRunInfo'[a]) = 0
  <2>1. CASE Runs(a) \/ Behind(a)
    BY <2>1, <1>1, <1>2, <1>3
  <2>2. CASE ~(Runs(a) \/ Behind(a))
    <3>1. steady[a] /\ m_lastRunInfo'[a] = m_lastRunInfo[a]
      BY <2>2, <1>2, <1>6
    <3>2. owed[a] = 0
      BY <2>2, <3>1, <1>4 DEF Runs
    <3> QED BY <3>1, <3>2, <1>4
  <2> QED BY <2>1, <2>2
<1> QED BY <1>5, <1>6

LEMMA UpdateIInv ==
  ASSUME IInv, Update
  PROVE  IInv'
<1>1. TypeOK /\ now \in Int /\ UNCHANGED <<now, m_timeZone, saved, forced>>
  BY DEF IInv, TypeOK, Update, time
<1>2. /\ m_lastRunInfo' = [a \in Alarm |-> IF Runs(a) \/ Behind(a) THEN now
                                           ELSE m_lastRunInfo[a]]
      /\ m_bChanged' = (m_bChanged \/ \E a \in Alarm : Runs(a) \/ Behind(a))
      /\ owed' = [a \in Alarm |-> owed'[a]]
      /\ steady' = [a \in Alarm |-> steady[a] \/ Runs(a) \/ Behind(a)]
  BY DEF Update
<1>3. TypeOK'
  <2>1. owed' \in [Alarm -> Nat]
    BY <1>2, UpdateSettles
  <2>2. m_lastRunInfo' \in [Alarm -> Int \cup {Never}]
    BY <1>1, <1>2 DEF TypeOK
  <2>3. steady' \in [Alarm -> BOOLEAN]
    BY <1>2
  <2>4. m_bChanged' \in BOOLEAN
    BY <1>2
  <2> QED BY <1>1, <2>1, <2>2, <2>3, <2>4 DEF TypeOK
<1>4. NothingLost'
  <2> SUFFICES ASSUME NEW a \in Alarm, steady'[a]
               PROVE  /\ Registered(a)' /\ ~Behind(a)'
                      /\ owed'[a] = renewTimes(a, now, m_lastRunInfo[a])'
    BY DEF NothingLost, Pending
  <2>1. /\ owed'[a] = 0 /\ m_lastRunInfo'[a] \in Int /\ m_lastRunInfo'[a] <= now
        /\ renewTimes(a, now, m_lastRunInfo'[a]) = 0
    BY UpdateSettles
  <2>2. Registered(a)' /\ ~Behind(a)'
    BY <1>1, <2>1, AlarmAssumption DEF Registered, Behind
  <2>3. renewTimes(a, now, m_lastRunInfo[a])' = renewTimes(a, now', m_lastRunInfo'[a])
    BY <1>1, SameZone
  <2> QED BY <1>1, <2>1, <2>2, <2>3
<1>5. SavedLost'
  <2> SUFFICES ASSUME NEW a \in Alarm, saved'.steady[a]
               PROVE  /\ saved'.run[a] \in Int /\ saved'.run[a] <= now'
                      /\ saved'.owed[a] = renewTimes(a, now, saved.run[a])'
    BY DEF SavedLost
  <2>1. renewTimes(a, now, saved.run[a])' = renewTimes(a, now', saved'.run[a])
    BY <1>1, SameZone
  <2> QED BY <1>1, <2>1 DEF IInv, SavedLost
<1>6. CleanIsSaved'
  <2> SUFFICES ASSUME ~m_bChanged', ~forced' PROVE m_lastRunInfo' = saved'.run
    BY DEF CleanIsSaved
  <2>1. /\ ~m_bChanged /\ ~forced
        /\ \A a \in Alarm : ~(Runs(a) \/ Behind(a))
    BY <1>1, <1>2
  <2>2. m_lastRunInfo = saved.run
    BY <2>1 DEF IInv, CleanIsSaved
  <2>3. m_lastRunInfo' = [a \in Alarm |-> m_lastRunInfo[a]]
    BY <1>2, <2>1
  <2> QED BY <1>1, <2>2, <2>3 DEF TypeOK
<1> QED BY <1>3, <1>4, <1>5, <1>6 DEF IInv

LEMMA setEventIInv ==
  ASSUME IInv, NEW b \in Alarm, NEW t \in Int, setEvent(b, t)
  PROVE  IInv'
<1>1. TypeOK /\ UNCHANGED <<now, m_timeZone, saved>>
  BY DEF IInv, setEvent, time
<1>2. /\ m_lastRunInfo' = [m_lastRunInfo EXCEPT ![b] = t]
      /\ m_bChanged' = (m_bChanged \/ ~Registered(b))
      /\ steady' = [steady EXCEPT ![b] = FALSE] /\ owed' = [owed EXCEPT ![b] = 0]
      /\ forced' = (forced \/ Registered(b))
  BY DEF setEvent
<1>3. TypeOK'
  BY <1>1, <1>2 DEF TypeOK
<1>4. NothingLost'
  <2> SUFFICES ASSUME NEW a \in Alarm, steady'[a]
               PROVE  /\ Registered(a)' /\ ~Behind(a)'
                      /\ owed'[a] = renewTimes(a, now, m_lastRunInfo[a])'
    BY DEF NothingLost, Pending
  <2>1. /\ steady[a] /\ m_lastRunInfo'[a] = m_lastRunInfo[a] /\ owed'[a] = owed[a]
    BY <1>1, <1>2 DEF TypeOK
  <2>2. Registered(a) /\ ~Behind(a) /\ owed[a] = renewTimes(a, now, m_lastRunInfo[a])
    BY <2>1 DEF IInv, NothingLost, Pending
  <2>3. renewTimes(a, now, m_lastRunInfo[a])' = renewTimes(a, now', m_lastRunInfo'[a])
    BY <1>1, SameZone
  <2> QED BY <1>1, <2>1, <2>2, <2>3 DEF Registered, Behind
<1>5. SavedLost'
  <2> SUFFICES ASSUME NEW a \in Alarm, saved'.steady[a]
               PROVE  /\ saved'.run[a] \in Int /\ saved'.run[a] <= now'
                      /\ saved'.owed[a] = renewTimes(a, now, saved.run[a])'
    BY DEF SavedLost
  <2>1. renewTimes(a, now, saved.run[a])' = renewTimes(a, now', saved'.run[a])
    BY <1>1, SameZone
  <2> QED BY <1>1, <2>1 DEF IInv, SavedLost
<1>6. CleanIsSaved'
  BY <1>2 DEF CleanIsSaved
<1> QED BY <1>3, <1>4, <1>5, <1>6 DEF IInv

(* What toStream writes and what Restart reads is settled alike.           *)
LEMMA StreamIInv ==
  ASSUME IInv, toStream \/ Restart
  PROVE  IInv'
<1>1. TypeOK /\ UNCHANGED <<now, m_timeZone>> /\ now \in Int /\ forced' = FALSE
  BY DEF IInv, TypeOK, toStream, Restart, time
<1>2. /\ saved.run \in [Alarm -> Int \cup {Never}] /\ saved.owed \in [Alarm -> Nat]
      /\ saved.steady \in [Alarm -> BOOLEAN]
  BY <1>1 DEF TypeOK
<1>3. /\ m_lastRunInfo' = saved'.run /\ owed' = saved'.owed /\ steady' = saved'.steady
      /\ \/ /\ saved'.run = saved.run /\ saved'.owed = saved.owed
            /\ saved'.steady = saved.steady /\ saved' = saved
            /\ m_bChanged' = (\E a \in Alarm : saved.run[a] # Never)
         \/ /\ saved'.run = m_lastRunInfo /\ saved'.owed = owed /\ saved'.steady = steady
            /\ saved' = [run |-> m_lastRunInfo, owed |-> owed, steady |-> steady]
            /\ m_bChanged' = FALSE
  <2>1. CASE toStream
    BY <2>1 DEF toStream
  <2>2. CASE Restart
    BY <2>2 DEF Restart, time
  <2> QED BY <2>1, <2>2
<1>4. TypeOK'
  <2>1. m_bChanged' \in BOOLEAN
    BY <1>3
  <2> QED BY <1>1, <1>2, <1>3, <2>1 DEF TypeOK
<1>5. ASSUME NEW a \in Alarm, steady'[a]
      PROVE  /\ m_lastRunInfo'[a] \in Int /\ m_lastRunInfo'[a] <= now
             /\ owed'[a] = renewTimes(a, now, m_lastRunInfo'[a])
  <2>1. CASE steady[a] /\ m_lastRunInfo'[a] = m_lastRunInfo[a] /\ owed'[a] = owed[a]
    <3>1. Registered(a) /\ ~Behind(a) /\ owed[a] = renewTimes(a, now, m_lastRunInfo[a])
      BY <2>1 DEF IInv, NothingLost, Pending
    <3>2. m_lastRunInfo[a] \in Int \cup {Never}
      BY <1>1 DEF TypeOK
    <3> QED BY <2>1, <3>1, <3>2, <1>1 DEF Registered, Behind
  <2>2. CASE saved.steady[a] /\ m_lastRunInfo'[a] = saved.run[a] /\ owed'[a] = saved.owed[a]
    BY <2>2 DEF IInv, SavedLost
  <2> QED BY <2>1, <2>2, <1>3, <1>5
<1>6. NothingLost'
  <2> SUFFICES ASSUME NEW a \in Alarm, steady'[a]
               PROVE  /\ Registered(a)' /\ ~Behind(a)'
                      /\ owed'[a] = renewTimes(a, now, m_lastRunInfo[a])'
    BY DEF NothingLost, Pending
  <2>1. Registered(a)' /\ ~Behind(a)'
    BY <1>1, <1>5, AlarmAssumption DEF Registered, Behind
  <2>2. renewTimes(a, now, m_lastRunInfo[a])' = renewTimes(a, now', m_lastRunInfo'[a])
    BY <1>1, SameZone
  <2> QED BY <1>1, <1>5, <2>1, <2>2
<1>7. SavedLost'
  <2> SUFFICES ASSUME NEW a \in Alarm, saved'.steady[a]
               PROVE  /\ saved'.run[a] \in Int /\ saved'.run[a] <= now'
                      /\ saved'.owed[a] = renewTimes(a, now, saved.run[a])'
    BY DEF SavedLost
  <2>1. renewTimes(a, now, saved.run[a])' = renewTimes(a, now', saved'.run[a])
    BY <1>1, SameZone
  <2> QED BY <1>1, <1>3, <1>5, <2>1
<1>8. CleanIsSaved'
  BY <1>3 DEF CleanIsSaved
<1> QED BY <1>4, <1>6, <1>7, <1>8 DEF IInv

LEMMA StepIInv == IInv /\ [Next]_vars => IInv'
<1> SUFFICES ASSUME IInv, [Next]_vars PROVE IInv'
  OBVIOUS
<1>1. CASE Tick
  BY <1>1, TickIInv
<1>2. ASSUME NEW t \in Clock, SetBack(t) PROVE IInv'
  BY <1>2, ForgetIInv, AlarmAssumption DEF SetBack, IInv, TypeOK
<1>3. ASSUME NEW tz \in TimeZone, setTimeZone(tz) PROVE IInv'
  BY <1>3, ForgetIInv DEF setTimeZone, IInv, TypeOK
<1>4. CASE Update
  BY <1>4, UpdateIInv
<1>5. ASSUME NEW a \in Alarm, NEW t \in Clock, setEvent(a, t) PROVE IInv'
  BY <1>5, setEventIInv, AlarmAssumption
<1>6. CASE toStream \/ Restart
  BY <1>6, StreamIInv
<1>7. CASE UNCHANGED vars
  <2>1. UNCHANGED <<now, m_timeZone, m_lastRunInfo, m_bChanged, saved, owed, steady, forced>>
    BY <1>7 DEF vars, time
  <2>2. ASSUME NEW a \in Alarm
        PROVE  /\ renewTimes(a, now, m_lastRunInfo[a])' = renewTimes(a, now, m_lastRunInfo[a])
               /\ renewTimes(a, now, saved.run[a])' = renewTimes(a, now, saved.run[a])
    BY <2>1, SameZone
  <2>3. NothingLost' /\ SavedLost'
    BY <2>1, <2>2 DEF IInv, NothingLost, Pending, Registered, Behind, SavedLost
  <2>4. TypeOK' /\ CleanIsSaved'
    BY <2>1 DEF IInv, TypeOK, CleanIsSaved
  <2> QED BY <2>3, <2>4 DEF IInv
<1> QED BY <1>1, <1>2, <1>3, <1>4, <1>5, <1>6, <1>7 DEF Next

LEMMA AlwaysIInv == Spec => []IInv
<1> QED BY InitIInv, StepIInv, PTL DEF Spec

-----------------------------------------------------------------------------
(* Every variable keeps its type; no row is ever owed a negative number of *)
(* times, which would mean that UpdateDaily had reported one too many.     *)
THEOREM TypeCorrect == Spec => []TypeOK
<1>1. IInv => TypeOK
  BY DEF IInv
<1> QED BY <1>1, AlwaysIInv, PTL

(* What the next Update will compute from two clock readings is what came  *)
(* due since the row was run, over any number of days and restarts.        *)
THEOREM NothingLostCorrect == Spec => []NothingLost
<1>1. IInv => NothingLost
  BY DEF IInv
<1> QED BY <1>1, AlwaysIInv, PTL

(* After Update nothing is owed any more.                                  *)
THEOREM ToldOnce == Spec => EveryTimeOnce
<1>1. IInv /\ [Next]_vars =>
        [Update => \A a \in Alarm : steady'[a] => owed'[a] = 0]_vars
  BY UpdateSettles
<1> QED BY <1>1, AlwaysIInv, PTL DEF Spec, EveryTimeOnce

(* A row without a saved time is run, with the times of exactly one day.   *)
THEOREM FirstDayCorrect == Spec => []FirstDay
<1>1. IInv => FirstDay
  BY OneDay DEF FirstDay, IInv, TypeOK
<1> QED BY <1>1, AlwaysIInv, PTL

(* While the manager reports no change, what was saved is what it holds.   *)
THEOREM CleanCorrect == Spec => []CleanIsSaved
<1>1. IInv => CleanIsSaved
  BY DEF IInv
<1> QED BY <1>1, AlwaysIInv, PTL
(* Both: nothing is lost by gaps, and nothing by a restart.                *)
THEOREM KeptCorrect == Spec => []AlarmsKept
<1>1. IInv => AlarmsKept
  BY DEF IInv, AlarmsKept
<1> QED BY <1>1, AlwaysIInv, PTL

-----------------------------------------------------------------------------
(* The calendar, for a time zone z: what CalendarAlarm computes from the   *)
(* clock t and the time last of a row.                                     *)
WeekAt(z, t)  == (t + z * Hour) \div Week
MonthAt(z, t) == <<Calendar!tm_year(t + z * Hour), Calendar!tm_mon(t + z * Hour)>>

SameAt(a, z, s, t) == IF a \in WeekRow THEN WeekAt(z, s) = WeekAt(z, t)
                      ELSE MonthAt(z, s) = MonthAt(z, t)

EventAt(a, z, t) ==
  IF a \in WeekRow THEN (t - ((t + z * Hour) % Week)) + eventOffset[a]
  ELSE (MonthAt(z, t)[1] * Calendar!Year + Elapsed[MonthAt(z, t)[2]] - z * Hour) + eventOffset[a]

BehindAt(a, t, last) == a \in WeekRow /\ last # Never /\ last > t

WeekRunsAt(a, z, t, last) ==
  /\ ~BehindAt(a, t, last)
  /\ WeekAt(z, t) # WeekAt(z, IF last # Never THEN last ELSE t - Week)
  /\ EventAt(a, z, t) <= t

MonthPassedAt(a, z, t, last) ==
  LET months == MonthAt(z, t)[2] - MonthAt(z, last)[2]
  IN CASE MonthAt(z, t)[1] = MonthAt(z, last)[1] + 1 ->
            (t + z * Hour) - (last + z * Hour) >= Days31
       [] MonthAt(z, t)[1] = MonthAt(z, last)[1] ->
            months > 1 \/ (months = 1 /\ t + z * Hour >= EventAt(a, z, t))
       [] OTHER -> TRUE

RunsAt(a, z, t, last) ==
  IF a \in WeekRow THEN WeekRunsAt(a, z, t, last)
  ELSE IF last # Never THEN MonthPassedAt(a, z, t, last) ELSE t >= EventAt(a, z, t)

WatchedAt(a, z, t, last, w) ==
  CASE w = "due" -> "ran"
    [] RunsAt(a, z, t, last) /\ w # "due" -> IF t = EventAt(a, z, t) THEN "ran" ELSE "called"
    [] OTHER -> w

(* The month that a time lies in, without a time zone.                     *)
MonthStart(t) == Calendar!tm_year(t) * Calendar!Year + Elapsed[Calendar!tm_mon(t)]
MonthEnd(t)   == Calendar!tm_year(t) * Calendar!Year + Elapsed[Calendar!tm_mon(t) + 1]

(* A weekly row that was called n times in its week is the next to be      *)
(* called exactly when its last run lies in an earlier one.                *)
WeekOK(a, z, t, last, n, w) == w # "no" =>
  /\ n = 1 => EventAt(a, z, t) <= t
  /\ n = 0 => WeekAt(z, last) # WeekAt(z, t)
  /\ w = "ran" => ~RunsAt(a, z, t, last)

(* A monthly row that is called at its time was called at its time in this *)
(* month, or in the one before while this month's time has not passed.     *)
MonthOK(a, z, t, last, n, w) == z = 0 /\ w \in {"ran", "due"} =>
  /\ last - eventOffset[a] = MonthStart(last)
  /\ n = 0 => /\ MonthStart(t) = MonthEnd(last)
              /\ t <= EventAt(a, z, t) /\ (w = "ran" => t < EventAt(a, z, t))

RowOK(a, z, t, last, n, w) ==
  /\ n \in {0, 1}
  /\ n = 1 => w # "no" /\ SameAt(a, z, last, t)
  /\ w # "no" => last # Never /\ last <= t
  /\ IF a \in WeekRow THEN WeekOK(a, z, t, last, n, w) ELSE MonthOK(a, z, t, last, n, w)

CalendarInv ==
  /\ Calendar!TypeOK
  /\ \A a \in Calendar!Row : RowOK(a, zone, date, lastRun[a], calls[a], watch[a])

LEMMA CalendarFacts ==
  /\ WeekRow \cap MonthRow = {} /\ Never \notin Int /\ Calendar!Row = WeekRow \cup MonthRow
  /\ \A a \in Calendar!Row : eventOffset[a] \in Nat
  /\ Week \in Nat \ {0} /\ Hour \in Int /\ Days31 \in Int
  /\ TimeZone \subseteq Int /\ 0 \in TimeZone /\ Dates \subseteq Int
BY CalendarAssumption DEF Calendar!CalendarAssumption, Calendar!Row, Calendar!Months,
   Calendar!MonthLength

LEMMA MonthFacts ==
  /\ Calendar!Year \in Nat \ {0} /\ Len(Elapsed) \in Nat /\ Len(Elapsed) > 1
  /\ Elapsed[1] = 0 /\ Elapsed[Len(Elapsed)] = Calendar!Year
  /\ \A n \in 1 .. Len(Elapsed) : Elapsed[n] \in Nat
  /\ \A m, n \in 1 .. Len(Elapsed) : m < n => Elapsed[m] < Elapsed[n]
  /\ Calendar!Months = 1 .. Len(Elapsed) - 1
  /\ Elapsed[Len(Elapsed)] - Elapsed[Len(Elapsed) - 1] = Days31
  /\ \A a \in MonthRow, m \in Calendar!Months : eventOffset[a] < Elapsed[m + 1] - Elapsed[m]
<1>1. /\ Elapsed \in Seq(Nat) /\ Len(Elapsed) > 1 /\ Elapsed[1] = 0
      /\ \A m, n \in DOMAIN Elapsed : m < n => Elapsed[m] < Elapsed[n]
      /\ Calendar!MonthLength(Len(Elapsed) - 1) = Days31
      /\ \A a \in MonthRow, m \in Calendar!Months : eventOffset[a] < Calendar!MonthLength(m)
  BY CalendarAssumption DEF Calendar!CalendarAssumption
<1>2. Len(Elapsed) \in Nat /\ DOMAIN Elapsed = 1 .. Len(Elapsed)
  BY <1>1
<1>3. \A n \in 1 .. Len(Elapsed) : Elapsed[n] \in Nat
  BY <1>1, <1>2
<1>4. \A m, n \in 1 .. Len(Elapsed) : m < n => Elapsed[m] < Elapsed[n]
  BY <1>1, <1>2
<1>5. Elapsed[1] < Elapsed[Len(Elapsed)]
  BY <1>1, <1>2, <1>4
<1>6. Calendar!Year \in Nat \ {0} /\ Elapsed[Len(Elapsed)] = Calendar!Year
  BY <1>1, <1>2, <1>3, <1>5 DEF Calendar!Year
<1>7. Elapsed[Len(Elapsed)] - Elapsed[Len(Elapsed) - 1] = Days31
  BY <1>1, <1>2 DEF Calendar!MonthLength
<1>8. \A a \in MonthRow, m \in Calendar!Months : eventOffset[a] < Elapsed[m + 1] - Elapsed[m]
  BY <1>1 DEF Calendar!MonthLength
<1> QED
  BY <1>1, <1>2, <1>3, <1>4, <1>6, <1>7, <1>8 DEF Calendar!Months

(* Every moment of a year lies in one of its months,                       *)
LEMMA MonthExists ==
  ASSUME NEW r \in Int, 0 <= r, r < Calendar!Year
  PROVE  \E m \in Calendar!Months : Elapsed[m] <= r /\ r < Elapsed[m + 1]
<1> DEFINE Later == {n \in 1 .. Len(Elapsed) : r < Elapsed[n]}
<1>1. Later \subseteq Nat /\ Len(Elapsed) \in Later
  BY MonthFacts
<1>2. IsWellFoundedOn(OpToRel(<, Nat), Nat)
  BY NatLessThanWellFounded
<1>3. Later # {}
  BY <1>1
<1> HIDE DEF Later
<1>4. PICK n \in Later : \A k \in Later : ~ (<<k, n>> \in OpToRel(<, Nat))
  BY <1>1, <1>2, <1>3, WFMin
<1>5. n \in 1 .. Len(Elapsed) /\ r < Elapsed[n]
  BY DEF Later
<1>6. n # 1
  BY <1>5, MonthFacts
<1>7. n - 1 \in 1 .. Len(Elapsed)
  BY <1>5, <1>6, MonthFacts
<1>8. n - 1 \notin Later
  <2> SUFFICES ASSUME n - 1 \in Later PROVE FALSE
    OBVIOUS
  <2>1. <<n - 1, n>> \in OpToRel(<, Nat)
    BY <1>5, <1>7 DEF OpToRel
  <2> QED BY <2>1, <1>4
<1>9. Elapsed[n - 1] <= r
  BY <1>7, <1>8, MonthFacts DEF Later
<1>10. n - 1 \in Calendar!Months /\ (n - 1) + 1 = n
  BY <1>5, <1>7, MonthFacts
<1> QED BY <1>5, <1>9, <1>10

(* and in one only.                                                        *)
LEMMA MonthUnique ==
  ASSUME NEW r \in Int, NEW m \in Calendar!Months, NEW n \in Calendar!Months,
         Elapsed[m] <= r, r < Elapsed[m + 1], Elapsed[n] <= r, r < Elapsed[n + 1]
  PROVE  m = n
<1>1. /\ m \in 1 .. Len(Elapsed) /\ m + 1 \in 1 .. Len(Elapsed)
      /\ n \in 1 .. Len(Elapsed) /\ n + 1 \in 1 .. Len(Elapsed)
  BY MonthFacts
<1>2. ASSUME NEW i \in Calendar!Months, NEW j \in Calendar!Months, i < j,
             r < Elapsed[i + 1], Elapsed[j] <= r
      PROVE  FALSE
  <2>1. /\ i + 1 \in 1 .. Len(Elapsed) /\ j \in 1 .. Len(Elapsed)
        /\ (i + 1 = j \/ i + 1 < j)
    BY SMTT(30), <1>2, MonthFacts
  <2>2. Elapsed[i + 1] \in Nat /\ Elapsed[j] \in Nat /\ Elapsed[i + 1] <= Elapsed[j]
    BY <2>1, MonthFacts
  <2> QED BY <2>2, <1>2
<1>3. ~ (m < n) /\ ~ (n < m)
  BY <1>2
<1> QED BY <1>1, <1>3

LEMMA MonthAtRest ==
  ASSUME NEW q \in Int, NEW m \in Calendar!Months, NEW r \in Int,
         Elapsed[m] <= r, r < Elapsed[m + 1]
  PROVE  /\ Calendar!tm_year(q * Calendar!Year + r) = q
         /\ Calendar!tm_mon(q * Calendar!Year + r) = m
<1>1. /\ m \in 1 .. Len(Elapsed) /\ m + 1 \in 1 .. Len(Elapsed)
      /\ (m + 1 = Len(Elapsed) \/ m + 1 < Len(Elapsed))
      /\ Len(Elapsed) \in 1 .. Len(Elapsed)
  BY MonthFacts
<1>2. Elapsed[m] \in Nat /\ Elapsed[m + 1] \in Nat /\ Elapsed[m + 1] <= Calendar!Year
  BY <1>1, MonthFacts
<1>3. r \in 0 .. Calendar!Year - 1 /\ Calendar!Year \in Nat \ {0}
  BY <1>2, MonthFacts
<1>4. /\ (q * Calendar!Year + r) \div Calendar!Year = q
      /\ (q * Calendar!Year + r) % Calendar!Year = r
  BY <1>3, DivUnique
<1> DEFINE t == q * Calendar!Year + r
<1>5. Calendar!tm_mon(t) = CHOOSE k \in Calendar!Months : Elapsed[k] <= r /\ r < Elapsed[k + 1]
  BY <1>4 DEF Calendar!tm_mon
<1>6. Calendar!tm_mon(t) = m
  BY <1>5, MonthUnique
<1> QED BY <1>4, <1>6 DEF Calendar!tm_year

LEMMA MonthOfTime ==
  ASSUME NEW t \in Int
  PROVE  /\ Calendar!tm_year(t) \in Int /\ Calendar!tm_mon(t) \in Calendar!Months
         /\ \E r \in Int : /\ t = Calendar!tm_year(t) * Calendar!Year + r
                           /\ Elapsed[Calendar!tm_mon(t)] <= r
                           /\ r < Elapsed[Calendar!tm_mon(t) + 1]
<1>1. Calendar!Year \in Nat \ {0}
  BY MonthFacts
<1> DEFINE q == t \div Calendar!Year
           r == t % Calendar!Year
<1>2. q \in Int /\ r \in 0 .. Calendar!Year - 1 /\ t = q * Calendar!Year + r
  BY <1>1, DivMod
<1> HIDE DEF q, r
<1>3. PICK m \in Calendar!Months : Elapsed[m] <= r /\ r < Elapsed[m + 1]
  BY <1>1, <1>2, MonthExists
<1>4. Calendar!tm_year(t) = q /\ Calendar!tm_mon(t) = m
  BY <1>2, <1>3, MonthAtRest
<1> QED BY <1>2, <1>3, <1>4

LEMMA MonthBounds ==
  ASSUME NEW t \in Int
  PROVE  /\ MonthStart(t) \in Int /\ MonthEnd(t) \in Int
         /\ MonthStart(t) <= t /\ t < MonthEnd(t)
         /\ \A a \in MonthRow : MonthStart(t) + eventOffset[a] < MonthEnd(t)
<1> DEFINE y == Calendar!tm_year(t)
           m == Calendar!tm_mon(t)
<1>1. PICK r \in Int : /\ t = y * Calendar!Year + r
                       /\ Elapsed[m] <= r /\ r < Elapsed[m + 1]
  BY MonthOfTime
<1>2. y \in Int /\ m \in Calendar!Months
  BY MonthOfTime
<1>3. MonthStart(t) = y * Calendar!Year + Elapsed[m] /\ MonthEnd(t) = y * Calendar!Year + Elapsed[m + 1]
  BY DEF MonthStart, MonthEnd
<1> HIDE DEF y, m
<1>4. m \in 1 .. Len(Elapsed) /\ m + 1 \in 1 .. Len(Elapsed)
  BY <1>2, MonthFacts
<1>5. Elapsed[m] \in Nat /\ Elapsed[m + 1] \in Nat
  BY <1>4, MonthFacts
<1>6. y * Calendar!Year \in Int
  BY <1>2, MonthFacts
<1>7. \A a \in MonthRow : eventOffset[a] \in Nat /\ eventOffset[a] < Elapsed[m + 1] - Elapsed[m]
  BY <1>2, MonthFacts, CalendarFacts
<1> QED BY <1>1, <1>3, <1>5, <1>6, <1>7

(* A tick stays in the month or begins the next one.                       *)
LEMMA MonthTick ==
  ASSUME NEW t \in Int
  PROVE  \/ /\ Calendar!tm_year(t + 1) = Calendar!tm_year(t)
            /\ Calendar!tm_mon(t + 1) = Calendar!tm_mon(t)
         \/ t + 1 = MonthEnd(t) /\ MonthStart(t + 1) = t + 1
<1> DEFINE y == Calendar!tm_year(t)
           m == Calendar!tm_mon(t)
<1>1. PICK r \in Int : /\ t = y * Calendar!Year + r
                       /\ Elapsed[m] <= r /\ r < Elapsed[m + 1]
  BY MonthOfTime
<1>2. y \in Int /\ m \in Calendar!Months
  BY MonthOfTime
<1>3. MonthEnd(t) = y * Calendar!Year + Elapsed[m + 1]
  BY DEF MonthEnd
<1> HIDE DEF y, m
<1>4. m \in 1 .. Len(Elapsed) /\ m + 1 \in 1 .. Len(Elapsed)
  BY <1>2, MonthFacts
<1>5. Elapsed[m] \in Nat /\ Elapsed[m + 1] \in Nat
  BY <1>4, MonthFacts
<1>6. y * Calendar!Year \in Int /\ t + 1 = y * Calendar!Year + (r + 1)
  BY <1>1, <1>2, MonthFacts
<1>7. CASE r + 1 < Elapsed[m + 1]
  <2>1. Elapsed[m] <= r + 1 /\ r + 1 \in Int
    BY <1>1, <1>5
  <2>2. /\ Calendar!tm_year(y * Calendar!Year + (r + 1)) = y
        /\ Calendar!tm_mon(y * Calendar!Year + (r + 1)) = m
    BY <2>1, <1>2, <1>7, MonthAtRest
  <2> QED BY <2>2, <1>6 DEF y, m
<1>8. CASE r + 1 = Elapsed[m + 1]
  <2>1. t + 1 = MonthEnd(t)
    BY <1>3, <1>6, <1>8
  <2>2. MonthStart(t + 1) = t + 1
    <3>1. CASE m + 1 \in Calendar!Months
      <4>1. (m + 1) + 1 \in 1 .. Len(Elapsed) /\ m + 1 < (m + 1) + 1
        BY <1>4, <3>1, MonthFacts
      <4>2. Elapsed[m + 1] < Elapsed[(m + 1) + 1]
        BY <4>1, <1>4, MonthFacts
      <4>3. /\ Calendar!tm_year(y * Calendar!Year + Elapsed[m + 1]) = y
            /\ Calendar!tm_mon(y * Calendar!Year + Elapsed[m + 1]) = m + 1
        BY <3>1, <4>2, <1>2, <1>5, MonthAtRest
      <4> QED BY <4>3, <1>6, <1>8 DEF MonthStart
    <3>2. CASE m + 1 \notin Calendar!Months
      <4>1. m + 1 = Len(Elapsed) /\ Elapsed[m + 1] = Calendar!Year
        BY <1>4, <3>2, MonthFacts
      <4>2. 1 \in Calendar!Months /\ Elapsed[1] = 0 /\ 0 < Elapsed[1 + 1]
        BY MonthFacts
      <4>3. y + 1 \in Int /\ (y + 1) * Calendar!Year = y * Calendar!Year + Calendar!Year
        BY <1>2, MonthFacts, Product
      <4>4. t + 1 = (y + 1) * Calendar!Year + 0 /\ (y + 1) * Calendar!Year \in Int
        BY SMTT(30), <1>6, <1>8, <4>1, <4>3, MonthFacts
      <4>5. /\ Calendar!tm_year((y + 1) * Calendar!Year + 0) = y + 1
            /\ Calendar!tm_mon((y + 1) * Calendar!Year + 0) = 1
        BY <4>2, <4>3, MonthAtRest
      <4> QED BY <4>2, <4>4, <4>5 DEF MonthStart
    <3> QED BY <3>1, <3>2
  <2> QED BY <2>1, <2>2
<1> QED BY <1>1, <1>5, <1>7, <1>8

(* Months that begin together are the same; the month that begins where    *)
(* another ends is the next one of that year, or the first of the next.    *)
LEMMA MonthSuccessor ==
  ASSUME NEW s \in Int, NEW t \in Int, MonthStart(t) = MonthEnd(s)
  PROVE  \/ /\ Calendar!tm_year(t) = Calendar!tm_year(s)
            /\ Calendar!tm_mon(t) = Calendar!tm_mon(s) + 1
         \/ /\ Calendar!tm_year(t) = Calendar!tm_year(s) + 1
            /\ MonthStart(t) = MonthStart(s) + Days31
<1> DEFINE y == Calendar!tm_year(s)
           m == Calendar!tm_mon(s)
           z == Calendar!tm_year(t)
           n == Calendar!tm_mon(t)
<1>1. y \in Int /\ m \in Calendar!Months /\ z \in Int /\ n \in Calendar!Months
  BY MonthOfTime
<1>2. /\ MonthStart(s) = y * Calendar!Year + Elapsed[m]
      /\ MonthEnd(s) = y * Calendar!Year + Elapsed[m + 1]
      /\ MonthStart(t) = z * Calendar!Year + Elapsed[n]
  BY DEF MonthStart, MonthEnd
<1> HIDE DEF y, m, z, n
<1>3. /\ m \in 1 .. Len(Elapsed) /\ m + 1 \in 1 .. Len(Elapsed)
      /\ n \in 1 .. Len(Elapsed) /\ n + 1 \in 1 .. Len(Elapsed) /\ n < n + 1
  BY <1>1, MonthFacts
<1>4. /\ Elapsed[m] \in Nat /\ Elapsed[m + 1] \in Nat /\ Elapsed[n] \in Nat
      /\ Elapsed[n] < Elapsed[n + 1]
  BY <1>3, MonthFacts
<1>5. /\ Calendar!tm_year(MonthStart(t)) = z /\ Calendar!tm_mon(MonthStart(t)) = n
  BY <1>1, <1>2, <1>4, MonthAtRest
<1>6. CASE m + 1 \in Calendar!Months
  <2>1. (m + 1) + 1 \in 1 .. Len(Elapsed) /\ m + 1 < (m + 1) + 1
    BY <1>3, <1>6, MonthFacts
  <2>2. Elapsed[m + 1] < Elapsed[(m + 1) + 1]
    BY <2>1, <1>3, MonthFacts
  <2>3. /\ Calendar!tm_year(MonthEnd(s)) = y /\ Calendar!tm_mon(MonthEnd(s)) = m + 1
    BY <1>1, <1>2, <1>4, <1>6, <2>2, MonthAtRest
  <2> QED BY <2>3, <1>5 DEF y, m, z, n
<1>7. CASE m + 1 \notin Calendar!Months
  <2>1. m + 1 = Len(Elapsed) /\ Elapsed[m + 1] = Calendar!Year /\ m = Len(Elapsed) - 1
    BY <1>3, <1>7, MonthFacts
  <2>2. 1 \in Calendar!Months /\ Elapsed[1] = 0 /\ 0 < Elapsed[1 + 1]
    BY MonthFacts
  <2>3. /\ y + 1 \in Int /\ (y + 1) * Calendar!Year = y * Calendar!Year + Calendar!Year
        /\ y * Calendar!Year \in Int
    BY <1>1, MonthFacts, Product
  <2>4. MonthEnd(s) = (y + 1) * Calendar!Year + 0
    BY <1>2, <2>1, <2>3, MonthFacts
  <2>5. Calendar!tm_year((y + 1) * Calendar!Year + 0) = y + 1
    BY <2>2, <2>3, MonthAtRest
  <2>6. z = y + 1
    BY <2>4, <2>5, <1>5
  <2>7. Elapsed[m + 1] - Elapsed[m] = Days31
    BY <2>1, MonthFacts
  <2>8. MonthStart(t) = MonthStart(s) + Days31
    BY <2>3, <2>7, <1>2, <1>4
  <2> QED BY <2>6, <2>8 DEF y, z
<1> QED BY <1>6, <1>7

-----------------------------------------------------------------------------
LEMMA LocalAt ==
  ASSUME NEW z \in Int, NEW t \in Int
  PROVE  z * Hour \in Int /\ t + z * Hour \in Int
<1>1. z * Hour \in Int
  BY CalendarFacts
<1> QED BY <1>1

LEMMA WeekFacts ==
  ASSUME NEW z \in Int, NEW t \in Int, NEW a \in WeekRow
  PROVE  /\ WeekAt(z, t) \in Int /\ EventAt(a, z, t) \in Int
         /\ EventAt(a, z, t) = WeekAt(z, t) * Week - z * Hour + eventOffset[a]
         /\ \A s \in Int : s <= t => WeekAt(z, s) \in Int /\ WeekAt(z, s) <= WeekAt(z, t)
<1> DEFINE c == z * Hour
           x == t + c
<1>1. c \in Int /\ x \in Int
  BY LocalAt
<1>2. x \div Week \in Int /\ (x % Week) \in 0 .. Week - 1 /\ x = (x \div Week) * Week + (x % Week)
  BY <1>1, DivMod, CalendarFacts
<1>3. EventAt(a, z, t) = (t - (x % Week)) + eventOffset[a] /\ eventOffset[a] \in Nat
  BY CalendarFacts DEF EventAt
<1>4. WeekAt(z, t) = x \div Week
  BY DEF WeekAt
<1>5. ASSUME NEW s \in Int, s <= t PROVE WeekAt(z, s) \in Int /\ WeekAt(z, s) <= WeekAt(z, t)
  <2>1. WeekAt(z, s) = (s + c) \div Week
    BY DEF WeekAt
  <2> HIDE DEF c
  <2>2. s + c \in Int /\ s + c <= x
    BY <1>1, <1>5
  <2>3. (s + c) \div Week \in Int /\ (s + c) \div Week <= x \div Week
    BY <2>2, <1>1, DivMod, DivMono, CalendarFacts
  <2> QED BY <2>1, <2>3, <1>4
<1> HIDE DEF c, x
<1> DEFINE q == x \div Week
           r == x % Week
<1>6. q \in Int /\ r \in 0 .. Week - 1 /\ x = q * Week + r /\ Week \in Nat \ {0}
  BY <1>2, CalendarFacts
<1>7. EventAt(a, z, t) = (t - r) + eventOffset[a] /\ WeekAt(z, t) = q
  BY <1>3, <1>4
<1> HIDE DEF q, r
<1>8. q * Week \in Int /\ x = t + c
  BY <1>6 DEF x
<1>9. (t - r) + eventOffset[a] = q * Week - c + eventOffset[a]
  BY <1>1, <1>3, <1>6, <1>8
<1>10. (t - r) + eventOffset[a] \in Int
  BY <1>3, <1>6
<1> QED BY <1>5, <1>6, <1>7, <1>9, <1>10 DEF c

LEMMA MonthAtFacts ==
  ASSUME NEW z \in Int, NEW t \in Int
  PROVE  /\ MonthAt(z, t)[1] \in Int /\ MonthAt(z, t)[2] \in Int
         /\ \A a \in MonthRow : EventAt(a, z, t) \in Int
<1>1. t + z * Hour \in Int /\ z * Hour \in Int
  BY LocalAt
<1>2. Calendar!tm_year(t + z * Hour) \in Int /\ Calendar!tm_mon(t + z * Hour) \in Calendar!Months
  BY <1>1, MonthOfTime
<1> DEFINE y == Calendar!tm_year(t + z * Hour)
           m == Calendar!tm_mon(t + z * Hour)
<1>3. MonthAt(z, t)[1] = y /\ MonthAt(z, t)[2] = m
  BY DEF MonthAt
<1>4. y \in Int /\ m \in 1 .. Len(Elapsed) /\ m \in Int
  BY <1>2, MonthFacts
<1> HIDE DEF y, m
<1>5. y * Calendar!Year \in Int /\ Elapsed[m] \in Nat
  BY <1>4, MonthFacts
<1>6. ASSUME NEW a \in MonthRow PROVE EventAt(a, z, t) \in Int
  <2>1. a \notin WeekRow /\ eventOffset[a] \in Nat
    BY CalendarFacts
  <2>2. EventAt(a, z, t) = (y * Calendar!Year + Elapsed[m] - z * Hour) + eventOffset[a]
    BY <2>1, <1>3 DEF EventAt
  <2> QED BY <2>1, <2>2, <1>1, <1>5
<1> QED BY <1>3, <1>4, <1>6

(* A row's time is the same in its whole period.                           *)
LEMMA EventSame ==
  ASSUME NEW a \in Calendar!Row, NEW z \in Int, NEW s \in Int, NEW t \in Int, SameAt(a, z, s, t)
  PROVE  EventAt(a, z, s) = EventAt(a, z, t)
<1>1. CASE a \in WeekRow
  <2>1. WeekAt(z, s) = WeekAt(z, t)
    BY <1>1 DEF SameAt
  <2> QED BY <1>1, <2>1, WeekFacts
<1>2. CASE a \notin WeekRow
  BY <1>2 DEF SameAt, EventAt
<1> QED BY <1>1, <1>2

LEMMA EventInt ==
  ASSUME NEW a \in Calendar!Row, NEW z \in Int, NEW t \in Int
  PROVE  EventAt(a, z, t) \in Int
BY WeekFacts, MonthAtFacts, CalendarFacts

(* A row does not run in the period of its last run.                       *)
LEMMA RunsOnce ==
  ASSUME NEW a \in Calendar!Row, NEW z \in Int, NEW last \in Int, NEW t \in Int,
         SameAt(a, z, last, t)
  PROVE  ~ RunsAt(a, z, t, last)
<1>1. last # Never
  BY CalendarFacts
<1>2. CASE a \in WeekRow
  BY <1>1, <1>2 DEF SameAt, RunsAt, WeekRunsAt
<1>3. CASE a \notin WeekRow
  <2>1. MonthAt(z, last) = MonthAt(z, t)
    BY <1>3 DEF SameAt
  <2> DEFINE y == MonthAt(z, t)[1]
             m == MonthAt(z, t)[2]
  <2>2. y \in Int /\ m \in Int /\ MonthAt(z, last)[1] = y /\ MonthAt(z, last)[2] = m
    BY <2>1, MonthAtFacts
  <2>3. y # y + 1 /\ m - m = 0
    BY <2>2
  <2>4. ~ MonthPassedAt(a, z, t, last)
    BY <2>2, <2>3 DEF MonthPassedAt
  <2> QED BY <1>1, <1>3, <2>4 DEF RunsAt
<1> QED BY <1>2, <1>3

LEMMA WeekRuns ==
  ASSUME NEW a \in WeekRow, NEW z \in Int, NEW last \in Int, NEW t \in Int, last <= t
  PROVE  RunsAt(a, z, t, last) <=> WeekAt(z, last) # WeekAt(z, t) /\ EventAt(a, z, t) <= t
BY CalendarFacts DEF RunsAt, WeekRunsAt, BehindAt

LEMMA MonthEvent ==
  ASSUME NEW a \in MonthRow, NEW t \in Int
  PROVE  /\ EventAt(a, 0, t) = MonthStart(t) + eventOffset[a]
         /\ MonthAt(0, t) = <<Calendar!tm_year(t), Calendar!tm_mon(t)>>
<1>1. ASSUME NEW z \in Int, z = 0
      PROVE  /\ EventAt(a, z, t) = MonthStart(t) + eventOffset[a]
             /\ MonthAt(z, t) = <<Calendar!tm_year(t), Calendar!tm_mon(t)>>
  <2> DEFINE c == z * Hour
  <2>1. c = 0
    BY <1>1, CalendarFacts
  <2>2. t + c = t
    BY <2>1
  <2>3. MonthAt(z, t) = <<Calendar!tm_year(t + c), Calendar!tm_mon(t + c)>>
    BY Zenon DEF MonthAt
  <2>4. a \notin WeekRow
    BY CalendarFacts
  <2>5. EventAt(a, z, t) =
          (MonthAt(z, t)[1] * Calendar!Year + Elapsed[MonthAt(z, t)[2]] - c) + eventOffset[a]
    BY <2>4, Zenon DEF EventAt
  <2> HIDE DEF c
  <2>6. MonthAt(z, t) = <<Calendar!tm_year(t), Calendar!tm_mon(t)>>
    BY <2>2, <2>3
  <2>7. MonthStart(t) = MonthAt(z, t)[1] * Calendar!Year + Elapsed[MonthAt(z, t)[2]]
    BY <2>6 DEF MonthStart
  <2>8. MonthAt(z, t)[1] * Calendar!Year \in Int /\ Elapsed[MonthAt(z, t)[2]] \in Nat
    <3>1. MonthAt(z, t)[1] = Calendar!tm_year(t) /\ MonthAt(z, t)[2] = Calendar!tm_mon(t)
      BY <2>6
    <3>2. Calendar!tm_year(t) \in Int /\ Calendar!tm_mon(t) \in 1 .. Len(Elapsed)
      <4>1. Calendar!tm_year(t) \in Int /\ Calendar!tm_mon(t) \in Calendar!Months
        BY MonthOfTime
      <4> QED BY <4>1, MonthFacts
    <3>3. Calendar!Year \in Int /\ Elapsed[Calendar!tm_mon(t)] \in Nat
      BY <3>2, MonthFacts
    <3> QED BY <3>1, <3>2, <3>3
  <2>9. EventAt(a, z, t) = MonthStart(t) + eventOffset[a]
    BY <2>1, <2>5, <2>7, <2>8
  <2> QED BY <2>6, <2>9
<1> QED BY <1>1

(* A row that was called at its time in the month before, whichever month  *)
(* that was, runs exactly at its time.                                     *)
LEMMA MonthRunsOnTime ==
  ASSUME NEW a \in MonthRow, NEW last \in Int, NEW t \in Int,
         last - eventOffset[a] = MonthStart(last), MonthStart(t) = MonthEnd(last),
         t <= EventAt(a, 0, t)
  PROVE  RunsAt(a, 0, t, last) <=> t = EventAt(a, 0, t)
<1>1. /\ EventAt(a, 0, t) = MonthStart(t) + eventOffset[a]
      /\ MonthAt(0, t) = <<Calendar!tm_year(t), Calendar!tm_mon(t)>>
      /\ MonthAt(0, last) = <<Calendar!tm_year(last), Calendar!tm_mon(last)>>
  BY MonthEvent
<1>2. /\ a \notin WeekRow /\ last # Never /\ eventOffset[a] \in Nat /\ Days31 \in Int
      /\ t + 0 * Hour = t /\ last + 0 * Hour = last
  BY CalendarFacts DEF Calendar!Row
<1>3. MonthStart(t) \in Int /\ MonthStart(last) \in Int
  BY MonthBounds
<1>4. /\ Calendar!tm_year(t) \in Int /\ Calendar!tm_year(last) \in Int
      /\ Calendar!tm_mon(t) \in Int /\ Calendar!tm_mon(last) \in Int
  BY MonthOfTime, MonthFacts
<1>5. RunsAt(a, 0, t, last) = MonthPassedAt(a, 0, t, last)
  BY <1>2 DEF RunsAt
<1>6. CASE /\ Calendar!tm_year(t) = Calendar!tm_year(last)
           /\ Calendar!tm_mon(t) = Calendar!tm_mon(last) + 1
  <2>1. /\ Calendar!tm_year(t) # Calendar!tm_year(last) + 1
        /\ Calendar!tm_mon(t) - Calendar!tm_mon(last) = 1
    BY <1>4, <1>6
  <2>2. MonthPassedAt(a, 0, t, last) <=> t >= EventAt(a, 0, t)
    BY <2>1, <1>1, <1>2, <1>6 DEF MonthPassedAt
  <2> QED BY <2>2, <1>1, <1>2, <1>3, <1>5
<1>7. CASE /\ Calendar!tm_year(t) = Calendar!tm_year(last) + 1
           /\ MonthStart(t) = MonthStart(last) + Days31
  <2>1. MonthPassedAt(a, 0, t, last) <=> t - last >= Days31
    BY <1>1, <1>2, <1>4, <1>7 DEF MonthPassedAt
  <2>2. EventAt(a, 0, t) = last + Days31 /\ last + Days31 \in Int
    <3>1. EventAt(a, 0, t) = MonthStart(last) + Days31 + eventOffset[a]
      BY <1>1, <1>7
    <3>2. eventOffset[a] \in Nat /\ Days31 \in Int
      BY <1>2
    <3> QED BY <3>1, <3>2, <1>3
  <2>3. t - last >= Days31 <=> t = EventAt(a, 0, t)
    <3>1. Days31 \in Int
      BY <1>2
    <3> QED BY <3>1, <2>2
  <2> QED BY <2>1, <2>3, <1>5
<1> QED BY <1>6, <1>7, MonthSuccessor

-----------------------------------------------------------------------------
Watch == {"no", "called", "ran", "due"}

LEMMA RowNew ==
  ASSUME NEW a \in Calendar!Row, NEW z, NEW t, NEW last
  PROVE  RowOK(a, z, t, last, 0, "no")
BY DEF RowOK, WeekOK, MonthOK

LEMMA RowTick ==
  ASSUME NEW a \in Calendar!Row, NEW z \in Int, NEW t \in Int, NEW last \in Int \cup {Never},
         NEW n, NEW w \in Watch, RowOK(a, z, t, last, n, w),
         NEW k, k = IF SameAt(a, z, t + 1, t) THEN n ELSE 0,
         NEW v, v = CASE w = "ran" -> "due" [] w = "due" -> "called" [] OTHER -> w
  PROVE  RowOK(a, z, t + 1, last, k, v)
<1>1. /\ n \in {0, 1} /\ k \in {0, 1} /\ t + 1 \in Int /\ v # "ran"
      /\ (v = "no") = (w = "no") /\ (v = "due") = (w = "ran")
  BY DEF RowOK, Watch
<1>2. CASE w = "no"
  BY <1>1, <1>2 DEF RowOK, WeekOK, MonthOK
<1>3. CASE w # "no"
  <2>1. last \in Int /\ last <= t /\ last <= t + 1 /\ last # Never
    BY <1>3 DEF RowOK
  <2>2. ASSUME k = 1 PROVE n = 1 /\ SameAt(a, z, t + 1, t) /\ SameAt(a, z, last, t + 1)
    BY <2>2 DEF RowOK, SameAt
  <2>3. ASSUME a \in WeekRow PROVE WeekOK(a, z, t + 1, last, k, v)
    <3>1. /\ n = 1 => EventAt(a, z, t) <= t
          /\ n = 0 => WeekAt(z, last) # WeekAt(z, t)
      BY <1>3, <2>3 DEF RowOK, WeekOK
    <3>2. ASSUME k = 1 PROVE EventAt(a, z, t + 1) <= t + 1
      <4>1. EventAt(a, z, t + 1) = EventAt(a, z, t) /\ EventAt(a, z, t) \in Int
        BY <2>2, <3>2, EventSame, EventInt, <1>1
      <4> QED BY <4>1, <3>1, <3>2, <2>2
    <3>3. ASSUME k = 0 PROVE WeekAt(z, last) # WeekAt(z, t + 1)
      <4>1. /\ WeekAt(z, last) \in Int /\ WeekAt(z, t) \in Int /\ WeekAt(z, t + 1) \in Int
            /\ WeekAt(z, last) <= WeekAt(z, t) /\ WeekAt(z, t) <= WeekAt(z, t + 1)
        BY <2>1, <2>3, <1>1, WeekFacts
      <4>2. CASE n = 0
        BY <4>1, <4>2, <3>1
      <4>3. CASE n = 1
        <5>1. WeekAt(z, last) = WeekAt(z, t) /\ WeekAt(z, t + 1) # WeekAt(z, t)
          BY <4>3, <3>3, <2>3 DEF RowOK, SameAt
        <5> QED BY <5>1
      <4> QED BY <4>2, <4>3, <1>1
    <3> QED BY <1>1, <3>2, <3>3 DEF WeekOK
  <2>4. ASSUME a \notin WeekRow PROVE MonthOK(a, z, t + 1, last, k, v)
    <3> SUFFICES ASSUME z = 0, v \in {"ran", "due"}
                 PROVE  /\ last - eventOffset[a] = MonthStart(last)
                        /\ k = 0 => /\ MonthStart(t + 1) = MonthEnd(last)
                                    /\ t + 1 <= EventAt(a, z, t + 1)
      BY <1>1 DEF MonthOK
    <3>1. a \in MonthRow /\ w = "ran" /\ eventOffset[a] \in Nat
      BY <2>4, <1>1, CalendarFacts
    <3>2. /\ last - eventOffset[a] = MonthStart(last)
          /\ n = 0 => MonthStart(t) = MonthEnd(last) /\ t < EventAt(a, 0, t)
      BY <3>1, <2>4 DEF RowOK, MonthOK
    <3>3. /\ EventAt(a, 0, t) = MonthStart(t) + eventOffset[a]
          /\ EventAt(a, 0, t + 1) = MonthStart(t + 1) + eventOffset[a]
          /\ MonthAt(0, t) = <<Calendar!tm_year(t), Calendar!tm_mon(t)>>
          /\ MonthAt(0, last) = <<Calendar!tm_year(last), Calendar!tm_mon(last)>>
          /\ MonthAt(0, t + 1) = <<Calendar!tm_year(t + 1), Calendar!tm_mon(t + 1)>>
      BY <1>1, <2>1, <3>1, MonthEvent
    <3>4. /\ MonthStart(t) \in Int /\ MonthStart(t + 1) \in Int
          /\ MonthStart(t) + eventOffset[a] < MonthEnd(t) /\ MonthEnd(t) \in Int
      BY <1>1, <3>1, MonthBounds
    <3>5. ASSUME k = 0 PROVE MonthStart(t + 1) = MonthEnd(last) /\ t + 1 <= EventAt(a, z, t + 1)
      <4>1. CASE n = 0
        <5>1. t + 1 # MonthEnd(t)
          BY <4>1, <3>2, <3>3, <3>4, <3>1
        <5>2. MonthStart(t + 1) = MonthStart(t)
          BY <5>1, MonthTick DEF MonthStart
        <5> QED BY <5>2, <4>1, <3>1, <3>2, <3>3, <3>4
      <4>2. CASE n = 1
        <5>1. MonthAt(0, last) = MonthAt(0, t) /\ MonthAt(0, t + 1) # MonthAt(0, t)
          BY <4>2, <3>5, <2>4 DEF RowOK, SameAt
        <5>2. MonthEnd(last) = MonthEnd(t)
          BY <5>1, <3>3 DEF MonthEnd
        <5>3. t + 1 = MonthEnd(t) /\ MonthStart(t + 1) = t + 1
          BY <5>1, <3>3, MonthTick
        <5> QED BY <5>2, <5>3, <3>1, <3>3, <3>4
      <4> QED BY <4>1, <4>2, <1>1
    <3> QED BY <3>2, <3>5
  <2> QED BY <1>1, <1>3, <2>1, <2>2, <2>3, <2>4 DEF RowOK
<1> QED BY <1>2, <1>3

LEMMA RowUpdate ==
  ASSUME NEW a \in Calendar!Row, NEW z \in Int, NEW t \in Int, NEW last \in Int \cup {Never},
         NEW n, NEW w \in Watch, RowOK(a, z, t, last, n, w),
         NEW run, run = IF RunsAt(a, z, t, last) \/ BehindAt(a, t, last) THEN t ELSE last,
         NEW k, k = IF RunsAt(a, z, t, last) THEN n + 1 ELSE n,
         NEW v, v = WatchedAt(a, z, t, last, w)
  PROVE  RowOK(a, z, t, run, k, v)
<1>1. n \in {0, 1} /\ t # Never
  BY CalendarFacts DEF RowOK
<1>2. CASE BehindAt(a, t, last)
  <2>1. a \in WeekRow /\ last \in Int /\ last > t
    BY <1>2 DEF BehindAt
  <2>2. w = "no" /\ n = 0
    BY <1>1, <2>1 DEF RowOK
  <2>3. ~ RunsAt(a, z, t, last)
    BY <1>2, <2>1 DEF RunsAt, WeekRunsAt
  <2>4. v = "no" /\ k = 0
    BY <2>2, <2>3 DEF WatchedAt
  <2> QED BY <2>4, RowNew
<1>3. CASE RunsAt(a, z, t, last)
  <2>1. run = t
    BY <1>3
  <2>2. n = 0
    <3> SUFFICES ASSUME n = 1 PROVE FALSE
      BY <1>1
    <3>1. SameAt(a, z, last, t) /\ last \in Int
      BY DEF RowOK
    <3> QED BY <3>1, <1>3, RunsOnce
  <2>3. k = 1
    BY <2>2, <1>3
  <2>4. SameAt(a, z, t, t)
    BY DEF SameAt
  <2>5. ~ RunsAt(a, z, t, t)
    BY <2>4, RunsOnce
  <2>6. v # "no"
    BY <1>3 DEF WatchedAt
  <2>7. ASSUME a \in WeekRow PROVE WeekOK(a, z, t, t, 1, v)
    <3>1. EventAt(a, z, t) <= t
      BY <1>3, <2>7 DEF RunsAt, WeekRunsAt
    <3> QED BY <3>1, <2>5 DEF WeekOK
  <2>8. ASSUME a \notin WeekRow PROVE MonthOK(a, z, t, t, 1, v)
    <3> SUFFICES ASSUME z = 0, v \in {"ran", "due"} PROVE t - eventOffset[a] = MonthStart(t)
      BY DEF MonthOK
    <3>1. a \in MonthRow
      BY <2>8, CalendarFacts
    <3>2. t = EventAt(a, 0, t)
      <4>1. CASE w = "due"
        <5>1. /\ last \in Int /\ last - eventOffset[a] = MonthStart(last)
              /\ MonthStart(t) = MonthEnd(last) /\ t <= EventAt(a, 0, t)
          BY <4>1, <2>2, <2>8 DEF RowOK, MonthOK
        <5> QED BY <5>1, <3>1, <1>3, MonthRunsOnTime
      <4>2. CASE w # "due"
        BY <4>2, <1>3 DEF WatchedAt
      <4> QED BY <4>1, <4>2
    <3>3. EventAt(a, 0, t) = MonthStart(t) + eventOffset[a] /\ MonthStart(t) \in Int
      BY <3>1, MonthEvent, MonthBounds
    <3>4. eventOffset[a] \in Nat
      BY CalendarFacts
    <3> QED BY <3>2, <3>3, <3>4
  <2> QED BY <1>1, <2>1, <2>3, <2>4, <2>6, <2>7, <2>8 DEF RowOK
<1>4. CASE ~ RunsAt(a, z, t, last) /\ ~ BehindAt(a, t, last)
  <2>1. run = last /\ k = n /\ v = (IF w = "due" THEN "ran" ELSE w)
    BY <1>4 DEF WatchedAt
  <2>2. (v = "no") = (w = "no")
    BY <2>1
  <2>3. ASSUME a \in WeekRow PROVE WeekOK(a, z, t, last, n, v)
    BY <2>2, <2>3, <1>4 DEF RowOK, WeekOK
  <2>4. ASSUME a \notin WeekRow PROVE MonthOK(a, z, t, last, n, v)
    <3> SUFFICES ASSUME z = 0, v \in {"ran", "due"}
                 PROVE  /\ last - eventOffset[a] = MonthStart(last)
                        /\ n = 0 => /\ MonthStart(t) = MonthEnd(last)
                                    /\ t < EventAt(a, 0, t)
      <4>1. EventAt(a, z, t) \in Int
        BY EventInt
      <4> QED BY <4>1 DEF MonthOK
    <3>1. a \in MonthRow /\ w \in {"ran", "due"}
      BY <2>1, <2>4, CalendarFacts
    <3>2. /\ last \in Int /\ last - eventOffset[a] = MonthStart(last)
          /\ n = 0 => MonthStart(t) = MonthEnd(last) /\ t <= EventAt(a, 0, t)
      BY <3>1, <2>4 DEF RowOK, MonthOK
    <3>3. n = 0 => t # EventAt(a, 0, t)
      BY <3>1, <3>2, <1>4, MonthRunsOnTime
    <3>4. EventAt(a, 0, t) \in Int
      BY EventInt
    <3> QED BY <3>2, <3>3, <3>4
  <2> QED BY <2>1, <2>2, <2>3, <2>4 DEF RowOK
<1> QED BY <1>2, <1>3, <1>4

-----------------------------------------------------------------------------
(* CalendarAlarm computes these values from its variables.                 *)
LEMMA Computes ==
  ASSUME NEW a \in Calendar!Row
  PROVE  /\ Calendar!Runs(a) <=> RunsAt(a, zone, date, lastRun[a])
         /\ Calendar!Behind(a) <=> BehindAt(a, date, lastRun[a])
         /\ Calendar!eventTm(a) = EventAt(a, zone, date)
         /\ Calendar!Watched(a) = WatchedAt(a, zone, date, lastRun[a], watch[a])
         /\ \A t : Calendar!SamePeriod(a, t) <=> SameAt(a, zone, t, date)
<1>1. Calendar!Behind(a) <=> BehindAt(a, date, lastRun[a])
  BY DEF Calendar!Behind, BehindAt, Calendar!Registered
<1>2. Calendar!eventTm(a) = EventAt(a, zone, date)
  BY DEF Calendar!eventTm, EventAt, Calendar!nd_time_from_week, Calendar!nd_time_from_month,
     Calendar!MonthOf, MonthAt, Calendar!Local
<1>3. \A t : Calendar!SamePeriod(a, t) <=> SameAt(a, zone, t, date)
  BY DEF Calendar!SamePeriod, SameAt, Calendar!nd_time_week_index, WeekAt, Calendar!MonthOf,
     MonthAt, Calendar!Local
<1>4. Calendar!WeekRuns(a) <=> WeekRunsAt(a, zone, date, lastRun[a])
  BY <1>1, <1>2 DEF Calendar!WeekRuns, WeekRunsAt, Calendar!lastRenewTm, Calendar!Registered,
     Calendar!nd_time_week_index, WeekAt, Calendar!Local
<1>5. Calendar!MonthPassed(a, Calendar!Local(lastRun[a])) <=> MonthPassedAt(a, zone, date, lastRun[a])
  BY <1>2 DEF Calendar!MonthPassed, MonthPassedAt, MonthAt, Calendar!Local
<1>6. Calendar!Runs(a) <=> RunsAt(a, zone, date, lastRun[a])
  BY <1>2, <1>4, <1>5 DEF Calendar!Runs, RunsAt, Calendar!MonthRuns, Calendar!Registered
<1>7. Calendar!Watched(a) = WatchedAt(a, zone, date, lastRun[a], watch[a])
  BY <1>2, <1>6 DEF Calendar!Watched, WatchedAt
<1> QED BY <1>1, <1>2, <1>3, <1>6, <1>7

LEMMA CalendarTypes ==
  ASSUME Calendar!TypeOK
  PROVE  /\ date \in Int /\ zone \in Int
         /\ \A a \in Calendar!Row : lastRun[a] \in Int \cup {Never} /\ watch[a] \in Watch
BY CalendarFacts DEF Calendar!TypeOK, Watch

LEMMA CalendarInit == Calendar!Init => CalendarInv
<1> SUFFICES ASSUME Calendar!Init PROVE CalendarInv
  OBVIOUS
<1>1. /\ date \in Dates /\ zone = 0 /\ changed = FALSE
      /\ lastRun = [a \in Calendar!Row |-> Never]
      /\ calls = [a \in Calendar!Row |-> 0] /\ watch = [a \in Calendar!Row |-> "no"]
  BY DEF Calendar!Init, Calendar!Unknown
<1>2. Calendar!TypeOK
  BY <1>1, CalendarFacts DEF Calendar!TypeOK
<1> QED BY <1>1, <1>2, RowNew DEF CalendarInv

LEMMA TickCalendar == CalendarInv /\ Calendar!Tick => CalendarInv'
<1> SUFFICES ASSUME CalendarInv, Calendar!Tick PROVE CalendarInv'
  OBVIOUS
<1>1. /\ date + 1 \in Dates /\ date' = date + 1
      /\ calls' = [a \in Calendar!Row |-> IF Calendar!SamePeriod(a, date + 1) THEN calls[a] ELSE 0]
      /\ watch' = [a \in Calendar!Row |-> CASE watch[a] = "ran" -> "due" [] watch[a] = "due" -> "called"
                                          [] OTHER -> watch[a]]
      /\ UNCHANGED <<zone, lastRun, changed>>
  BY DEF Calendar!Tick
<1>2. Calendar!TypeOK
  BY DEF CalendarInv
<1>3. Calendar!TypeOK'
  <2>1. \A a \in Calendar!Row : calls[a] \in Nat /\ watch[a] \in Watch
    BY <1>2 DEF Calendar!TypeOK, Watch
  <2>2. calls' \in [Calendar!Row -> Nat]
    BY <1>1, <2>1
  <2>3. watch' \in [Calendar!Row -> Watch]
    BY <1>1, <2>1 DEF Watch
  <2> QED BY <1>1, <1>2, <2>2, <2>3 DEF Calendar!TypeOK, Watch
<1>4. ASSUME NEW a \in Calendar!Row
      PROVE  RowOK(a, zone', date', lastRun'[a], calls'[a], watch'[a])
  <2>1. /\ date \in Int /\ zone \in Int /\ lastRun[a] \in Int \cup {Never} /\ watch[a] \in Watch
        /\ RowOK(a, zone, date, lastRun[a], calls[a], watch[a])
    BY <1>2, CalendarTypes DEF CalendarInv
  <2>2. calls'[a] = IF SameAt(a, zone, date + 1, date) THEN calls[a] ELSE 0
    BY <1>1, Computes
  <2>3. watch'[a] = CASE watch[a] = "ran" -> "due" [] watch[a] = "due" -> "called"
                    [] OTHER -> watch[a]
    BY <1>1
  <2>4. RowOK(a, zone, date + 1, lastRun[a], calls'[a], watch'[a])
    BY <2>1, <2>2, <2>3, RowTick
  <2> QED BY <2>4, <1>1
<1> QED BY <1>3, <1>4 DEF CalendarInv

LEMMA ForgetCalendar ==
  ASSUME CalendarInv, Calendar!Forget, UNCHANGED <<lastRun, changed>>,
         date' \in Dates, zone' \in TimeZone
  PROVE  CalendarInv'
<1>1. calls' = [a \in Calendar!Row |-> 0] /\ watch' = [a \in Calendar!Row |-> "no"]
  BY DEF Calendar!Forget, Calendar!Unknown
<1>2. Calendar!TypeOK'
  BY <1>1 DEF CalendarInv, Calendar!TypeOK
<1>3. ASSUME NEW a \in Calendar!Row
      PROVE  RowOK(a, zone', date', lastRun'[a], calls'[a], watch'[a])
  BY <1>1, RowNew
<1> QED BY <1>2, <1>3 DEF CalendarInv

LEMMA UpdateCalendar ==
  ASSUME CalendarInv, NEW rows \in {WeekRow, MonthRow}, Calendar!Update(rows)
  PROVE  CalendarInv'
<1>1. /\ lastRun' = [a \in Calendar!Row |-> IF a \in rows /\ (Calendar!Runs(a) \/ Calendar!Behind(a))
                                            THEN date ELSE lastRun[a]]
      /\ changed' = (changed \/ \E a \in rows : Calendar!Runs(a) \/ Calendar!Behind(a))
      /\ calls' = [a \in Calendar!Row |-> IF a \in rows /\ Calendar!Runs(a) THEN calls[a] + 1
                                          ELSE calls[a]]
      /\ watch' = [a \in Calendar!Row |-> IF a \in rows THEN Calendar!Watched(a) ELSE watch[a]]
      /\ UNCHANGED <<date, zone>>
  BY DEF Calendar!Update
<1>2. Calendar!TypeOK
  BY DEF CalendarInv
<1>3. Calendar!TypeOK'
  <2>1. \A a \in Calendar!Row : /\ calls[a] \in Nat /\ watch[a] \in Watch
                                /\ lastRun[a] \in Dates \cup {Never}
    BY <1>2 DEF Calendar!TypeOK, Watch
  <2>2. calls' \in [Calendar!Row -> Nat]
    BY <1>1, <2>1
  <2>3. \A a \in Calendar!Row : Calendar!Watched(a) \in Watch
    BY <2>1 DEF Calendar!Watched, Watch
  <2>4. watch' \in [Calendar!Row -> Watch]
    BY <1>1, <2>1, <2>3
  <2>5. lastRun' \in [Calendar!Row -> Dates \cup {Never}]
    BY <1>1, <1>2, <2>1 DEF Calendar!TypeOK
  <2>6. changed' \in BOOLEAN
    BY <1>1
  <2> QED BY <1>1, <1>2, <2>2, <2>4, <2>5, <2>6 DEF Calendar!TypeOK, Watch
<1>4. ASSUME NEW a \in Calendar!Row
      PROVE  RowOK(a, zone', date', lastRun'[a], calls'[a], watch'[a])
  <2>1. /\ date \in Int /\ zone \in Int /\ lastRun[a] \in Int \cup {Never} /\ watch[a] \in Watch
        /\ RowOK(a, zone, date, lastRun[a], calls[a], watch[a])
    BY <1>2, CalendarTypes DEF CalendarInv
  <2>2. CASE a \in rows
    <3>1. /\ lastRun'[a] = IF RunsAt(a, zone, date, lastRun[a]) \/ BehindAt(a, date, lastRun[a])
                           THEN date ELSE lastRun[a]
          /\ calls'[a] = IF RunsAt(a, zone, date, lastRun[a]) THEN calls[a] + 1 ELSE calls[a]
          /\ watch'[a] = WatchedAt(a, zone, date, lastRun[a], watch[a])
      BY <1>1, <2>2, Computes
    <3>2. RowOK(a, zone, date, lastRun'[a], calls'[a], watch'[a])
      BY <2>1, <3>1, RowUpdate
    <3> QED BY <3>2, <1>1
  <2>3. CASE a \notin rows
    BY <2>1, <2>3, <1>1
  <2> QED BY <2>2, <2>3
<1> QED BY <1>3, <1>4 DEF CalendarInv

LEMMA setEventCalendar ==
  ASSUME CalendarInv, NEW b \in Calendar!Row, NEW t \in Dates, Calendar!setEvent(b, t)
  PROVE  CalendarInv'
<1>1. /\ lastRun' = [lastRun EXCEPT ![b] = t]
      /\ changed' = (changed \/ ~Calendar!Registered(b))
      /\ calls' = [calls EXCEPT ![b] = 0] /\ watch' = [watch EXCEPT ![b] = "no"]
      /\ UNCHANGED <<date, zone>>
  BY DEF Calendar!setEvent
<1>2. Calendar!TypeOK
  BY DEF CalendarInv
<1>3. Calendar!TypeOK'
  BY <1>1, <1>2 DEF Calendar!TypeOK
<1>4. ASSUME NEW a \in Calendar!Row
      PROVE  RowOK(a, zone', date', lastRun'[a], calls'[a], watch'[a])
  <2>1. CASE a = b
    <3>1. calls'[a] = 0 /\ watch'[a] = "no"
      BY <1>1, <1>2, <2>1 DEF Calendar!TypeOK
    <3> QED BY <3>1, RowNew
  <2>2. CASE a # b
    <3>1. calls'[a] = calls[a] /\ watch'[a] = watch[a] /\ lastRun'[a] = lastRun[a]
      BY <1>1, <1>2, <2>2 DEF Calendar!TypeOK
    <3> QED BY <3>1, <1>1 DEF CalendarInv
  <2> QED BY <2>1, <2>2
<1> QED BY <1>3, <1>4 DEF CalendarInv

LEMMA SameCalendar ==
  ASSUME CalendarInv, UNCHANGED <<date, zone, lastRun, calls, watch>>, changed' \in BOOLEAN
  PROVE  CalendarInv'
BY DEF CalendarInv, Calendar!TypeOK

LEMMA StepCalendar == CalendarInv /\ [MCNext]_<<part, vars, calendarVars>> => CalendarInv'
<1> SUFFICES ASSUME CalendarInv, [MCNext]_<<part, vars, calendarVars>> PROVE CalendarInv'
  OBVIOUS
<1>1. CASE UNCHANGED calendarVars
  BY <1>1, SameCalendar DEF calendarVars, CalendarInv, Calendar!TypeOK
<1>2. CASE Calendar!Next
  <2>1. CASE Calendar!Tick
    BY <2>1, TickCalendar
  <2>2. ASSUME NEW t \in Dates, Calendar!SetBack(t) PROVE CalendarInv'
    BY <2>2, ForgetCalendar DEF Calendar!SetBack, CalendarInv, Calendar!TypeOK
  <2>3. ASSUME NEW tz \in TimeZone, Calendar!setTimeZone(tz) PROVE CalendarInv'
    BY <2>3, ForgetCalendar DEF Calendar!setTimeZone, CalendarInv, Calendar!TypeOK
  <2>4. CASE Calendar!Update(WeekRow)
    BY <2>4, UpdateCalendar
  <2>5. CASE Calendar!Update(MonthRow)
    BY <2>5, UpdateCalendar
  <2>6. ASSUME NEW a \in Calendar!Row, NEW t \in Dates, Calendar!setEvent(a, t) PROVE CalendarInv'
    BY <2>6, setEventCalendar
  <2>7. CASE Calendar!ClearDataChange
    BY <2>7, SameCalendar DEF Calendar!ClearDataChange, Calendar!history
  <2> QED BY <1>2, <2>1, <2>2, <2>3, <2>4, <2>5, <2>6, <2>7 DEF Calendar!Next
<1> QED BY <1>1, <1>2 DEF MCNext

LEMMA CalendarInvExact == CalendarInv => CalendarExact
<1> SUFFICES ASSUME CalendarInv PROVE CalendarExact
  OBVIOUS
<1>1. Calendar!TypeOK
  BY DEF CalendarInv
<1>2. Calendar!OncePerPeriod
  BY DEF CalendarInv, RowOK, Calendar!OncePerPeriod
<1>3. ASSUME NEW a \in WeekRow, watch[a] # "no"
      PROVE  calls[a] = 1 \/ Calendar!Runs(a) <=> date >= Calendar!eventTm(a)
  <2>1. a \in Calendar!Row
    BY CalendarFacts
  <2>2. /\ lastRun[a] \in Int /\ lastRun[a] <= date /\ date \in Int /\ zone \in Int
        /\ calls[a] \in {0, 1}
        /\ calls[a] = 1 => EventAt(a, zone, date) <= date
        /\ calls[a] = 0 => WeekAt(zone, lastRun[a]) # WeekAt(zone, date)
    BY <1>1, <1>3, <2>1, CalendarTypes DEF CalendarInv, RowOK, WeekOK
  <2>3. Calendar!Runs(a) <=> /\ WeekAt(zone, lastRun[a]) # WeekAt(zone, date)
                             /\ EventAt(a, zone, date) <= date
    BY <2>1, <2>2, WeekRuns, Computes
  <2>4. EventAt(a, zone, date) \in Int /\ Calendar!eventTm(a) = EventAt(a, zone, date)
    BY <2>1, <2>2, EventInt, Computes
  <2> QED BY <2>2, <2>3, <2>4
<1>4. Calendar!CalledWhenDue
  BY <1>3 DEF Calendar!CalledWhenDue
<1>5. ASSUME NEW a \in Calendar!Row, zone = 0, watch[a] = "ran"
      PROVE  calls[a] = 1 <=> date >= Calendar!eventTm(a)
  <2>1. CASE a \in WeekRow
    <3>1. ~ Calendar!Runs(a)
      BY <1>5, <2>1, Computes DEF CalendarInv, RowOK, WeekOK
    <3> QED BY <1>3, <1>5, <2>1, <3>1
  <2>2. CASE a \notin WeekRow
    <3>1. a \in MonthRow /\ date \in Int /\ zone \in Int /\ lastRun[a] \in Int
      BY <1>1, <1>5, <2>2, CalendarFacts, CalendarTypes DEF CalendarInv, RowOK
    <3>2. /\ calls[a] \in {0, 1} /\ lastRun[a] <= date
          /\ calls[a] = 1 => SameAt(a, 0, lastRun[a], date)
          /\ lastRun[a] - eventOffset[a] = MonthStart(lastRun[a])
          /\ calls[a] = 0 => date < EventAt(a, 0, date)
      BY <1>5, <2>2 DEF CalendarInv, RowOK, MonthOK
    <3>3. Calendar!eventTm(a) = EventAt(a, 0, date) /\ EventAt(a, 0, date) \in Int
      BY <1>5, <3>1, Computes, EventInt
    <3>4. EventAt(a, 0, lastRun[a]) = lastRun[a]
      <4>1. EventAt(a, 0, lastRun[a]) = MonthStart(lastRun[a]) + eventOffset[a]
        BY <3>1, MonthEvent
      <4>2. eventOffset[a] \in Nat
        BY CalendarFacts
      <4> QED BY <3>1, <3>2, <4>1, <4>2
    <3>5. calls[a] = 1 => EventAt(a, 0, date) = lastRun[a]
      BY <3>1, <3>2, <3>4, EventSame
    <3> QED BY <3>1, <3>2, <3>3, <3>5
  <2> QED BY <2>1, <2>2
<1>6. Calendar!StaysOnTime
  BY <1>5 DEF Calendar!StaysOnTime
<1> QED BY <1>1, <1>2, <1>4, <1>6 DEF CalendarExact

(* A weekly row is called exactly when its time in the week has come, a    *)
(* monthly one at its time in every month, and neither twice, for every    *)
(* calendar, every row and every time zone.                                *)
THEOREM CalendarCorrect == MCSpec => []CalendarExact
<1>1. MCInit => CalendarInv
  BY CalendarInit DEF MCInit
<1> QED BY <1>1, StepCalendar, CalendarInvExact, PTL DEF MCSpec
=============================================================================
