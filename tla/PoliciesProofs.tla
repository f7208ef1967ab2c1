----------------------------- MODULE PoliciesProofs ----------------------------
(***************************************************************************)
(* Proofs for days, weeks, months and years of any length, any rows and    *)
(* any moment: calendar windows are the periods they name; hard limits     *)
(* hold in each of them, and in any rolling window; and the status page    *)
(* shows what the checks go by.                                            *)
(***************************************************************************)
EXTENDS Policies, SumTheorems, TLAPS

LEMMA DivMod ==
  ASSUME NEW a \in Int, NEW d \in Nat \ {0}
  PROVE  /\ a \div d \in Int
         /\ a % d \in 0..(d - 1)
         /\ a = (a \div d) * d + (a % d)
  OBVIOUS

\* Division gives a quotient, the multiple it stands for, and a rest.
LEMMA Division ==
  ASSUME NEW a \in Int, NEW d \in Nat \ {0}
  PROVE  \E q \in Int, m \in Int, r \in 0..(d - 1) :
            a \div d = q /\ a % d = r /\ m = q * d /\ a = m + r
<1>1. a \div d \in Int /\ a % d \in 0..(d - 1) /\ a = (a \div d) * d + (a % d)
  BY DivMod
<1>2. PICK q \in Int, r \in 0..(d - 1) : a \div d = q /\ a % d = r /\ a = q * d + r
  BY <1>1
<1>3. PICK m \in Int : m = q * d
  OBVIOUS
<1>4. QED
  BY <1>2, <1>3

LEMMA NextMultiple ==
  ASSUME NEW x \in Int, NEW y \in Int, NEW d \in Nat \ {0}, x < y
  PROVE  x * d + d <= y * d
<1>1. PICK m \in Nat : y = x + 1 + m
  <2>1. y - x - 1 \in Nat /\ y = x + 1 + (y - x - 1)
    OBVIOUS
  <2>2. QED
    BY <2>1
<1>2. m * d >= 0 /\ y * d = x * d + d + m * d
  BY <1>1
<1>3. QED
  BY <1>2

\* A quotient is known by the multiples of the divisor on either side.
LEMMA DivIs ==
  ASSUME NEW a \in Int, NEW q \in Int, NEW d \in Nat \ {0}
  PROVE  a \div d = q <=> q * d <= a /\ a < q * d + d
<1>1. /\ a \div d \in Int
      /\ (a \div d) * d <= a /\ a < (a \div d) * d + d
  BY DivMod
<1>2. CASE a \div d < q
  BY <1>1, <1>2, NextMultiple
<1>3. CASE q < a \div d
  BY <1>1, <1>3, NextMultiple
<1>4. CASE a \div d = q
  BY <1>1, <1>4
<1>5. QED
  BY <1>1, <1>2, <1>3, <1>4

\* Between a multiple of d and the next one.
LEMMA SameQuotient ==
  ASSUME NEW t \in Int, NEW h \in Int, NEW d \in Nat \ {0}
  PROVE  t - (t % d) <= h /\ h < t - (t % d) + d <=> h \div d = t \div d
<1>1. t \div d \in Int /\ t - (t % d) = (t \div d) * d
  BY DivMod
<1>2. QED
  BY <1>1, DivIs

-----------------------------------------------------------------------------
(* One lemma for each kind of window.                                      *)

\* w contains h exactly if h is in the period of t.
IsPeriod(w, bounds, t, h) ==
    bounds.start <= h /\ h < bounds.end <=> Period(w, h) = Period(w, t)

LEMMA DayIsPeriod ==
  ASSUME NEW w, w.type = "DAY", w.zone \in Int, w.startHour \in 0..(DayHours - 1),
         NEW t \in Int, NEW h \in Int
  PROVE  IsPeriod(w, DayBounds(w, t), t, h)
<1>1. DayHours \in Nat \ {0}
  BY CalendarAssumption
<1>2. PICK zone \in Int, hour \in 0..(DayHours - 1), local \in Int :
        zone = w.zone /\ hour = w.startHour /\ local = t + zone
  BY <1>1
<1>3. PICK q \in Int, m \in Int, rest \in 0..(DayHours - 1) :
        local \div DayHours = q /\ local % DayHours = rest /\ m = q * DayHours /\ local = m + rest
  BY <1>1, Division
<1>4. PICK x \in Int : x = local - hour
  OBVIOUS
<1>5. q - 1 \in Int /\ m - DayHours \in Int /\ (q - 1) * DayHours = m - DayHours
  BY <1>1, <1>3
<1>6. /\ rest < hour => m - DayHours <= x /\ x < m - DayHours + DayHours
      /\ ~(rest < hour) => m <= x /\ x < m + DayHours
  BY <1>1, <1>3, <1>4
<1>7. PICK day \in Int, n \in Int :
        /\ n = day * DayHours /\ n = IF rest < hour THEN m - DayHours ELSE m
        /\ (local - hour) \div DayHours = day
  <2>1. CASE rest < hour
    <3>1. x \div DayHours = q - 1
      BY <1>1, <1>5, <1>6, <2>1, DivIs
    <3>2. QED
      BY <1>4, <1>5, <2>1, <3>1
  <2>2. CASE ~(rest < hour)
    <3>1. x \div DayHours = q
      BY <1>1, <1>3, <1>6, <2>2, DivIs
    <3>2. QED
      BY <1>3, <1>4, <2>2, <3>1
  <2>3. QED
    BY <2>1, <2>2
<1>8. /\ DayBounds(w, t).start = n + hour - zone
      /\ DayBounds(w, t).end = n + hour - zone + DayHours
  <2>1. Midnight(local) = m
    <3>1. Midnight(local) = local - rest
      BY <1>3 DEF Midnight
    <3>2. local - rest = m
      BY <1>3
    <3>3. QED
      BY <3>1, <3>2
  <2>2. DayBounds(w, t).start = IF rest < hour THEN (Midnight(local) + hour - zone) - DayHours
                                ELSE Midnight(local) + hour - zone
    BY <1>2, <1>3 DEF DayBounds, Bounds
  <2>3. DayBounds(w, t).start = n + hour - zone
    BY <1>1, <1>7, <2>1, <2>2
  <2>4. DayBounds(w, t).end = DayBounds(w, t).start + DayHours
    BY DEF DayBounds, Bounds
  <2>5. QED
    BY <2>3, <2>4
<1>9. /\ Period(w, h) = (h + zone - hour) \div DayHours
      /\ Period(w, t) = day
  BY <1>2, <1>7 DEF Period
<1>10. (h + zone - hour) \div DayHours = day
         <=> n <= h + zone - hour /\ h + zone - hour < n + DayHours
  <2>1. h + zone - hour \in Int
    BY <1>1
  <2>2. QED
    BY <1>1, <1>7, <2>1, DivIs
<1>11. QED
  BY <1>1, <1>8, <1>9, <1>10 DEF IsPeriod

\* The remainders of a number and of its remainder, counted from another day.
LEMMA SameRemainder ==
  ASSUME NEW W \in Nat \ {0}, NEW today \in Int, NEW day \in Int
  PROVE  ((today % W) - day) % W = (today - day) % W
<1>1. PICK a \in Int, r \in 0..(W - 1) : today % W = r /\ today = a * W + r
  BY DivMod
<1>2. PICK b \in Int, s \in 0..(W - 1) : (today - day) % W = s /\ today - day = b * W + s
  <2>1. today - day \in Int
    OBVIOUS
  <2>2. QED
    BY <2>1, DivMod
<1>3. PICK c \in Int, v \in 0..(W - 1) : (r - day) % W = v /\ r - day = c * W + v /\ (r - day) \div W = c
  <2>1. r - day \in Int
    OBVIOUS
  <2>2. QED
    BY <2>1, DivMod
<1>4. PICK A \in Int, B \in Int, C \in Int : A = a * W /\ B = b * W /\ C = c * W
  OBVIOUS
<1>5. (b - a) * W = B - A /\ b - a \in Int
  BY <1>4
<1>6. r - day = B - A + s
  BY <1>1, <1>2, <1>4
<1>7. (r - day) \div W = b - a
  <2>1. B - A <= r - day /\ r - day < B - A + W /\ r - day \in Int
    BY <1>4, <1>6
  <2>2. QED
    BY <1>5, <2>1, DivIs
<1>8. C = B - A
  BY <1>3, <1>4, <1>5, <1>7
<1>9. QED
  BY <1>1, <1>2, <1>3, <1>4, <1>6, <1>8

\* From one multiple of D to another.
LEMMA Multiples ==
  ASSUME NEW D \in Nat \ {0}, NEW first \in Int, NEW last \in Int, NEW h \in Int
  PROVE  first * D <= h /\ h < last * D <=> first <= h \div D /\ h \div D < last
<1>1. PICK day \in Int, n \in Int, r \in 0..(D - 1) :
        h \div D = day /\ h % D = r /\ n = day * D /\ h = n + r
  BY Division
<1>2. PICK F \in Int, L \in Int : F = first * D /\ L = last * D
  OBVIOUS
<1>3. /\ day < first => n + D <= F
      /\ first < day => F + D <= n
      /\ day < last => n + D <= L
      /\ last < day => L + D <= n
  BY <1>1, <1>2, NextMultiple
<1>4. /\ day = first => n = F
      /\ day = last => n = L
  BY <1>1, <1>2
<1>5. QED
  BY <1>1, <1>2, <1>3, <1>4

LEMMA WeekIsPeriod ==
  ASSUME NEW w, w.type = "WEEK", w.zone = 0, w.startHour = 0, w.startDay \in 0..(WeekDays - 1),
         NEW t \in Int, NEW h \in Int
  PROVE  IsPeriod(w, WeekBounds(w, t), t, h)
<1>1. DayHours \in Nat \ {0} /\ WeekDays \in Nat \ {0}
  BY CalendarAssumption
<1>2. PICK today \in Int, N \in Int :
        t \div DayHours = today /\ N = today * DayHours /\ t - (t % DayHours) = N
  <2>1. PICK q \in Int, m \in Int, r \in 0..(DayHours - 1) :
          t \div DayHours = q /\ t % DayHours = r /\ m = q * DayHours /\ t = m + r
    BY <1>1, Division
  <2>2. t - r = m
    BY <2>1
  <2>3. QED
    BY <2>1, <2>2
<1>3. PICK day \in Int : w.startDay = day
  BY <1>1
<1>4. PICK since \in Int : since = (today - day) % WeekDays
  <2>1. PICK x \in Int : x = today - day
    OBVIOUS
  <2>2. x % WeekDays \in Int
    BY <1>1, DivMod
  <2>3. QED
    BY <2>1, <2>2
<1>5. PICK first \in Int, S \in Int, length \in Int :
        /\ first = today - since
        /\ S = since * DayHours
        /\ length = WeekDays * DayHours
  BY <1>1
<1>6. /\ first * DayHours = N - S
      /\ (first + WeekDays) * DayHours = N - S + length
  BY <1>1, <1>2, <1>5
<1>7. N % DayHours = 0
  <2>1. N <= N /\ N < N + DayHours
    BY <1>1
  <2>2. N \div DayHours = today
    BY <1>1, <1>2, <2>1, DivIs
  <2>3. N = (N \div DayHours) * DayHours + (N % DayHours) /\ N % DayHours \in Int
    BY <1>1, DivMod
  <2>4. QED
    BY <1>2, <2>2, <2>3
<1>8. /\ WeekBounds(w, t).start = N - S
      /\ WeekBounds(w, t).end = N - S + length
  <2>1. t + w.zone = t
    OBVIOUS
  <2>2. Weekday(t + w.zone) = today % WeekDays
    BY <1>2, <2>1 DEF Weekday
  <2>3. (Weekday(t + w.zone) - w.startDay) % WeekDays = since
    <3>1. ((today % WeekDays) - day) % WeekDays = (today - day) % WeekDays
      BY <1>1, SameRemainder
    <3>2. QED
      BY <1>3, <1>4, <2>2, <3>1
  <2>4. Midnight(t) = N
    BY <1>2 DEF Midnight
  <2>5. Midnight(t) + w.zone = N
    BY <2>4
  <2>6. Midnight(Midnight(t) + w.zone) = N
    BY <1>7, <2>5 DEF Midnight
  <2>7. QED
    BY <1>1, <1>5, <2>3, <2>6 DEF WeekBounds, Bounds
<1>9. N - S <= h /\ h < N - S + length
        <=> first <= h \div DayHours /\ h \div DayHours < first + WeekDays
  <2>1. first + WeekDays \in Int
    BY <1>1
  <2>2. QED
    BY <1>1, <1>6, <2>1, Multiples
<1>10. PICK here \in Int : here = h \div DayHours
  BY <1>1, DivMod
<1>11. first <= here /\ here < first + WeekDays
         <=> (here - day) \div WeekDays = (today - day) \div WeekDays
  <2>1. PICK x \in Int, y \in Int : x = today - day /\ y = here - day
    OBVIOUS
  <2>2. x - (x % WeekDays) <= y /\ y < x - (x % WeekDays) + WeekDays
          <=> y \div WeekDays = x \div WeekDays
    BY <1>1, SameQuotient
  <2>3. x % WeekDays = since
    BY <1>4, <2>1
  <2>4. QED
    BY <1>1, <1>5, <2>1, <2>2, <2>3
<1>12. /\ Period(w, h) = (here - day) \div WeekDays
       /\ Period(w, t) = (today - day) \div WeekDays
  <2>1. h + w.zone = h /\ t + w.zone = t
    OBVIOUS
  <2>2. QED
    BY <1>2, <1>3, <1>10, <2>1 DEF Period
<1>13. QED
  BY <1>8, <1>9, <1>10, <1>11, <1>12 DEF IsPeriod

LEMMA SpanIsPeriod ==
  ASSUME NEW w, w.zone \in Int, w.startHour = 0, NEW days \in Nat \ {0},
         NEW t \in Int, NEW h \in Int,
         \A g \in Int : Period(w, g) = (g + w.zone) \div (days * DayHours)
  PROVE  IsPeriod(w, SpanBounds(w, t, days), t, h)
<1>1. PICK span \in Nat \ {0} : span = days * DayHours
  BY CalendarAssumption
<1>2. PICK local \in Int, g \in Int, zone \in Int :
        zone = w.zone /\ local = t + zone /\ g = h + zone
  OBVIOUS
<1>3. PICK rest \in Int : rest = local % span
  <2>1. local % span \in Int
    BY DivMod
  <2>2. QED
    BY <2>1
<1>4. /\ SpanBounds(w, t, days).start = local - rest - zone
      /\ SpanBounds(w, t, days).end = local - rest - zone + span
  BY <1>1, <1>2, <1>3 DEF SpanBounds, Bounds
<1>5. local - rest <= g /\ g < local - rest + span <=> g \div span = local \div span
  BY <1>3, SameQuotient
<1>6. Period(w, h) = g \div span /\ Period(w, t) = local \div span
  BY <1>1, <1>2
<1>7. local - rest - zone <= h /\ h < local - rest - zone + span
        <=> local - rest <= g /\ g < local - rest + span
  BY <1>2
<1>8. QED
  BY <1>4, <1>5, <1>6, <1>7 DEF IsPeriod

LEMMA WindowHolds ==
  ASSUME NEW w, w.type \in CalendarTypes, Regular(w), w.zone \in Int, NEW t \in Int, NEW h \in Int
  PROVE  IsPeriod(w, GetWindowBounds(w, t), t, h)
<1>1. CASE w.type = "DAY"
  <2>1. w.startHour \in 0..(DayHours - 1) /\ GetWindowBounds(w, t) = DayBounds(w, t)
    BY <1>1 DEF Regular, ValidWindow, GetWindowBounds
  <2>2. QED
    BY <1>1, <2>1, DayIsPeriod
<1>2. CASE w.type = "WEEK"
  <2>1. /\ w.startDay \in 0..(WeekDays - 1) /\ w.startHour = 0 /\ w.zone = 0
        /\ GetWindowBounds(w, t) = WeekBounds(w, t)
    BY <1>2 DEF Regular, ValidWindow, GetWindowBounds, CalendarTypes
  <2>2. QED
    BY <1>2, <2>1, WeekIsPeriod
<1>3. CASE w.type = "MONTH"
  <2>1. w.startHour = 0 /\ GetWindowBounds(w, t) = SpanBounds(w, t, MonthDays)
    BY <1>3 DEF Regular, GetWindowBounds, CalendarTypes
  <2>2. \A g \in Int : Period(w, g) = (g + w.zone) \div (MonthDays * DayHours)
    <3>1. DayHours * MonthDays = MonthDays * DayHours
      BY CalendarAssumption
    <3>2. QED
      BY <1>3, <3>1 DEF Period
  <2>3. QED
    BY <2>1, <2>2, SpanIsPeriod, CalendarAssumption
<1>4. CASE w.type = "YEAR"
  <2>1. w.startHour = 0 /\ GetWindowBounds(w, t) = SpanBounds(w, t, MonthDays * YearMonths)
    BY <1>4 DEF Regular, GetWindowBounds, CalendarTypes
  <2>2. /\ DayHours * MonthDays * YearMonths = MonthDays * YearMonths * DayHours
        /\ MonthDays * YearMonths \in Nat \ {0}
    BY CalendarAssumption
  <2>3. \A g \in Int : Period(w, g) = (g + w.zone) \div (MonthDays * YearMonths * DayHours)
    BY <1>4, <2>2 DEF Period
  <2>4. QED
    BY <2>1, <2>2, <2>3, SpanIsPeriod
<1>5. QED
  BY <1>1, <1>2, <1>3, <1>4 DEF CalendarTypes

-----------------------------------------------------------------------------
LEMMA Updated ==
  ASSUME NEW S, NEW T, NEW f \in [S -> [T -> Nat]], NEW s \in S, NEW x \in T, NEW n \in Nat
  PROVE  [f EXCEPT ![s][x] = n] \in [S -> [T -> Nat]]
  OBVIOUS

LEMMA OneLess ==
  ASSUME NEW S, NEW T, NEW f \in [S -> [T -> Nat]], NEW s \in S, NEW x \in T, f[s][x] > 0
  PROVE  [f EXCEPT ![s][x] = @ - 1] \in [S -> [T -> Nat]]
<1>1. f[s][x] - 1 \in Nat
  OBVIOUS
<1>2. QED
  BY <1>1, Updated

LEMMA TypeInit == Init => TypeOK
  BY PoliciesAssumption DEF Init, TypeOK

LEMMA TypeStep == TypeOK /\ [Next]_vars => TypeOK'
<1> SUFFICES ASSUME TypeOK, [Next]_vars PROVE TypeOK'
  OBVIOUS
<1>0. Amounts \subseteq Nat /\ MaxRequests \in Nat
  BY PoliciesAssumption
<1> USE <1>0 DEF TypeOK
<1>1. ASSUME NEW t \in Types, NEW n \in Amounts, Request(t, n) PROVE TypeOK'
  <2>1. pending[t][n] + 1 \in Nat
    OBVIOUS
  <2>2. pending' \in [Types -> [Amounts -> Nat]] /\ passed' \in 0..MaxRequests
    BY <1>1, <2>1, Updated DEF Request
  <2>3. QED
    BY <1>1, <2>2 DEF Request
<1>2. ASSUME NEW t \in Types, NEW n \in Nat, NEW c \in Nat, Recorded(t, n, c)
      PROVE  recorded' \in [Types -> [Hours -> Nat]] /\ checked' \in [Types -> [Hours -> Nat]]
  <2>1. recorded[t][now] + n \in Nat /\ checked[t][now] + c \in Nat
    OBVIOUS
  <2>2. QED
    BY <1>2, <2>1, Updated DEF Recorded
<1>3. ASSUME NEW t \in Types, NEW n \in Amounts, Release(t, n) PROVE TypeOK'
  <2>1. pending' \in [Types -> [Amounts -> Nat]]
    BY <1>3, OneLess DEF Release
  <2>2. QED
    BY <1>3, <2>1 DEF Release
<1>4. ASSUME NEW t \in Types, NEW n \in Amounts, NEW m \in Amounts, Complete(t, n, m) PROVE TypeOK'
  <2>1. pending' \in [Types -> [Amounts -> Nat]]
    BY <1>4, OneLess DEF Complete
  <2>2. Recorded(t, m, Lesser(m, n)) /\ m \in Nat /\ Lesser(m, n) \in Nat
    BY <1>4 DEF Complete, Lesser
  <2>3. QED
    BY <1>2, <1>4, <2>1, <2>2 DEF Complete
<1>5. ASSUME NEW t \in Types, NEW n \in Nat, NEW c \in Nat, Record(t, n, c), granted' \in Nat
      PROVE  TypeOK'
  <2>1. Recorded(t, n, c) /\ passed' \in 0..MaxRequests
    BY <1>5 DEF Record
  <2>2. QED
    BY <1>2, <1>5, <2>1 DEF Record
<1>6. ASSUME NEW t \in Types, NEW n \in Amounts,
             \/ RecordEvent(t, n)
             \/ RecordHardLimits(t, n)
             \/ RecordThreshold(t, n)
             \/ RecordUnlimited(t, n)
      PROVE  TypeOK'
  <2>1. PICK c \in Nat : Record(t, n, c)
    BY <1>6 DEF RecordEvent, RecordHardLimits, RecordThreshold, RecordUnlimited
  <2>2. granted' \in Nat /\ n \in Nat
    BY <1>6 DEF RecordEvent, RecordHardLimits, RecordThreshold, RecordUnlimited
  <2>3. QED
    BY <1>5, <2>1, <2>2
<1>7. ASSUME NEW t \in Types, NEW n \in Amounts, RecordAllowance(t, n) PROVE TypeOK'
  <2>1. n \in Nat /\ granted \in Nat
    OBVIOUS
  <2>2. Record(t, 2 * n, 0) /\ n <= granted /\ granted' = granted - n
    BY <1>7 DEF RecordAllowance
  <2>3. granted' \in Nat /\ 2 * n \in Nat
    BY <2>1, <2>2
  <2>4. QED
    BY <1>5, <2>2, <2>3
<1>8. CASE Tick
  BY <1>8 DEF Tick
<1>9. CASE UNCHANGED vars
  BY <1>9 DEF vars
<1>10. QED
  BY <1>1, <1>3, <1>4, <1>6, <1>7, <1>8, <1>9 DEF Next, Stop

\* Usage, reservations and grants stay numbers that are not negative, whatever is
\* checked, recorded, completed and released, under any configuration.
THEOREM TypeCorrect == Spec => []TypeOK
  BY TypeInit, TypeStep, PTL DEF Spec

\* A calendar window holds an hour exactly if the hour is in the same period as now: the
\* windows of a limit tile time without overlap or gap, however long days, weeks, months
\* and years are (months are as long as each other here).
THEOREM WindowsArePeriods == Spec => []WindowIsPeriod
<1>1. TypeOK => WindowIsPeriod
  <2> SUFFICES ASSUME TypeOK, NEW w \in RowWindows, w.type \in CalendarTypes, Regular(w),
                      NEW h \in Hours
               PROVE  IsPeriod(w, GetWindowBounds(w, now), now, h)
    BY DEF WindowIsPeriod, IsPeriod
  <2>1. w.zone \in Int
    BY PoliciesAssumption DEF TypeOK, RowWindows
  <2>2. now \in Int /\ h \in Int
    BY PoliciesAssumption DEF TypeOK
  <2>3. QED
    BY <2>1, <2>2, WindowHolds
<1>2. QED
  BY <1>1, TypeCorrect, PTL

-----------------------------------------------------------------------------
(* Hard limits.                                                            *)

\* The hours that count now, and those that one limit is about.
Counted(w, t) == {h \in Hours : GetWindowBounds(w, t).start <= h /\ h < GetWindowBounds(w, t).end}
Group(w, g) == {h \in Hours : Together(w, g, h)}

LEMMA HoursFinite ==
  ASSUME NEW w, NEW t
  PROVE  IsFiniteSet(Counted(w, t)) /\ IsFiniteSet(Group(w, t))
  BY FiniteAssumption, FS_Subset DEF Counted, Group

LEMMA ByKind ==
  ASSUME NEW w, Regular(w), w.zone \in Int
  PROVE  \/ w.type \in CalendarTypes
         \/ /\ w.type = "ROLLING" /\ w.duration > 0
            /\ \A t : GetWindowBounds(w, t).start = t - w.duration /\ GetWindowBounds(w, t).end = t + 1
         \/ /\ w.type = "LIFETIME"
            /\ \A t : GetWindowBounds(w, t).start = 0 /\ GetWindowBounds(w, t).end = t + 1
<1>1. CASE w.type \in CalendarTypes
  BY <1>1
<1>2. CASE w.type = "ROLLING"
  <2>1. \A t : GetWindowBounds(w, t) = Bounds(t - w.duration, t + 1)
    BY <1>2 DEF GetWindowBounds
  <2>2. QED
    BY <1>2, <2>1 DEF Bounds, Regular, ValidWindow, CalendarTypes
<1>3. CASE w.type = "LIFETIME"
  <2>1. \A t : GetWindowBounds(w, t) = Bounds(0, t + 1)
    BY <1>3 DEF GetWindowBounds
  <2>2. QED
    BY <1>3, <2>1 DEF Bounds
<1>4. QED
  BY <1>1, <1>2, <1>3 DEF Regular, ValidWindow

LEMMA BoundsAreInt ==
  ASSUME NEW w, w.type \in CalendarTypes, Regular(w), w.zone \in Int, NEW t \in Int
  PROVE  GetWindowBounds(w, t).start \in Int /\ GetWindowBounds(w, t).end \in Int
<1>1. PICK zone \in Int, hour \in Int : zone = w.zone /\ hour = w.startHour
  BY CalendarAssumption DEF Regular, ValidWindow
<1>2. \A x \in Int : Midnight(x) \in Int /\ Weekday(x) \in Int
  BY CalendarAssumption, DivMod DEF Midnight, Weekday
<1>3. CASE w.type = "DAY"
  <2>1. PICK m \in Int : m = Midnight(t + zone)
    BY <1>2
  <2>2. PICK today \in Int : today = m + hour - zone
    OBVIOUS
  <2>3. \/ GetWindowBounds(w, t).start = today - DayHours
        \/ GetWindowBounds(w, t).start = today
    BY <1>1, <1>3, <2>1, <2>2 DEF GetWindowBounds, DayBounds, Bounds
  <2>4. GetWindowBounds(w, t).end = GetWindowBounds(w, t).start + DayHours
    BY <1>3 DEF GetWindowBounds, DayBounds, Bounds
  <2>5. QED
    BY <2>2, <2>3, <2>4, CalendarAssumption
<1>4. CASE w.type = "WEEK"
  <2>1. PICK day \in Int : day = w.startDay
    BY <1>4, CalendarAssumption DEF Regular, ValidWindow
  <2>2. PICK d \in Int : d = (Weekday(t + zone) - day) % WeekDays
    <3>1. PICK x \in Int : x = Weekday(t + zone) - day
      BY <1>2
    <3>2. x % WeekDays \in Int
      BY CalendarAssumption, DivMod
    <3>3. QED
      BY <3>1, <3>2
  <2>3. PICK m \in Int : m = Midnight(Midnight(t) + zone)
    <3>1. PICK x \in Int : x = Midnight(t) + zone
      BY <1>2
    <3>2. QED
      BY <1>2, <3>1
  <2>4. PICK ahead \in Int, length \in Int : ahead = d * DayHours /\ length = WeekDays * DayHours
    BY CalendarAssumption
  <2>5. /\ GetWindowBounds(w, t).start = m - ahead + hour - zone
        /\ GetWindowBounds(w, t).end = GetWindowBounds(w, t).start + length
    BY <1>1, <1>4, <2>1, <2>2, <2>3, <2>4 DEF GetWindowBounds, WeekBounds, Bounds
  <2>6. QED
    BY <2>5
<1>5. ASSUME NEW days \in Nat \ {0}
      PROVE  SpanBounds(w, t, days).start \in Int /\ SpanBounds(w, t, days).end \in Int
  <2>1. PICK length \in Nat \ {0} : length = days * DayHours
    BY CalendarAssumption
  <2>2. PICK local \in Int : local = t + zone
    OBVIOUS
  <2>3. PICK r \in Int : r = local % length
    <3>1. local % length \in Int
      BY DivMod
    <3>2. QED
      BY <3>1
  <2>4. /\ SpanBounds(w, t, days).start = local - r + hour - zone
        /\ SpanBounds(w, t, days).end = SpanBounds(w, t, days).start + length
    BY <1>1, <2>1, <2>2, <2>3 DEF SpanBounds, Bounds
  <2>5. QED
    BY <2>4
<1>6. CASE w.type = "MONTH"
  BY <1>5, <1>6, CalendarAssumption DEF GetWindowBounds
<1>7. CASE w.type = "YEAR"
  <2>1. MonthDays * YearMonths \in Nat \ {0}
    BY CalendarAssumption
  <2>2. QED
    BY <1>5, <1>7, <2>1 DEF GetWindowBounds
<1>8. QED
  BY <1>3, <1>4, <1>6, <1>7 DEF CalendarTypes

\* What is recorded now counts.
LEMMA NowCounts ==
  ASSUME NEW w, Regular(w), w.zone \in Int, w.duration \in Nat, NEW t \in Hours
  PROVE  t \in Counted(w, t)
<1>1. t \in Nat
  BY PoliciesAssumption
<1>2. CASE w.type \in CalendarTypes
  <2>1. IsPeriod(w, GetWindowBounds(w, t), t, t)
    BY <1>1, <1>2, WindowHolds
  <2>2. QED
    BY <2>1 DEF IsPeriod, Counted
<1>3. CASE w.type \notin CalendarTypes
  BY <1>1, <1>3, ByKind DEF Counted
<1>4. QED
  BY <1>2, <1>3

\* Hours that one limit is about count when usage is recorded at one of them, but for
\* those to come.
LEMMA GroupCounts ==
  ASSUME NEW w, Regular(w), w.zone \in Int, w.duration \in Nat,
         NEW g \in Hours, NEW t \in Group(w, g), NEW h \in Group(w, g), h <= t
  PROVE  h \in Counted(w, t)
<1>1. g \in Nat /\ t \in Nat /\ h \in Nat /\ h \in Hours
  BY PoliciesAssumption DEF Group
<1>2. CASE w.type \in CalendarTypes
  <2>1. IsPeriod(w, GetWindowBounds(w, t), t, h)
    BY <1>1, <1>2, WindowHolds
  <2>2. Period(w, g) = Period(w, t) /\ Period(w, g) = Period(w, h)
    <3>1. w.type # "ROLLING" /\ w.type # "LIFETIME"
      BY <1>2 DEF CalendarTypes
    <3>2. QED
      BY <3>1 DEF Group, Together
  <2>3. QED
    BY <1>1, <2>1, <2>2 DEF IsPeriod, Counted
<1>3. CASE w.type = "ROLLING"
  <2>1. t <= g + w.duration /\ g <= h
    BY <1>3 DEF Group, Together
  <2>2. GetWindowBounds(w, t).start = t - w.duration /\ GetWindowBounds(w, t).end = t + 1
    BY <1>3, ByKind DEF CalendarTypes
  <2>3. QED
    BY <1>1, <2>1, <2>2 DEF Counted
<1>4. CASE w.type = "LIFETIME"
  <2>1. GetWindowBounds(w, t).start = 0 /\ GetWindowBounds(w, t).end = t + 1
    BY <1>4, ByKind DEF CalendarTypes
  <2>2. QED
    BY <1>1, <2>1 DEF Counted
<1>5. QED
  BY <1>2, <1>3, <1>4, ByKind

\* As time moves on, nothing that did not count comes to count again.
LEMMA CountsNoMore ==
  ASSUME NEW w, Regular(w), w.zone \in Int, w.duration \in Nat, NEW t \in Hours, t + 1 \in Hours,
         NEW h \in Counted(w, t + 1), h <= t
  PROVE  h \in Counted(w, t)
<1>1. t \in Nat /\ h \in Nat /\ h \in Hours /\ t + 1 \in Nat
  BY PoliciesAssumption DEF Counted
<1>2. PICK s \in Nat : s = t + 1
  BY <1>1
<1>3. GetWindowBounds(w, s).start <= h /\ h < GetWindowBounds(w, s).end
  BY <1>2 DEF Counted
<1>4. CASE w.type \in CalendarTypes
  <2>1. PICK a, z : GetWindowBounds(w, s).start = a /\ GetWindowBounds(w, s).end = z
    OBVIOUS
  <2>2. a \in Int /\ z \in Int
    BY <1>2, <1>4, <2>1, BoundsAreInt
  <2>3. IsPeriod(w, GetWindowBounds(w, s), s, s) /\ IsPeriod(w, GetWindowBounds(w, s), s, h)
        /\ IsPeriod(w, GetWindowBounds(w, s), s, t)
    BY <1>1, <1>2, <1>4, WindowHolds
  <2>4. a <= t /\ t < z
    BY <1>1, <1>2, <1>3, <2>1, <2>2, <2>3 DEF IsPeriod
  <2>5. Period(w, h) = Period(w, s) /\ Period(w, t) = Period(w, s)
    BY <1>3, <2>1, <2>3, <2>4 DEF IsPeriod
  <2>6. IsPeriod(w, GetWindowBounds(w, t), t, h)
    BY <1>1, <1>4, WindowHolds
  <2>7. QED
    BY <1>1, <2>5, <2>6 DEF IsPeriod, Counted
<1>5. CASE w.type \notin CalendarTypes
  BY <1>1, <1>2, <1>3, <1>5, ByKind DEF Counted
<1>6. QED
  BY <1>4, <1>5

WindowOf(t) == PolicyLimits[t].window

\* Nothing is recorded at an hour to come.
NothingAhead == \A t \in Types, h \in Hours : h > now => checked[t][h] = 0

\* A check lets no more pass than is recorded.
CheckedIsRecorded == \A t \in Types, h \in Hours : checked[t][h] <= recorded[t][h]

\* What the checks let pass and what is reserved fit in the limit.
Fits(t) ==
    SumFunctionOnSet(checked[t], Counted(WindowOf(t), now)) + PendingBytes(t)
        <= PolicyLimits[t].bytes

LimitInv ==
    /\ TypeOK
    /\ CheckedIsRecorded
    /\ NothingAhead
    /\ \A t \in Types : UnderLimit(t) => Fits(t)

LEMMA LimitIs ==
  ASSUME TypeOK, PolicyLimits # Unresolved, NEW t \in Types
  PROVE  /\ PolicyLimits[t].bytes \in Nat
         /\ PolicyLimits[t].threshold \in Nat \cup {NoThreshold}
         /\ PolicyLimits[t].bytes > 0 => WindowOf(t) \in RowWindows
         /\ PolicyLimits[t].bytes > 0 => WindowOf(t).zone \in Int /\ WindowOf(t).duration \in Nat
<1> DEFINE own == row.own
           plan == row.plan
           base == Limit(plan.bytes[t], IF plan.bytes[t] > 0 THEN plan.window ELSE NoWindow,
                         IF row.policy = "THRESHOLD" THEN plan.threshold[t] ELSE NoThreshold)
           l == PolicyLimits[t]
<1>1. /\ own.bytes[t] \in Nat /\ plan.bytes[t] \in Nat
      /\ own.threshold[t] \in Nat \cup {NoThreshold} /\ plan.threshold[t] \in Nat \cup {NoThreshold}
      /\ \A w \in RowWindows : w.zone \in Int /\ w.duration \in Nat
  BY PoliciesAssumption DEF TypeOK, RowWindows
<1>2. PolicyLimits = ApplyUserLimits(ApplyPlanLimits(plan, row.policy), own)
  BY DEF PolicyLimits, ResolveWithPlan
<1>3. ApplyPlanLimits(plan, row.policy)[t] = base
  BY DEF ApplyPlanLimits
<1>4. l = Limit(IF own.bytes[t] > 0 THEN own.bytes[t] ELSE base.bytes,
                IF own.bytes[t] > 0 THEN own.window ELSE base.window,
                IF own.threshold[t] # NoThreshold THEN own.threshold[t] ELSE base.threshold)
  <2> HIDE DEF base
  <2>1. QED
    BY <1>2, <1>3 DEF ApplyUserLimits
<1>5. /\ l.bytes = IF own.bytes[t] > 0 THEN own.bytes[t] ELSE base.bytes
      /\ l.window = IF own.bytes[t] > 0 THEN own.window ELSE base.window
      /\ l.threshold = IF own.threshold[t] # NoThreshold THEN own.threshold[t] ELSE base.threshold
  <2> HIDE DEF base
  <2>1. QED
    BY <1>4 DEF Limit
<1>6. /\ base.bytes = plan.bytes[t]
      /\ base.window = IF plan.bytes[t] > 0 THEN plan.window ELSE NoWindow
      /\ base.threshold = IF row.policy = "THRESHOLD" THEN plan.threshold[t] ELSE NoThreshold
  BY DEF Limit
<1>7. own.window \in RowWindows /\ plan.window \in RowWindows
  BY DEF RowWindows
<1> HIDE DEF base
<1>8. l.bytes > 0 => WindowOf(t) \in RowWindows
  BY <1>1, <1>5, <1>6, <1>7 DEF WindowOf
<1>9. QED
  BY <1>1, <1>5, <1>6, <1>8

LEMMA UnderLimitIs ==
  ASSUME TypeOK, NEW t \in Types, UnderLimit(t)
  PROVE  /\ PolicyLimits[t].bytes \in Nat \ {0} /\ Regular(WindowOf(t)) /\ ValidWindow(WindowOf(t))
         /\ WindowOf(t).zone \in Int /\ WindowOf(t).duration \in Nat
  BY LimitIs DEF UnderLimit, WindowOf, Regular

Weights(p, t) == [n \in Amounts |-> n * p[t][n]]

LEMMA PendingIsNat ==
  ASSUME TypeOK, NEW t \in Types
  PROVE  PendingBytes(t) \in Nat
<1>1. \A n \in Amounts : Weights(pending, t)[n] \in Nat
  BY PoliciesAssumption DEF TypeOK, Weights
<1>2. QED
  BY <1>1, FiniteAssumption, SumIsNat DEF PendingBytes, Weights

PendingAreNat == \A t \in Types : PendingBytes(t) \in Nat

LEMMA PendingIsNatNext == TypeOK' => PendingAreNat'
<1>1. TypeOK => PendingAreNat
  BY PendingIsNat DEF PendingAreNat
<1>2. QED
  BY <1>1, PTL

LEMMA SumsAreNat ==
  ASSUME TypeOK, NEW t \in Types, NEW S \in SUBSET Hours
  PROVE  SumFunctionOnSet(checked[t], S) \in Nat
<1>1. \A h \in S : checked[t][h] \in Nat
  BY DEF TypeOK
<1>2. QED
  BY <1>1, FiniteAssumption, FS_Subset, SumIsNat

LEMMA UsageIsNat ==
  ASSUME TypeOK, NEW t \in Types, NEW S \in SUBSET Hours
  PROVE  SumFunctionOnSet(recorded[t], S) \in Nat
<1>1. \A h \in S : recorded[t][h] \in Nat
  BY DEF TypeOK
<1>2. QED
  BY <1>1, FiniteAssumption, FS_Subset, SumIsNat

LEMMA SumsAreNatNext ==
  ASSUME TypeOK', NEW t \in Types, NEW S \in SUBSET Hours
  PROVE  SumFunctionOnSet(checked'[t], S) \in Nat
<1>1. \A h \in S : checked'[t][h] \in Nat
  BY DEF TypeOK
<1>2. QED
  BY <1>1, FiniteAssumption, FS_Subset, SumIsNat

\* A reservation of n bytes comes, or goes.
LEMMA OneReservation ==
  ASSUME TypeOK, TypeOK', NEW t \in Types, NEW n \in Amounts, NEW d \in Int,
         pending' = [pending EXCEPT ![t][n] = pending[t][n] + d]
  PROVE  /\ PendingBytes(t)' = PendingBytes(t) + n * d
         /\ \A s \in Types \ {t} : PendingBytes(s)' = PendingBytes(s)
<1> DEFINE f == Weights(pending, t)
           g == Weights(pending', t)
<1>1. n \in Nat /\ pending[t][n] \in Nat /\ \A m \in Amounts : m \in Nat
      /\ pending \in [Types -> [Amounts -> Nat]] /\ pending' \in [Types -> [Amounts -> Nat]]
  BY PoliciesAssumption DEF TypeOK
<1>2. f[n] = n * pending[t][n] /\ g[n] = n * (pending[t][n] + d)
  BY <1>1 DEF Weights
<1>3. f[n] \in Nat /\ g[n] \in Nat /\ g[n] = f[n] + n * d /\ n * d \in Int
  <2>1. pending'[t][n] \in Nat /\ pending'[t][n] = pending[t][n] + d
    BY <1>1
  <2>2. PICK x \in Nat, y \in Nat : x = pending[t][n] /\ y = pending'[t][n] /\ y = x + d
    BY <1>1, <2>1
  <2>3. n * x \in Nat /\ n * y \in Nat /\ n * (x + d) = n * x + n * d /\ n * d \in Int
    BY <1>1
  <2>4. QED
    BY <1>2, <2>2, <2>3
<1>4. \A m \in Amounts : f[m] \in Nat
  BY <1>1 DEF Weights
<1>5. \A m \in Amounts \ {n} : g[m] = f[m]
  BY <1>1 DEF Weights
<1>6. PendingBytes(t) = SumFunctionOnSet(f, Amounts) /\ PendingBytes(t)' = SumFunctionOnSet(g, Amounts)
  BY DEF PendingBytes, Weights
<1>7. ASSUME NEW s \in Types \ {t} PROVE PendingBytes(s)' = PendingBytes(s)
  <2>1. pending'[s] = pending[s]
    BY <1>1
  <2>2. QED
    BY <2>1 DEF PendingBytes
<1> HIDE DEF f, g
<1>8. SumFunctionOnSet(g, Amounts) = SumFunctionOnSet(f, Amounts) - f[n] + g[n]
  BY <1>3, <1>4, <1>5, FiniteAssumption, SumOfChange
<1>9. SumFunctionOnSet(f, Amounts) \in Nat
  BY <1>4, FiniteAssumption, SumIsNat
<1>10. PendingBytes(t)' = PendingBytes(t) + n * d
  <2>1. PICK a \in Nat, x \in Nat, y \in Nat, e \in Int :
          a = SumFunctionOnSet(f, Amounts) /\ x = f[n] /\ y = g[n] /\ e = n * d /\ y = x + e
    BY <1>3, <1>9
  <2>2. SumFunctionOnSet(g, Amounts) = a - x + y /\ a - x + y = a + e
    BY <1>8, <2>1
  <2>3. QED
    BY <1>6, <2>1, <2>2
<1>11. QED
  BY <1>7, <1>10

LEMMA UsedIs ==
  ASSUME TypeOK, NEW t \in Types, UnderLimit(t)
  PROVE  Used(PolicyLimits, t) = SumFunctionOnSet(recorded[t], Counted(WindowOf(t), now))
<1>1. PolicyLimits # Unresolved /\ PolicyLimits[t].bytes > 0 /\ ValidWindow(PolicyLimits[t].window)
  BY DEF UnderLimit, Regular
<1>2. Used(PolicyLimits, t) = UsageForWindow(t, PolicyLimits[t].window)
  BY <1>1 DEF Used
<1>3. QED
  BY <1>2 DEF UsageForWindow, Counted, WindowOf

\* What passes fits in the limit, with all that the checks have let pass and is reserved.
LEMMA PassFits ==
  ASSUME TypeOK, CheckedIsRecorded, NEW t \in Types, NEW n \in Amounts, UnderLimit(t),
         Passes(Verdict(t, n))
  PROVE  SumFunctionOnSet(checked[t], Counted(WindowOf(t), now)) + PendingBytes(t) + n
            <= PolicyLimits[t].bytes
<1> DEFINE S == Counted(WindowOf(t), now)
<1>1. PICK used \in Nat : used = SumFunctionOnSet(recorded[t], S)
  BY UsageIsNat DEF Counted
<1>2. PICK let \in Nat : let = SumFunctionOnSet(checked[t], S)
  BY SumsAreNat DEF Counted
<1>3. let <= used
  <2>1. IsFiniteSet(S) /\ S \in SUBSET S
    BY HoursFinite
  <2>2. \A h \in S : recorded[t][h] \in Nat /\ checked[t][h] \in Nat /\ checked[t][h] <= recorded[t][h]
    BY DEF Counted, CheckedIsRecorded, TypeOK
  <2> HIDE DEF S
  <2>3. SumFunctionOnSet(checked[t], S) <= SumFunctionOnSet(recorded[t], S)
    BY <2>1, <2>2, SumGrows
  <2>4. QED
    BY <1>1, <1>2, <2>3
<1>4. PICK pend \in Nat : pend = PendingBytes(t)
  BY PendingIsNat
<1>5. PICK limit \in Nat : limit = PolicyLimits[t].bytes /\ limit > 0
  BY UnderLimitIs
<1>6. n \in Nat
  BY PoliciesAssumption
<1>7. Verdict(t, n) = CheckHardLimits(PolicyLimits, t, used, pend, n)
  BY <1>1, <1>4, UsedIs DEF Verdict, UnderLimit
<1>8. CheckHardLimits(PolicyLimits, t, used, pend, n) \in {"allowed", "warned"}
  BY <1>7 DEF Passes
<1>9. ~(limit < used + pend \/ n > limit - (used + pend))
  BY <1>5, <1>8 DEF CheckHardLimits
<1>10. QED
  BY <1>2, <1>3, <1>4, <1>5, <1>6, <1>1, <1>9

\* n bytes of type t that a check let pass are recorded now.
Counts(t, n) ==
    /\ checked' = [checked EXCEPT ![t][now] = checked[t][now] + n]
    /\ now' = now

LEMMA CheckedMore ==
  ASSUME TypeOK, TypeOK', NEW t \in Types, NEW n \in Nat, Counts(t, n), UnderLimit(t)
  PROVE  SumFunctionOnSet(checked'[t], Counted(WindowOf(t), now))
            = SumFunctionOnSet(checked[t], Counted(WindowOf(t), now)) + n
<1> DEFINE S == Counted(WindowOf(t), now)
           f == checked[t]
           g == checked'[t]
<1>1. now \in S /\ IsFiniteSet(S) /\ S \in SUBSET Hours
  <2>1. now \in S
    BY UnderLimitIs, NowCounts DEF TypeOK
  <2>2. QED
    BY <2>1, HoursFinite DEF Counted
<1>2. /\ \A h \in S : f[h] \in Nat
      /\ g[now] = f[now] + n /\ g[now] \in Nat
      /\ \A h \in S \ {now} : g[h] = f[h]
  BY <1>1 DEF TypeOK, Counts
<1> HIDE DEF S, f, g
<1>3. SumFunctionOnSet(g, S) = SumFunctionOnSet(f, S) - f[now] + g[now]
  BY <1>1, <1>2, SumOfChange
<1>4. PICK a \in Nat, x \in Nat : a = SumFunctionOnSet(f, S) /\ x = f[now]
  BY <1>1, <1>2, SumIsNat
<1>5. SumFunctionOnSet(g, S) = a - x + (x + n) /\ a - x + (x + n) = a + n
  BY <1>2, <1>3, <1>4
<1>6. QED
  BY <1>4, <1>5 DEF S, f, g

LEMMA NothingAheadStep ==
  ASSUME TypeOK, NothingAhead, NEW t \in Types, NEW n \in Nat, Counts(t, n)
  PROVE  NothingAhead'
<1>1. now \in Nat
  BY PoliciesAssumption DEF TypeOK
<1>2. ASSUME NEW s \in Types, NEW h \in Hours, h > now PROVE checked'[s][h] = 0
  <2>1. h # now
    BY <1>1, <1>2
  <2>2. checked'[s][h] = checked[s][h]
    BY <2>1 DEF TypeOK, Counts
  <2>3. QED
    BY <1>2, <2>2 DEF NothingAhead
<1>3. QED
  BY <1>2 DEF NothingAhead, Counts

LEMMA SameLimits ==
  ASSUME row' = row
  PROVE  /\ PolicyLimits' = PolicyLimits
         /\ \A t : WindowOf(t)' = WindowOf(t)
         /\ \A t : UnderLimit(t)' = UnderLimit(t)
<1>1. PolicyLimits' = PolicyLimits
  BY DEF PolicyLimits
<1>2. QED
  BY <1>1 DEF WindowOf, UnderLimit

\* The same still fits when the bytes of t that are used and reserved become no more.
LEMMA FitsStep ==
  ASSUME LimitInv, TypeOK', row' = row, now' = now, NEW t \in Types, UnderLimit(t),
         NEW m \in Int, NEW n \in Nat,
         SumFunctionOnSet(checked'[t], Counted(WindowOf(t), now))
            = SumFunctionOnSet(checked[t], Counted(WindowOf(t), now)) + n,
         PendingBytes(t)' = PendingBytes(t) + m,
         \/ n + m <= 0
         \/ SumFunctionOnSet(checked[t], Counted(WindowOf(t), now)) + PendingBytes(t) + n + m
                <= PolicyLimits[t].bytes
  PROVE  Fits(t)'
<1>1. PICK used \in Nat : used = SumFunctionOnSet(checked[t], Counted(WindowOf(t), now))
  BY SumsAreNat DEF Counted, LimitInv
<1>2. PICK pend \in Nat : pend = PendingBytes(t)
  BY PendingIsNat DEF LimitInv
<1>3. PICK limit \in Nat : limit = PolicyLimits[t].bytes
  BY UnderLimitIs DEF LimitInv
<1>4. used + pend <= limit
  BY <1>1, <1>2, <1>3 DEF LimitInv, Fits
<1>5. used + n + (pend + m) <= limit
  BY <1>1, <1>2, <1>3, <1>4
<1>6. PolicyLimits' = PolicyLimits /\ WindowOf(t)' = WindowOf(t)
  BY SameLimits
<1>7. QED
  BY <1>1, <1>2, <1>3, <1>5, <1>6 DEF Fits, Counted

\* Another type of usage is where it was.
LEMMA FitsOther ==
  ASSUME LimitInv, TypeOK', row' = row, now' = now, NEW t \in Types, UnderLimit(t),
         checked'[t] = checked[t], PendingBytes(t)' = PendingBytes(t)
  PROVE  Fits(t)'
<1>1. PolicyLimits' = PolicyLimits /\ WindowOf(t)' = WindowOf(t)
  BY SameLimits
<1>2. QED
  BY <1>1 DEF Fits, Counted, LimitInv

LEMMA LimitInvFrom ==
  ASSUME TypeOK', CheckedIsRecorded', row' = row, NothingAhead', \A t \in Types : UnderLimit(t) => Fits(t)'
  PROVE  LimitInv'
<1>1. ASSUME NEW t \in Types, UnderLimit(t)' PROVE Fits(t)'
  BY <1>1, SameLimits
<1>2. QED
  BY <1>1 DEF LimitInv

LEMMA NothingAheadStays ==
  ASSUME NothingAhead, checked' = checked, now' = now
  PROVE  NothingAhead'
  BY DEF NothingAhead

LEMMA RequestFits ==
  ASSUME LimitInv, TypeOK', CheckedIsRecorded', NEW t \in Types, NEW n \in Amounts, Request(t, n)
  PROVE  LimitInv'
<1>1. /\ row' = row /\ now' = now /\ checked' = checked /\ Passes(Verdict(t, n))
      /\ pending' = [pending EXCEPT ![t][n] = pending[t][n] + 1]
  BY DEF Request
<1>2. TypeOK /\ CheckedIsRecorded /\ NothingAhead /\ n \in Nat
  BY PoliciesAssumption DEF LimitInv
<1>3. /\ PendingBytes(t)' = PendingBytes(t) + n
      /\ \A s \in Types \ {t} : PendingBytes(s)' = PendingBytes(s)
  <2>1. PICK d \in Int : d = 1
    OBVIOUS
  <2>2. pending' = [pending EXCEPT ![t][n] = pending[t][n] + d] /\ n * d = n
    BY <1>1, <1>2, <2>1
  <2>3. QED
    BY <1>2, <2>2, OneReservation
<1>4. ASSUME UnderLimit(t) PROVE Fits(t)'
  <2>1. PICK used \in Nat, pend \in Nat, limit \in Nat :
          /\ used = SumFunctionOnSet(checked[t], Counted(WindowOf(t), now))
          /\ pend = PendingBytes(t) /\ limit = PolicyLimits[t].bytes
    BY <1>2, <1>4, SumsAreNat, PendingIsNat, UnderLimitIs DEF Counted
  <2>2. used + pend + n <= limit
    BY <1>1, <1>2, <1>4, <2>1, PassFits
  <2>3. PICK none \in Nat : none = 0
    OBVIOUS
  <2>4. /\ SumFunctionOnSet(checked'[t], Counted(WindowOf(t), now))
            = SumFunctionOnSet(checked[t], Counted(WindowOf(t), now)) + none
        /\ SumFunctionOnSet(checked[t], Counted(WindowOf(t), now)) + PendingBytes(t) + none + n
                <= PolicyLimits[t].bytes
    BY <1>1, <1>2, <2>1, <2>2, <2>3
  <2>5. PendingBytes(t)' = PendingBytes(t) + n /\ n \in Int
    BY <1>2, <1>3
  <2>6. QED
    BY <1>1, <1>2, <1>4, <2>4, <2>5, FitsStep
<1>5. ASSUME NEW s \in Types, UnderLimit(s) PROVE Fits(s)'
  <2>1. CASE s = t
    BY <1>4, <1>5, <2>1
  <2>2. CASE s # t
    BY <1>1, <1>3, <1>5, <2>2, FitsOther
  <2>3. QED
    BY <2>1, <2>2
<1>6. QED
  BY <1>1, <1>2, <1>5, NothingAheadStays, LimitInvFrom

LEMMA CompleteFits ==
  ASSUME LimitInv, TypeOK', CheckedIsRecorded', NEW t \in Types, NEW n \in Amounts, NEW m \in Amounts,
         Complete(t, n, m)
  PROVE  LimitInv'
<1> DEFINE c == Lesser(m, n)
<1>1. /\ row' = row /\ now' = now /\ Counts(t, c)
      /\ pending' = [pending EXCEPT ![t][n] = pending[t][n] - 1]
  BY DEF Complete, Recorded, Counts
<1>2. TypeOK /\ CheckedIsRecorded /\ NothingAhead /\ n \in Nat
  BY PoliciesAssumption DEF LimitInv
<1>3. c \in Nat /\ c <= n
  <2>1. m \in Nat
    BY PoliciesAssumption
  <2>2. QED
    BY <1>2, <2>1 DEF Lesser
<1> HIDE DEF c
<1>4. /\ PendingBytes(t)' = PendingBytes(t) + (-n)
      /\ \A s \in Types \ {t} : PendingBytes(s)' = PendingBytes(s)
  <2>1. PICK d \in Int : d = -1
    OBVIOUS
  <2>2. pending' = [pending EXCEPT ![t][n] = pending[t][n] + d]
    <3>1. pending[t][n] - 1 = pending[t][n] + d
      BY <1>2, <2>1 DEF TypeOK
    <3>2. QED
      BY <1>1, <3>1
  <2>3. n * d = -n
    BY <1>2, <2>1
  <2>4. QED
    BY <1>2, <2>2, <2>3, OneReservation
<1>5. ASSUME UnderLimit(t) PROVE Fits(t)'
  <2>1. SumFunctionOnSet(checked'[t], Counted(WindowOf(t), now))
            = SumFunctionOnSet(checked[t], Counted(WindowOf(t), now)) + c
    BY <1>1, <1>2, <1>3, <1>5, CheckedMore
  <2>2. c + (-n) <= 0 /\ -n \in Int
    BY <1>2, <1>3
  <2>3. QED
    BY <1>1, <1>2, <1>3, <1>4, <1>5, <2>1, <2>2, FitsStep
<1>6. ASSUME NEW s \in Types, UnderLimit(s) PROVE Fits(s)'
  <2>1. CASE s = t
    BY <1>5, <1>6, <2>1
  <2>2. CASE s # t
    <3>1. checked'[s] = checked[s]
      BY <1>1, <1>2, <2>2 DEF Counts, TypeOK
    <3>2. QED
      BY <1>1, <1>4, <1>6, <2>2, <3>1, FitsOther
  <2>3. QED
    BY <2>1, <2>2
<1>7. QED
  BY <1>1, <1>2, <1>3, <1>6, NothingAheadStep, LimitInvFrom

LEMMA ReleaseFits ==
  ASSUME LimitInv, TypeOK', CheckedIsRecorded', NEW t \in Types, NEW n \in Amounts, Release(t, n)
  PROVE  LimitInv'
<1>1. /\ row' = row /\ now' = now /\ checked' = checked
      /\ pending' = [pending EXCEPT ![t][n] = pending[t][n] - 1]
  BY DEF Release
<1>2. TypeOK /\ CheckedIsRecorded /\ NothingAhead /\ n \in Nat
  BY PoliciesAssumption DEF LimitInv
<1>3. /\ PendingBytes(t)' = PendingBytes(t) + (-n)
      /\ \A s \in Types \ {t} : PendingBytes(s)' = PendingBytes(s)
  <2>1. PICK d \in Int : d = -1
    OBVIOUS
  <2>2. pending' = [pending EXCEPT ![t][n] = pending[t][n] + d]
    <3>1. pending[t][n] - 1 = pending[t][n] + d
      BY <1>2, <2>1 DEF TypeOK
    <3>2. QED
      BY <1>1, <3>1
  <2>3. n * d = -n
    BY <1>2, <2>1
  <2>4. QED
    BY <1>2, <2>2, <2>3, OneReservation
<1>4. ASSUME UnderLimit(t) PROVE Fits(t)'
  <2>1. SumFunctionOnSet(checked'[t], Counted(WindowOf(t), now))
            = SumFunctionOnSet(checked[t], Counted(WindowOf(t), now)) + 0
    <3>1. SumFunctionOnSet(checked[t], Counted(WindowOf(t), now)) \in Nat
      BY <1>2, SumsAreNat DEF Counted
    <3>2. QED
      BY <1>1, <3>1
  <2>2. 0 + (-n) <= 0 /\ -n \in Int
    BY <1>2
  <2>3. QED
    BY <1>1, <1>2, <1>3, <1>4, <2>1, <2>2, FitsStep
<1>5. ASSUME NEW s \in Types, UnderLimit(s) PROVE Fits(s)'
  <2>1. CASE s = t
    BY <1>4, <1>5, <2>1
  <2>2. CASE s # t
    BY <1>1, <1>3, <1>5, <2>2, FitsOther
  <2>3. QED
    BY <2>1, <2>2
<1>6. QED
  BY <1>1, <1>2, <1>5, NothingAheadStays, LimitInvFrom

\* Recordings without a reservation: only hard limits matter here.
LEMMA RecordFits ==
  ASSUME LimitInv, TypeOK', CheckedIsRecorded', NEW t \in Types, NEW n \in Amounts,
         \/ RecordEvent(t, n)
         \/ RecordHardLimits(t, n)
         \/ RecordThreshold(t, n)
         \/ RecordUnlimited(t, n)
         \/ RecordAllowance(t, n)
  PROVE  LimitInv'
<1>1. TypeOK /\ CheckedIsRecorded /\ NothingAhead /\ n \in Nat
  BY PoliciesAssumption DEF LimitInv
<1>2. PICK m \in Nat :
        /\ row' = row /\ now' = now /\ pending' = pending /\ Counts(t, m)
        /\ row.policy = "HARD_LIMITS" => m = 0 \/ (m = n /\ Passes(Verdict(t, n)))
  <2>1. \/ \E k : Record(t, k, 0)
        \/ Record(t, n, n) /\ Passes(Verdict(t, n))
    BY DEF RecordEvent, RecordHardLimits, RecordThreshold, RecordUnlimited, RecordAllowance
  <2>2. QED
    BY <1>1, <2>1 DEF Record, Recorded, Counts
<1>3. \A s \in Types : PendingBytes(s)' = PendingBytes(s)
  BY <1>2 DEF PendingBytes
<1>4. ASSUME UnderLimit(t) PROVE Fits(t)'
  <2>1. m = 0 \/ (m = n /\ Passes(Verdict(t, n)))
    BY <1>2, <1>4 DEF UnderLimit
  <2>2. PICK let \in Nat, pend \in Nat, limit \in Nat :
          /\ let = SumFunctionOnSet(checked[t], Counted(WindowOf(t), now))
          /\ pend = PendingBytes(t) /\ limit = PolicyLimits[t].bytes
    BY <1>1, <1>4, SumsAreNat, PendingIsNat, UnderLimitIs DEF Counted
  <2>3. m <= 0 \/ let + pend + m <= limit
    <3>1. CASE m = 0
      BY <3>1
    <3>2. CASE m = n /\ Passes(Verdict(t, n))
      BY <1>1, <1>4, <2>2, <3>2, PassFits
    <3>3. QED
      BY <2>1, <3>1, <3>2
  <2>4. SumFunctionOnSet(checked'[t], Counted(WindowOf(t), now))
            = SumFunctionOnSet(checked[t], Counted(WindowOf(t), now)) + m
    BY <1>1, <1>2, <1>4, CheckedMore
  <2>5. /\ PendingBytes(t)' = PendingBytes(t) + 0
        /\ \/ m + 0 <= 0
           \/ SumFunctionOnSet(checked[t], Counted(WindowOf(t), now)) + PendingBytes(t) + m + 0
                <= PolicyLimits[t].bytes
    BY <1>1, <1>3, <2>2, <2>3
  <2>6. QED
    BY <1>1, <1>2, <1>4, <2>4, <2>5, FitsStep
<1>5. ASSUME NEW s \in Types, UnderLimit(s) PROVE Fits(s)'
  <2>1. CASE s = t
    BY <1>4, <1>5, <2>1
  <2>2. CASE s # t
    <3>1. checked'[s] = checked[s]
      BY <1>1, <1>2, <2>2 DEF Counts, TypeOK
    <3>2. QED
      BY <1>2, <1>3, <1>5, <3>1, FitsOther
  <2>3. QED
    BY <2>1, <2>2
<1>6. QED
  BY <1>1, <1>2, <1>5, NothingAheadStep, LimitInvFrom

\* The clock moves on: what leaves the window no longer counts, and nothing comes in.
LEMMA TickFits ==
  ASSUME LimitInv, TypeOK', CheckedIsRecorded', Tick
  PROVE  LimitInv'
<1>1. /\ row' = row /\ now' = now + 1 /\ checked' = checked /\ pending' = pending
      /\ now \in Hours /\ now + 1 \in Hours /\ now \in Nat /\ TypeOK /\ NothingAhead
  BY PoliciesAssumption DEF Tick, LimitInv, TypeOK
<1>2. NothingAhead'
  <2>1. ASSUME NEW t \in Types, NEW h \in Hours, h > now + 1 PROVE checked[t][h] = 0
    <3>1. h \in Nat /\ h > now
      BY <1>1, <2>1, PoliciesAssumption
    <3>2. QED
      BY <1>1, <3>1 DEF NothingAhead
  <2>2. QED
    BY <1>1, <2>1 DEF NothingAhead
<1>3. ASSUME NEW t \in Types, UnderLimit(t) PROVE Fits(t)'
  <2> DEFINE S == Counted(WindowOf(t), now + 1)
             T == Counted(WindowOf(t), now)
             f == checked[t]
  <2>1. IsFiniteSet(S) /\ IsFiniteSet(T) /\ S \in SUBSET Hours /\ T \in SUBSET Hours
    BY HoursFinite DEF Counted
  <2>2. \A h \in S \cup T : f[h] \in Nat
    BY <1>1, <2>1 DEF TypeOK
  <2>3. ASSUME NEW h \in S, h \notin T PROVE f[h] = 0
    <3>1. h \in Nat /\ h \in Hours
      BY <2>1, PoliciesAssumption
    <3>2. ~(h <= now)
      BY <1>1, <1>3, <2>3, UnderLimitIs, CountsNoMore
    <3>3. h > now
      BY <1>1, <3>1, <3>2
    <3>4. QED
      BY <1>1, <3>1, <3>3 DEF NothingAhead
  <2> HIDE DEF S, T, f
  <2>4. SumFunctionOnSet(f, S) <= SumFunctionOnSet(f, T)
    BY <2>1, <2>2, <2>3, SumOfPart
  <2>5. SumFunctionOnSet(f, S) \in Nat /\ SumFunctionOnSet(f, T) \in Nat
    BY <2>1, <2>2, SumIsNat
  <2>6. PICK pend \in Nat, limit \in Nat : pend = PendingBytes(t) /\ limit = PolicyLimits[t].bytes
    BY <1>1, <1>3, PendingIsNat, UnderLimitIs
  <2>7. SumFunctionOnSet(f, T) + pend <= limit
    BY <1>3, <2>6 DEF LimitInv, Fits, f, T
  <2>8. SumFunctionOnSet(f, S) + pend <= limit
    BY <2>4, <2>5, <2>6, <2>7
  <2>9. PendingBytes(t)' = PendingBytes(t)
    BY <1>1 DEF PendingBytes
  <2>10. PolicyLimits' = PolicyLimits /\ WindowOf(t)' = WindowOf(t)
    BY <1>1, SameLimits
  <2>11. Counted(WindowOf(t), now)' = S /\ checked'[t] = f
    BY <1>1, <2>10 DEF Counted, S, f
  <2>12. QED
    BY <2>6, <2>8, <2>9, <2>10, <2>11 DEF Fits
<1>4. QED
  BY <1>1, <1>2, <1>3, LimitInvFrom

LEMMA LimitInvInit == Init => LimitInv
<1> SUFFICES ASSUME Init PROVE LimitInv
  OBVIOUS
<1>1. TypeOK
  BY TypeInit
<1>2. \A t \in Types, h \in Hours : checked[t][h] = 0 /\ recorded[t][h] = 0
  BY DEF Init
<1>3. NothingAhead /\ CheckedIsRecorded
  BY <1>2 DEF NothingAhead, CheckedIsRecorded
<1>4. ASSUME NEW t \in Types, UnderLimit(t) PROVE Fits(t)
  <2>1. SumFunctionOnSet(checked[t], Counted(WindowOf(t), now)) = 0
    <3>1. \A h \in Counted(WindowOf(t), now) : checked[t][h] = 0
      BY <1>2 DEF Counted
    <3>2. QED
      BY <3>1, HoursFinite, SumOfZeros
  <2>2. PendingBytes(t) = 0
    <3>1. \A n \in Amounts : Weights(pending, t)[n] = 0
      BY PoliciesAssumption DEF Init, Weights
    <3>2. QED
      BY <3>1, FiniteAssumption, SumOfZeros DEF PendingBytes, Weights
  <2>3. QED
    BY <1>1, <1>4, <2>1, <2>2, UnderLimitIs DEF Fits
<1>5. QED
  BY <1>1, <1>3, <1>4 DEF LimitInv

LEMMA CheckedStep ==
  ASSUME TypeOK, CheckedIsRecorded, [Next]_vars
  PROVE  CheckedIsRecorded'
<1>1. ASSUME NEW s \in Types, NEW n \in Nat, NEW c \in 0..n, Recorded(s, n, c)
      PROVE  CheckedIsRecorded'
  <2>1. ASSUME NEW t \in Types, NEW h \in Hours PROVE checked'[t][h] <= recorded'[t][h]
    <3>1. checked[t][h] \in Nat /\ recorded[t][h] \in Nat /\ checked[t][h] <= recorded[t][h]
      BY DEF TypeOK, CheckedIsRecorded
    <3>2. CASE t = s /\ h = now
      BY <1>1, <3>1, <3>2 DEF Recorded, TypeOK
    <3>3. CASE ~(t = s /\ h = now)
      BY <1>1, <3>1, <3>3 DEF Recorded, TypeOK
    <3>4. QED
      BY <3>2, <3>3
  <2>2. QED
    BY <2>1 DEF CheckedIsRecorded
<1>2. ASSUME checked' = checked, recorded' = recorded PROVE CheckedIsRecorded'
  BY <1>2 DEF CheckedIsRecorded
<1>3. ASSUME NEW t \in Types, NEW n \in Amounts, NEW m \in Amounts, Complete(t, n, m)
      PROVE  CheckedIsRecorded'
  <2>1. m \in Nat /\ n \in Nat
    BY PoliciesAssumption
  <2>2. Lesser(m, n) \in 0..m
    BY <2>1 DEF Lesser
  <2>3. QED
    BY <1>1, <1>3, <2>1, <2>2 DEF Complete
<1>4. ASSUME NEW t \in Types, NEW n \in Amounts,
             \/ RecordEvent(t, n)
             \/ RecordHardLimits(t, n)
             \/ RecordThreshold(t, n)
             \/ RecordUnlimited(t, n)
             \/ RecordAllowance(t, n)
      PROVE  CheckedIsRecorded'
  <2>1. n \in Nat /\ 2 * n \in Nat /\ 0 \in 0..n /\ 0 \in 0..(2 * n) /\ n \in 0..n
    BY PoliciesAssumption
  <2>2. Recorded(t, n, 0) \/ Recorded(t, n, n) \/ Recorded(t, 2 * n, 0)
    BY <1>4 DEF RecordEvent, RecordHardLimits, RecordThreshold, RecordUnlimited, RecordAllowance, Record
  <2>3. QED
    BY <1>1, <2>1, <2>2
<1>5. QED
  BY <1>2, <1>3, <1>4 DEF Next, Request, Release, Tick, Stop, vars

LEMMA LimitInvStep == LimitInv /\ [Next]_vars => LimitInv'
<1> SUFFICES ASSUME LimitInv, [Next]_vars PROVE LimitInv'
  OBVIOUS
<1>1. TypeOK' /\ CheckedIsRecorded'
  BY TypeStep, CheckedStep DEF LimitInv
<1>2. CASE UNCHANGED vars
  <2>1. row' = row /\ \A t \in Types : UnderLimit(t) => Fits(t)'
    BY <1>2 DEF vars, Fits, Counted, WindowOf, PolicyLimits, PendingBytes, LimitInv
  <2>2. NothingAhead'
    BY <1>2, NothingAheadStays DEF vars, LimitInv
  <2>3. QED
    BY <1>1, <2>1, <2>2, LimitInvFrom
<1>3. QED
  BY <1>1, <1>2, RequestFits, CompleteFits, ReleaseFits, RecordFits, TickFits DEF Next, Stop

\* Usage is only ever recorded now.
LEMMA OnlyNow ==
  ASSUME TypeOK, [Next]_vars, NEW t \in Types
  PROVE  \/ checked'[t] = checked[t]
         \/ now' = now /\ \A h \in Hours \ {now} : checked'[t][h] = checked[t][h]
<1>1. ASSUME NEW s \in Types, NEW n, Counts(s, n)
      PROVE  now' = now /\ \A h \in Hours \ {now} : checked'[t][h] = checked[t][h]
  BY <1>1 DEF Counts, TypeOK
<1>2. ASSUME NEW s \in Types, NEW n \in Amounts, Request(s, n) \/ Release(s, n) PROVE checked' = checked
  BY <1>2 DEF Request, Release
<1>3. ASSUME NEW s \in Types, NEW n \in Amounts, NEW m \in Amounts, Complete(s, n, m)
      PROVE  \E c : Counts(s, c)
  BY <1>3 DEF Complete, Recorded, Counts
<1>4. ASSUME NEW s \in Types, NEW n \in Amounts,
             \/ RecordEvent(s, n)
             \/ RecordHardLimits(s, n)
             \/ RecordThreshold(s, n)
             \/ RecordUnlimited(s, n)
             \/ RecordAllowance(s, n)
      PROVE  \E c : Counts(s, c)
  BY <1>4 DEF RecordEvent, RecordHardLimits, RecordThreshold, RecordUnlimited, RecordAllowance, Record,
     Recorded, Counts
<1>5. CASE Tick \/ Stop \/ UNCHANGED vars
  BY <1>5 DEF Tick, Stop, vars
<1>6. QED
  BY <1>1, <1>2, <1>3, <1>4, <1>5 DEF Next

\* The sum over one period, or over hours as far apart as a rolling window is long.
GroupFits(t, g) ==
    SumFunctionOnSet(checked[t], Group(WindowOf(t), g)) <= PolicyLimits[t].bytes

LEMMA GroupFitsStep ==
  ASSUME LimitInv, LimitInv', [Next]_vars, row' = row, NEW t \in Types, UnderLimit(t),
         NEW g \in Hours, GroupFits(t, g)
  PROVE  GroupFits(t, g)'
<1> DEFINE S == Group(WindowOf(t), g)
           f == checked[t]
           e == checked'[t]
<1>1. /\ PolicyLimits' = PolicyLimits /\ WindowOf(t)' = WindowOf(t) /\ UnderLimit(t)'
      /\ TypeOK /\ TypeOK' /\ NothingAhead'
  BY SameLimits DEF LimitInv
<1>2. Group(WindowOf(t), g)' = S
  BY <1>1 DEF Group
<1>3. IsFiniteSet(S) /\ S \in SUBSET Hours
  BY HoursFinite DEF Group
<1>4. SUFFICES SumFunctionOnSet(e, S) <= PolicyLimits[t].bytes
  BY <1>1, <1>2 DEF GroupFits
<1>5. CASE e = f
  BY <1>5 DEF GroupFits
<1>6. CASE now' = now /\ (\A h \in Hours \ {now} : e[h] = f[h]) /\ now \notin S
  <2>1. \A h \in S : f[h] \in Nat /\ e[h] = f[h]
    BY <1>1, <1>3, <1>6 DEF TypeOK
  <2>2. SumFunctionOnSet(e, S) = SumFunctionOnSet(f, S)
    BY <1>3, <2>1, SumOfSame
  <2>3. QED
    BY <2>2 DEF GroupFits
<1>7. CASE now' = now /\ now \in S
  <2> DEFINE T == Counted(WindowOf(t), now)
  <2>1. IsFiniteSet(T) /\ T \in SUBSET Hours
    BY HoursFinite DEF Counted
  <2>2. \A h \in S \cup T : e[h] \in Nat
    BY <1>1, <1>3, <2>1 DEF TypeOK
  <2>3. ASSUME NEW h \in S, h \notin T PROVE e[h] = 0
    <3>1. h \in Hours /\ h \in Nat /\ now \in Nat
      BY <1>1, <1>3, PoliciesAssumption DEF TypeOK
    <3>2. ~(h <= now)
      BY <1>1, <1>7, <2>3, UnderLimitIs, GroupCounts
    <3>3. h > now
      BY <3>1, <3>2
    <3>4. QED
      BY <1>1, <1>7, <3>1, <3>3 DEF NothingAhead
  <2>4. SumFunctionOnSet(e, T) + PendingBytes(t)' <= PolicyLimits[t].bytes
    <3>1. Fits(t)'
      BY <1>1 DEF LimitInv
    <3>2. Counted(WindowOf(t), now)' = T
      BY <1>1, <1>7 DEF Counted
    <3>3. QED
      BY <1>1, <3>1, <3>2 DEF Fits
  <2>5. PendingBytes(t)' \in Nat
    BY <1>1, PendingIsNatNext DEF PendingAreNat
  <2> HIDE DEF S, T, e
  <2>6. SumFunctionOnSet(e, S) <= SumFunctionOnSet(e, T)
    BY <1>3, <2>1, <2>2, <2>3, SumOfPart
  <2>7. SumFunctionOnSet(e, S) \in Nat /\ SumFunctionOnSet(e, T) \in Nat
    BY <1>3, <2>1, <2>2, SumIsNat
  <2>8. PolicyLimits[t].bytes \in Nat
    BY <1>1, UnderLimitIs
  <2>9. QED
    BY <2>4, <2>5, <2>6, <2>7, <2>8
<1>8. QED
  BY <1>1, <1>5, <1>6, <1>7, OnlyNow

NoGroupOver == \A t \in Types, g \in Hours : UnderLimit(t) => GroupFits(t, g)

LEMMA OverIs == NoPeriodOverLimit <=> NoGroupOver
  BY Zenon DEF NoGroupOver, NoPeriodOverLimit, SumTogether, GroupFits, Group, WindowOf

LEMMA OverIsNext == NoPeriodOverLimit' <=> NoGroupOver'
  BY OverIs, PTL

\* Under hard limits the checks let no more than the limit into any day, week, month or
\* year, any rolling window and any lifetime, however much the events record besides: what
\* has been let in and what is reserved fit in the window of now, usage is only recorded
\* now, and what leaves the window does not come back.
THEOREM PeriodsStayInLimits == Spec => []NoPeriodOverLimit
<1>1. Init => LimitInv /\ NoPeriodOverLimit
  <2> SUFFICES ASSUME Init PROVE LimitInv /\ NoPeriodOverLimit
    OBVIOUS
  <2>1. LimitInv
    BY LimitInvInit
  <2>2. ASSUME NEW t \in Types, NEW g \in Hours, UnderLimit(t) PROVE GroupFits(t, g)
    <3>1. \A h \in Group(WindowOf(t), g) : checked[t][h] = 0
      BY DEF Init, Group
    <3>2. SumFunctionOnSet(checked[t], Group(WindowOf(t), g)) = 0
      BY <3>1, HoursFinite, SumOfZeros
    <3>3. QED
      BY <2>1, <2>2, <3>2, UnderLimitIs DEF GroupFits, LimitInv
  <2>3. QED
    BY <2>1, <2>2, OverIs DEF NoGroupOver
<1>2. LimitInv /\ NoPeriodOverLimit /\ [Next]_vars => LimitInv' /\ NoPeriodOverLimit'
  <2> SUFFICES ASSUME LimitInv, NoPeriodOverLimit, [Next]_vars
               PROVE  LimitInv' /\ NoPeriodOverLimit'
    OBVIOUS
  <2>1. LimitInv'
    BY LimitInvStep
  <2>2. row' = row
    BY DEF Next, vars, Request, Complete, Release, RecordEvent, RecordHardLimits, RecordThreshold, RecordUnlimited,
       RecordAllowance, Record, Tick, Stop
  <2>3. ASSUME NEW t \in Types, NEW g \in Hours, UnderLimit(t)' PROVE GroupFits(t, g)'
    <3>1. UnderLimit(t)
      BY <2>2, <2>3, SameLimits
    <3>2. QED
      BY <2>1, <2>2, <3>1, OverIs, GroupFitsStep DEF NoGroupOver
  <2>4. QED
    BY <2>1, <2>3, OverIsNext DEF NoGroupOver
<1>3. QED
  BY <1>1, <1>2, PTL DEF Spec

-----------------------------------------------------------------------------
(* The status page.                                                        *)

\* What StatusAgreesWithCheck says of requests for n bytes of one type.
Agrees(t, n, limit, status, fits) ==
    /\ Passes(Verdict(t, n)) <=> fits
    /\ Verdict(t, n) = "warned" <=>
         /\ row.policy = "THRESHOLD"
         /\ limit.bytes > 0 /\ limit.threshold # NoThreshold
         /\ fits
         /\ status.used + n >= limit.threshold

Shown(t) == Status(row.policy, LimitOf(t), Figures(t))
FitsIn(t, n) == Shown(t).remaining = NoBound \/ n <= Shown(t).remaining

LEMMA AgreesWithAllowance ==
  ASSUME TypeOK, NEW t \in Types, NEW n \in Amounts, row.policy = "ALLOWANCE"
  PROVE  Agrees(t, n, LimitOf(t), Shown(t), FitsIn(t, n))
<1>1. n \in Nat \ {0} /\ granted \in Nat
  BY PoliciesAssumption DEF TypeOK
<1>2. Shown(t).remaining = granted
  BY DEF Shown, Status, Figures
<1>3. FitsIn(t, n) <=> n <= granted
  BY <1>1, <1>2, NoBoundAssumption DEF FitsIn
<1>4. Verdict(t, n) = IF n > granted THEN "denied" ELSE "allowed"
  BY <1>1 DEF Verdict, CheckAllowance
<1>5. QED
  BY <1>1, <1>3, <1>4 DEF Agrees, Passes

LEMMA AgreesWithUnlimited ==
  ASSUME TypeOK, NEW t \in Types, NEW n \in Amounts, row.policy = "UNLIMITED"
  PROVE  Agrees(t, n, LimitOf(t), Shown(t), FitsIn(t, n))
<1>1. n # 0
  BY PoliciesAssumption
<1>2. Shown(t).remaining = NoBound
  BY DEF Shown, Status
<1>3. Verdict(t, n) = "allowed"
  BY <1>1 DEF Verdict, CheckUnlimited
<1>4. QED
  BY <1>2, <1>3 DEF Agrees, Passes, FitsIn

\* The policies that look at limits: without a limit there is no bound, and with one the
\* usage shown is what the check looks up.
LEMMA ShownIs ==
  ASSUME TypeOK, NEW t \in Types, row.policy \in {"HARD_LIMITS", "THRESHOLD"}, PolicyLimits # Unresolved
  PROVE  LET limit == PolicyLimits[t]
             used == Used(PolicyLimits, t)
         IN  /\ LimitOf(t) = limit
             /\ limit.bytes \in Nat /\ limit.threshold \in Nat \cup {NoThreshold}
             /\ limit.bytes = 0 => Shown(t).remaining = NoBound
             /\ limit.bytes > 0 /\ ValidWindow(limit.window) =>
                    /\ used \in Nat /\ ~IsNil(limit.window)
                    /\ Shown(t).used = used
                    /\ Shown(t).remaining = IF used < limit.bytes THEN limit.bytes - used ELSE 0
<1> DEFINE limit == PolicyLimits[t]
           used == Used(PolicyLimits, t)
<1>1. LimitOf(t) = limit
  BY DEF LimitOf
<1>2. limit.bytes \in Nat /\ limit.threshold \in Nat \cup {NoThreshold}
  BY LimitIs
<1>3. /\ Shown(t).used = ShownUsage(limit, Figures(t))
      /\ Shown(t).remaining = Remaining(limit.bytes, ShownUsage(limit, Figures(t)))
  BY <1>1 DEF Shown, Status
<1>4. Figures(t).used = used
  BY DEF Figures
<1>5. ASSUME limit.bytes > 0, ValidWindow(limit.window)
      PROVE  /\ used \in Nat /\ ~IsNil(limit.window)
             /\ ShownUsage(limit, Figures(t)) = used
  <2>1. used = UsageForWindow(t, limit.window)
    BY <1>5 DEF Used
  <2>2. used \in Nat
    BY <2>1, UsageIsNat DEF UsageForWindow
  <2>3. ~IsNil(limit.window)
    BY <1>5 DEF IsNil, ValidWindow, CalendarTypes
  <2>4. QED
    BY <1>2, <1>4, <1>5, <2>2, <2>3 DEF ShownUsage
<1>6. limit.bytes = 0 => Shown(t).remaining = NoBound
  BY <1>3 DEF Remaining
<1>7. ASSUME limit.bytes > 0, ValidWindow(limit.window)
      PROVE  Shown(t).remaining = IF used < limit.bytes THEN limit.bytes - used ELSE 0
  BY <1>2, <1>3, <1>5, <1>7 DEF Remaining
<1>8. QED
  BY <1>1, <1>2, <1>3, <1>5, <1>6, <1>7

LEMMA AgreesWithHardLimits ==
  ASSUME TypeOK, NEW t \in Types, NEW n \in Amounts, row.policy = "HARD_LIMITS", PolicyLimits # Unresolved,
         LimitOf(t).bytes > 0 => ValidWindow(LimitOf(t).window),
         PendingBytes(t) = 0
  PROVE  Agrees(t, n, LimitOf(t), Shown(t), FitsIn(t, n))
<1>1. PICK limit, used : limit = PolicyLimits[t] /\ used = Used(PolicyLimits, t)
  OBVIOUS
<1>2. /\ LimitOf(t) = limit /\ limit.bytes \in Nat
      /\ limit.bytes = 0 => Shown(t).remaining = NoBound
      /\ limit.bytes > 0 =>
            /\ used \in Nat
            /\ Shown(t).used = used
            /\ Shown(t).remaining = IF used < limit.bytes THEN limit.bytes - used ELSE 0
  BY <1>1, ShownIs
<1>3. n \in Nat \ {0}
  BY PoliciesAssumption
<1>4. Verdict(t, n) = CheckHardLimits(PolicyLimits, t, used, 0, n)
  BY <1>1 DEF Verdict
<1>5. CASE limit.bytes = 0
  <2>1. Verdict(t, n) = "allowed"
    BY <1>1, <1>3, <1>4, <1>5 DEF CheckHardLimits
  <2>2. FitsIn(t, n)
    BY <1>2, <1>5 DEF FitsIn
  <2>3. QED
    BY <2>1, <2>2 DEF Agrees, Passes
<1>6. CASE limit.bytes > 0
  <2>1. PICK b \in Nat, v \in Nat : b = limit.bytes /\ v = used
    BY <1>2, <1>6
  <2>2. Verdict(t, n) = IF b < v + 0 \/ n > b - (v + 0) THEN "denied" ELSE "allowed"
    BY <1>1, <1>2, <1>3, <1>4, <1>6, <2>1 DEF CheckHardLimits
  <2>3. Shown(t).remaining = IF v < b THEN b - v ELSE 0
    BY <1>2, <1>6, <2>1
  <2>4. FitsIn(t, n) <=> n <= (IF v < b THEN b - v ELSE 0)
    BY <2>1, <2>3, NoBoundAssumption DEF FitsIn
  <2>5. FitsIn(t, n) <=> ~(b < v \/ n > b - v)
    BY <1>3, <2>1, <2>4
  <2>6. QED
    BY <2>1, <2>2, <2>5 DEF Agrees, Passes
<1>7. QED
  BY <1>2, <1>5, <1>6

LEMMA AgreesWithThreshold ==
  ASSUME TypeOK, NEW t \in Types, NEW n \in Amounts, row.policy = "THRESHOLD", PolicyLimits # Unresolved,
         LimitOf(t).bytes > 0 => ValidWindow(LimitOf(t).window)
  PROVE  Agrees(t, n, LimitOf(t), Shown(t), FitsIn(t, n))
<1>1. PICK limit, used : limit = PolicyLimits[t] /\ used = Used(PolicyLimits, t)
  OBVIOUS
<1>2. /\ LimitOf(t) = limit /\ limit.bytes \in Nat /\ limit.threshold \in Nat \cup {NoThreshold}
      /\ limit.bytes = 0 => Shown(t).remaining = NoBound
      /\ limit.bytes > 0 =>
            /\ used \in Nat /\ ~IsNil(limit.window)
            /\ Shown(t).used = used
            /\ Shown(t).remaining = IF used < limit.bytes THEN limit.bytes - used ELSE 0
  BY <1>1, ShownIs
<1>3. n \in Nat \ {0}
  BY PoliciesAssumption
<1>4. Verdict(t, n) = CheckThreshold(PolicyLimits, t, used, n)
  BY <1>1 DEF Verdict
<1>5. CASE limit.bytes = 0
  <2>1. Verdict(t, n) = "allowed"
    BY <1>1, <1>3, <1>4, <1>5 DEF CheckThreshold
  <2>2. FitsIn(t, n)
    BY <1>2, <1>5 DEF FitsIn
  <2>3. QED
    BY <1>2, <1>5, <2>1, <2>2 DEF Agrees, Passes
<1>6. CASE limit.bytes > 0
  <2>1. PICK b \in Nat, v \in Nat, warn \in {limit.threshold} : b = limit.bytes /\ v = used /\ warn = limit.threshold
    BY <1>2, <1>6
  <2>2. Verdict(t, n) = CheckThresholdWithLimit(v, n, warn, b)
    BY <1>1, <1>2, <1>3, <1>4, <1>6, <2>1 DEF CheckThreshold
  <2>3. FitsIn(t, n) <=> n <= (IF v < b THEN b - v ELSE 0)
    BY <1>2, <1>6, <2>1, NoBoundAssumption DEF FitsIn
  <2>4. FitsIn(t, n) <=> ~(v >= b \/ n > b - v)
    BY <1>3, <2>1, <2>3
  <2>5. Verdict(t, n) = IF ~FitsIn(t, n) THEN "denied"
                        ELSE IF warn # NoThreshold /\ EvaluateThreshold(v, n, warn, b) THEN "warned"
                        ELSE "allowed"
    BY <2>2, <2>4 DEF CheckThresholdWithLimit
  <2>6. ASSUME FitsIn(t, n), warn # NoThreshold
        PROVE  EvaluateThreshold(v, n, warn, b) <=> v + n >= warn
    <3>1. warn \in Nat
      BY <1>2, <2>1, <2>6
    <3>2. QED
      BY <1>3, <2>1, <2>4, <2>6, <3>1 DEF EvaluateThreshold
  <2>7. Passes(Verdict(t, n)) <=> FitsIn(t, n)
    BY <2>5 DEF Passes
  <2>8. Verdict(t, n) = "warned" <=> warn # NoThreshold /\ FitsIn(t, n) /\ v + n >= warn
    BY <2>5, <2>6
  <2>9. QED
    BY <1>2, <1>6, <2>1, <2>7, <2>8 DEF Agrees
<1>7. QED
  BY <1>2, <1>5, <1>6

\* What a user is shown is what the check goes by, under every policy and for every row,
\* usage and moment.
THEOREM StatusAgrees == Spec => []StatusAgreesWithCheck
<1>1. TypeOK => StatusAgreesWithCheck
  <2> SUFFICES ASSUME TypeOK, row.policy \in {"ALLOWANCE", "UNLIMITED"} \/ PolicyLimits # Unresolved,
                      NEW t \in Types, NEW n \in Amounts,
                      LimitOf(t).bytes > 0 => ValidWindow(LimitOf(t).window),
                      row.policy = "HARD_LIMITS" => PendingBytes(t) = 0
               PROVE  Agrees(t, n, LimitOf(t), Shown(t), FitsIn(t, n))
    BY Zenon DEF StatusAgreesWithCheck, Agrees, Shown, FitsIn
  <2>1. row.policy \in {"HARD_LIMITS", "THRESHOLD", "ALLOWANCE", "UNLIMITED"}
    BY PoliciesAssumption DEF TypeOK, EnforcementPolicies
  <2>2. QED
    BY <2>1, AgreesWithAllowance, AgreesWithUnlimited, AgreesWithHardLimits, AgreesWithThreshold
<1>2. QED
  BY <1>1, TypeCorrect, PTL
===============================================================================
