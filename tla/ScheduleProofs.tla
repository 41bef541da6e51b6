---------------------------- MODULE ScheduleProofs ----------------------------
(***************************************************************************)
(* Proofs about the jobs that follow the calendar: Recurrence, Recurring-  *)
(* Schedule, Reminders, BudgetRenewal and their composition MCScheduling,  *)
(* for any numbers of schedules, reminders, budgets, workers and requests, *)
(* any timings and plans, and every horizon.                               *)
(***************************************************************************)
EXTENDS MCScheduling, Totals

-----------------------------------------------------------------------------
(* The calendar and the dates that recur.                                  *)

(* The first day of the year that begins in March, counted from March of
   year 0, and of the month with number 12 * year + month. *)
YearOfEra(doe) == (doe - doe \div 1460 + doe \div 36524 - doe \div 146096) \div 365
Epoch == 719468
YearStart(y) == 365 * y + y \div 4 - y \div 100 + y \div 400
MonthStart(n) ==
  YearStart((n - 3) \div 12) + (153 * ((n - 3) % 12) + 2) \div 5 - Epoch
MonthOf(date) == 12 * Civil(date).year + Civil(date).month

LEMMA EpochIs == Epoch \in Int
BY DEF Epoch

(* The year of an era, of March, that a day lies in. *)
LEMMA YearFound ==
  ASSUME NEW doe \in Nat, doe < 146097
  PROVE  /\ YearOfEra(doe) \in 0..399
         /\ YearStart(YearOfEra(doe)) <= doe
         /\ doe < YearStart(YearOfEra(doe) + 1)
<1>1. CASE doe = 146096
  <2>1. YearOfEra(doe) = 399
    BY <1>1 DEF YearOfEra
  <2> QED
    BY <1>1, <2>1 DEF YearStart
<1>2. CASE doe < 146096
  <2>1. PICK c \in 0..3 : c = doe \div 36524 /\ 36524 * c <= doe /\ doe < 36524 * c + 36524
    BY <1>2
  <2>2. doe \div 146096 = 0
    BY <1>2
  <2>3. PICK q \in Int : q = doe \div 1460 /\ 1460 * q <= doe /\ doe < 1460 * q + 1460
    OBVIOUS
  <2>4. PICK y \in Int : /\ y = (doe - q + c) \div 365
                         /\ 365 * y <= doe - q + c /\ doe - q + c < 365 * y + 365
    OBVIOUS
  <2>5. y = YearOfEra(doe)
    BY <2>1, <2>2, <2>3, <2>4 DEF YearOfEra
  <2>6. PICK k \in Int, r \in 0..3 : y = 4 * k + r /\ k = y \div 4
    <3>1. y \div 4 \in Int /\ 4 * (y \div 4) <= y /\ y < 4 * (y \div 4) + 4
      BY ONLY y \in Int
    <3>2. y - 4 * (y \div 4) \in 0..3 /\ y = 4 * (y \div 4) + (y - 4 * (y \div 4))
      BY <3>1
    <3> QED
      BY <3>1, <3>2
  <2>7. /\ 100 * c <= y /\ y < 100 * c + 100
        /\ 365 * y + k - c <= doe
        /\ y < 100 * c + 99 => doe < 365 * (y + 1) + (IF r = 3 THEN k + 1 ELSE k) - c
        /\ y = 100 * c + 99 => doe < 365 * (y + 1) + k - c
    <3>1. /\ doe \in Int /\ c \in 0..3 /\ q \in Int /\ y \in Int /\ k \in Int /\ r \in 0..3
          /\ 36524 * c <= doe /\ doe < 36524 * c + 36524
          /\ 1460 * q <= doe /\ doe < 1460 * q + 1460
          /\ 365 * y <= doe - q + c /\ doe - q + c < 365 * y + 365 /\ y = 4 * k + r
      BY <2>1, <2>3, <2>4, <2>6
    <3>2. CASE c = 0
      BY ONLY <3>1, <3>2, SMTT(60)
    <3>3. CASE c = 1
      BY ONLY <3>1, <3>3, SMTT(60)
    <3>4. CASE c = 2
      BY ONLY <3>1, <3>4, SMTT(60)
    <3>5. CASE c = 3
      BY ONLY <3>1, <3>5, SMTT(60)
    <3> QED
      BY <3>2, <3>3, <3>4, <3>5
  <2>8. y \in 0..399 /\ y \div 100 = c /\ y \div 400 = 0
    BY <2>7
  <2>9. YearStart(y) <= doe
    BY <2>6, <2>7, <2>8 DEF YearStart
  <2>10. doe < YearStart(y + 1)
    <3>1. (y + 1) \div 4 = IF r = 3 THEN k + 1 ELSE k
      BY <2>6
    <3>2. CASE y < 100 * c + 99
      <4>1. (y + 1) \div 100 = c /\ (y + 1) \div 400 = 0
        BY <2>8, <3>2
      <4> QED
        BY <2>7, <3>1, <3>2, <4>1 DEF YearStart
    <3>3. CASE y = 100 * c + 99
      <4>1. (y + 1) \div 100 = c + 1 /\ (y + 1) \div 400 >= 0
        BY <2>8, <3>3
      <4>2. (y + 1) \div 4 = k + 1
        BY <2>6, <3>3
      <4> QED
        BY <2>7, <3>3, <4>1, <4>2 DEF YearStart
    <3> QED
      BY <2>7, <3>2, <3>3
  <2> QED
    BY <2>5, <2>8, <2>9, <2>10
<1>3. doe = 146096 \/ doe < 146096
  OBVIOUS
<1> QED
  BY <1>1, <1>2, <1>3

(* The month, counted from March, that a day of such a year lies in. *)
LEMMA MonthFound ==
  ASSUME NEW doy \in 0..365
  PROVE  /\ (5 * doy + 2) \div 153 \in 0..11
         /\ (153 * ((5 * doy + 2) \div 153) + 2) \div 5 <= doy
         /\ doy < (153 * ((5 * doy + 2) \div 153 + 1) + 2) \div 5
BY SMTT(30)

(* Eras of 400 years have 146097 days. *)
LEMMA YearsOfEra ==
  ASSUME NEW era \in Int, NEW y \in 0..400
  PROVE  YearStart(400 * era + y) = 146097 * era + YearStart(y)
<1>1. (400 * era + y) \div 4 = 100 * era + y \div 4
  OBVIOUS
<1>2. (400 * era + y) \div 100 = 4 * era + y \div 100
  OBVIOUS
<1>3. (400 * era + y) \div 400 = era + y \div 400
  OBVIOUS
<1> QED
  BY <1>1, <1>2, <1>3 DEF YearStart

(* A year has 365 or 366 days. *)
LEMMA YearsGrow ==
  ASSUME NEW a \in Int, NEW b \in Int, a < b
  PROVE  /\ YearStart(a) \in Int /\ YearStart(a) + 365 <= YearStart(b)
         /\ b = a + 1 => YearStart(b) <= YearStart(a) + 366
<1>1. CASE b = a + 1
  BY <1>1, SMTT(30) DEF YearStart
<1>2. CASE b > a + 1
  <2>1. b \div 100 - a \div 100 <= (b - a) \div 100 + 1
    OBVIOUS
  <2> QED
    BY <1>2, <2>1, SMTT(30) DEF YearStart
<1> QED
  BY <1>1, <1>2

(* The month with number n is the month of some year that begins in March. *)
LEMMA MonthOfYear ==
  ASSUME NEW n \in Int
  PROVE  \E y \in Int, o \in 0..11 :
            /\ n - 3 = 12 * y + o
            /\ MonthStart(n) = YearStart(y) + (153 * o + 2) \div 5 - Epoch
<1>1. PICK k \in Int : k = n - 3
  OBVIOUS
<1>2. PICK y \in Int : y = k \div 12 /\ 12 * y <= k /\ k < 12 * y + 12
  BY ONLY k \in Int
<1>3. PICK o \in 0..11 : k = 12 * y + o
  <2>1. k - 12 * y \in 0..11 /\ k = 12 * y + (k - 12 * y)
    BY <1>2
  <2> QED
    BY <2>1
<1>4. k % 12 = o
  BY ONLY k \in Int, y \in Int, o \in 0..11, <1>3
<1> QED
  BY <1>1, <1>2, <1>3, <1>4 DEF MonthStart

(* A month has 28 days at least. *)
LEMMA MonthsGrow ==
  ASSUME NEW m \in Int, NEW n \in Int, m < n
  PROVE  /\ MonthStart(m) \in Int /\ MonthStart(n) \in Int
         /\ MonthStart(m) + 28 <= MonthStart(n)
<1>1. PICK y \in Int, o \in 0..11 :
            /\ m - 3 = 12 * y + o
            /\ MonthStart(m) = YearStart(y) + (153 * o + 2) \div 5 - Epoch
  BY MonthOfYear
<1>2. PICK z \in Int, p \in 0..11 :
            /\ n - 3 = 12 * z + p
            /\ MonthStart(n) = YearStart(z) + (153 * p + 2) \div 5 - Epoch
  BY MonthOfYear
<1>3. YearStart(y) \in Int /\ YearStart(z) \in Int
  BY DEF YearStart
<1>4. CASE y = z
  <2>1. o < p
    BY <1>1, <1>2, <1>4
  <2>2. (153 * o + 2) \div 5 + 28 <= (153 * p + 2) \div 5
    BY ONLY o \in 0..11, p \in 0..11, <2>1
  <2> QED
    BY <1>1, <1>2, <1>3, <1>4, <2>2, EpochIs
<1>5. CASE y < z
  <2>1. YearStart(y) + 365 <= YearStart(z)
    BY <1>5, YearsGrow
  <2>2. (153 * o + 2) \div 5 <= 337 /\ (153 * p + 2) \div 5 >= 0
    BY ONLY o \in 0..11, p \in 0..11
  <2> QED
    BY <1>1, <1>2, <1>3, <2>1, <2>2, EpochIs
<1>6. y <= z
  BY <1>1, <1>2
<1> QED
  BY <1>4, <1>5, <1>6

StartIn(y, o) == YearStart(y) + (153 * o + 2) \div 5 - Epoch

LEMMA MonthStartIs ==
  ASSUME NEW n \in Int, NEW y \in Int, NEW o \in 0..11, n = 12 * y + o + 3
  PROVE  MonthStart(n) = StartIn(y, o)
<1>1. PICK k \in Int : k = 12 * y + o /\ k = n - 3
  OBVIOUS
<1>2. k \div 12 = y /\ k % 12 = o
  BY ONLY k \in Int, y \in Int, o \in 0..11, <1>1
<1> QED
  BY <1>1, <1>2 DEF MonthStart, StartIn

LEMMA YearInEra ==
  ASSUME NEW y \in 0..399
  PROVE  YearStart(y) = 365 * y + y \div 4 - y \div 100
<1>1. y \div 400 = 0
  OBVIOUS
<1> QED
  BY <1>1 DEF YearStart

(* The day number of the first of a month, as the code's UTC date has it. *)
LEMMA DayNumberIs ==
  ASSUME NEW year \in Int, NEW month \in 1..12
  PROVE  DayNumber(year, month, 1) = MonthStart(12 * year + month)
<1> DEFINE y == IF month <= 2 THEN year - 1 ELSE year
           era == y \div 400
           yoe == y - era * 400
           a == yoe \div 4
           b == yoe \div 100
<1>1. PICK o \in 0..11 : o = (month + 9) % 12 /\ 12 * year + month = 12 * y + o + 3
  <2>1. CASE month <= 2
    <3>1. (month + 9) % 12 = month + 9
      BY <2>1
    <3> QED
      BY <2>1, <3>1
  <2>2. CASE month > 2
    <3>1. (month + 9) % 12 = month - 3
      BY <2>2
    <3> QED
      BY <2>2, <3>1
  <2> QED
    BY <2>1, <2>2
<1> DEFINE f == (153 * o + 2) \div 5
<1>2. y \in Int
  OBVIOUS
<1>3. DayNumber(year, month, 1) = era * 146097 + yoe * 365 + a - b + (f + 1 - 1) - Epoch
  BY <1>1 DEF DayNumber, Epoch
<1> HIDE DEF y
<1>4. era \in Int /\ yoe \in 0..399 /\ y = 400 * era + yoe
  BY <1>2
<1> HIDE DEF era, yoe
<1>5. YearStart(y) = 146097 * era + (365 * yoe + a - b)
  <2>1. YearStart(400 * era + yoe) = 146097 * era + YearStart(yoe)
    BY <1>4, YearsOfEra
  <2>2. YearStart(yoe) = 365 * yoe + a - b
    BY <1>4, YearInEra
  <2> QED
    BY <1>4, <2>1, <2>2
<1>6. a \in Int /\ b \in Int /\ f \in Int
  BY <1>4
<1>7. MonthStart(12 * year + month) = YearStart(y) + f - Epoch
  <2>1. PICK n \in Int : n = 12 * year + month
    OBVIOUS
  <2>2. MonthStart(n) = StartIn(y, o)
    BY <1>1, <1>2, <2>1, MonthStartIs
  <2> QED
    BY <2>1, <2>2 DEF StartIn
<1> HIDE DEF a, b, f
<1> QED
  BY ONLY <1>3, <1>4, <1>5, <1>6, <1>7, EpochIs

(* The same for months outside 1 to 12, which a UTC date carries over. *)
LEMMA FirstOfMonthIs ==
  ASSUME NEW year \in Int, NEW month \in Int
  PROVE  FirstOfMonth(year, month) = MonthStart(12 * year + month)
<1>1. PICK q \in Int : q = (month - 1) \div 12 /\ 12 * q <= month - 1 /\ month - 1 < 12 * q + 12
  OBVIOUS
<1>2. PICK o \in 0..11 : month - 1 = 12 * q + o
  <2>1. month - 1 - 12 * q \in 0..11 /\ month - 1 = 12 * q + (month - 1 - 12 * q)
    BY <1>1
  <2> QED
    BY <2>1
<1>3. (month - 1) % 12 = o
  <2>1. PICK k \in Int : k = month - 1
    OBVIOUS
  <2> QED
    BY <1>2, <2>1
<1>4. o + 1 \in 1..12 /\ year + q \in Int /\ 12 * (year + q) + (o + 1) = 12 * year + month
  BY <1>2
<1>5. DayNumber(year + q, o + 1, 1) = MonthStart(12 * year + month)
  BY <1>4, DayNumberIs
<1> QED
  BY <1>1, <1>3, <1>5 DEF FirstOfMonth

(* The civil date of a day names the month the day lies in and its day there. *)
LEMMA CivilFound ==
  ASSUME NEW date \in Int
  PROVE  /\ Civil(date).year \in Int /\ Civil(date).month \in 1..12
         /\ Civil(date).day \in Nat \ {0}
         /\ date = MonthStart(MonthOf(date)) + Civil(date).day - 1
         /\ date < MonthStart(MonthOf(date) + 1)
<1>1. PICK z \in Int : z = date + Epoch
  BY EpochIs
<1>2. PICK era \in Int : era = z \div 146097 /\ 146097 * era <= z /\ z < 146097 * era + 146097
  OBVIOUS
<1>3. PICK doe \in Nat : doe = z % 146097 /\ z = 146097 * era + doe /\ doe < 146097
  <2>1. z - 146097 * era \in Nat /\ z - 146097 * era < 146097
        /\ z = 146097 * era + (z - 146097 * era)
    BY <1>2
  <2>2. PICK r \in Nat : r = z - 146097 * era /\ r < 146097 /\ z = 146097 * era + r
    BY <2>1
  <2>3. z % 146097 = r
    BY ONLY z \in Int, era \in Int, r \in Nat, <2>2
  <2> QED
    BY <2>2, <2>3
<1>4. PICK yoe \in 0..399 : yoe = YearOfEra(doe) /\ YearStart(yoe) <= doe /\ doe < YearStart(yoe + 1)
  <2>1. /\ YearOfEra(doe) \in 0..399 /\ YearStart(YearOfEra(doe)) <= doe
        /\ doe < YearStart(YearOfEra(doe) + 1)
    BY <1>3, YearFound
  <2> QED
    BY <2>1
<1>5. PICK s \in Int, t \in Int : /\ s = YearStart(yoe) /\ t = YearStart(yoe + 1)
                                  /\ s <= doe /\ doe < t /\ t <= s + 366
  <2>1. YearStart(yoe) \in Int /\ YearStart(yoe + 1) <= YearStart(yoe) + 366
    BY YearsGrow
  <2>2. YearStart(yoe + 1) \in Int
    BY DEF YearStart
  <2> QED
    BY <1>4, <2>1, <2>2
<1>6. PICK doy \in 0..365 : doy = doe - s
  <2>1. doe - s \in 0..365
    BY ONLY doe \in Nat, s \in Int, t \in Int, <1>5
  <2> QED
    BY <2>1
<1>7. PICK mp \in 0..11 : /\ mp = (5 * doy + 2) \div 153
                          /\ (153 * mp + 2) \div 5 <= doy
                          /\ doy < (153 * (mp + 1) + 2) \div 5
  BY MonthFound
<1> DEFINE year == era * 400 + yoe
           first == (153 * mp + 2) \div 5
           next == (153 * (mp + 1) + 2) \div 5
<1>8. Civil(date) = [year  |-> year + (IF mp < 10 THEN 0 ELSE 1),
                     month |-> IF mp < 10 THEN mp + 3 ELSE mp - 9,
                     day   |-> doy - first + 1]
  <2> DEFINE OfMonth(y, d, m) == [year  |-> y + (IF m < 10 THEN 0 ELSE 1),
                                  month |-> IF m < 10 THEN m + 3 ELSE m - 9,
                                  day   |-> d - (153 * m + 2) \div 5 + 1]
             OfYear(y, d) == OfMonth(y, d, (5 * d + 2) \div 153)
             OfEra(e, o, n) == OfYear(e * 400 + n, o - (365 * n + n \div 4 - n \div 100))
             InEra(e, o) == OfEra(e, o, YearOfEra(o))
  <2>1. Civil(date) = InEra((date + 719468) \div 146097, (date + 719468) % 146097)
    BY ONLY DEF Civil, YearOfEra
  <2> HIDE DEF OfMonth, OfYear, OfEra, InEra
  <2>2. date + 719468 = z /\ z \div 146097 = era /\ z % 146097 = doe
    BY ONLY <1>1, <1>2, <1>3 DEF Epoch
  <2>3. Civil(date) = InEra(era, doe)
    BY ONLY <2>1, <2>2
  <2>4. InEra(era, doe) = OfEra(era, doe, yoe)
    BY ONLY <1>4 DEF InEra
  <2>5. doy = doe - (365 * yoe + yoe \div 4 - yoe \div 100)
    BY <1>5, <1>6, YearInEra
  <2>6. OfEra(era, doe, yoe) = OfYear(year, doy)
    BY ONLY <2>5 DEF OfEra
  <2>7. OfYear(year, doy) = OfMonth(year, doy, mp)
    BY ONLY <1>7 DEF OfYear
  <2> QED
    BY ONLY <2>3, <2>4, <2>6, <2>7 DEF OfMonth
<1>9. first \in Int /\ next \in Int /\ first <= doy /\ doy < next /\ year \in Int
  BY <1>7
<1>10. YearStart(year) = 146097 * era + s /\ YearStart(year + 1) = 146097 * era + t
  <2>1. yoe \in 0..400 /\ yoe + 1 \in 0..400
    OBVIOUS
  <2>2. PICK v \in 0..400, w \in 0..400 : v = yoe /\ w = yoe + 1
    BY ONLY <2>1
  <2>3. YearStart(400 * era + v) = 146097 * era + YearStart(v)
    BY YearsOfEra
  <2>4. YearStart(400 * era + w) = 146097 * era + YearStart(w)
    BY YearsOfEra
  <2>5. 400 * era + v = year /\ 400 * era + w = year + 1
    BY <2>2
  <2> QED
    BY <1>5, <2>2, <2>3, <2>4, <2>5
<1> HIDE DEF year
<1>11. MonthOf(date) = 12 * year + mp + 3
  BY <1>8, <1>9 DEF MonthOf
<1>12. MonthOf(date) \in Int /\ MonthStart(MonthOf(date)) = YearStart(year) + first - Epoch
  <2>1. PICK n \in Int : n = MonthOf(date) /\ n = 12 * year + mp + 3
    BY <1>9, <1>11
  <2>2. MonthStart(n) = StartIn(year, mp)
    BY ONLY n \in Int, mp \in 0..11, <1>9, <2>1, MonthStartIs
  <2> QED
    BY <2>1, <2>2 DEF StartIn
<1>13. Civil(date).year \in Int /\ Civil(date).month \in 1..12 /\ Civil(date).day = doy - first + 1
  BY <1>8, <1>9
<1>14. MonthStart(MonthOf(date) + 1) = IF mp < 11 THEN YearStart(year) + next - Epoch
                                        ELSE YearStart(year + 1) - Epoch
  <2>1. PICK n \in Int : n = MonthOf(date) + 1
    BY <1>12
  <2>2. CASE mp < 11
    <3>1. PICK o \in 0..11 : o = mp + 1
      BY <2>2
    <3>2. n = 12 * year + o + 3
      BY <1>9, <1>11, <2>1, <3>1
    <3>3. MonthStart(n) = StartIn(year, o)
      BY ONLY n \in Int, o \in 0..11, <1>9, <3>2, MonthStartIs
    <3> QED
      BY <2>1, <2>2, <3>1, <3>3 DEF StartIn
  <2>3. CASE mp = 11
    <3>1. PICK y \in Int, o \in 0..11 : y = year + 1 /\ o = 0 /\ (153 * o + 2) \div 5 = 0
      <4>1. year + 1 \in Int /\ 0 \in 0..11
        BY ONLY <1>9
      <4>2. (153 * 0 + 2) \div 5 = 0
        BY ONLY SMT
      <4> QED
        BY ONLY <4>1, <4>2
    <3>2. n = 12 * y + o + 3
      BY <1>9, <1>11, <2>1, <2>3, <3>1
    <3>3. MonthStart(n) = StartIn(y, o)
      BY ONLY n \in Int, y \in Int, o \in 0..11, <3>1, <3>2, MonthStartIs
    <3>4. YearStart(y) \in Int
      BY DEF YearStart
    <3> QED
      BY <2>1, <2>3, <3>1, <3>3, <3>4, EpochIs DEF StartIn
  <2> QED
    BY <2>2, <2>3
<1> HIDE DEF first, next
<1>15. date = MonthStart(MonthOf(date)) + Civil(date).day - 1 /\ Civil(date).day \in Nat \ {0}
  BY ONLY date \in Int, z \in Int, era \in Int, doe \in Nat, s \in Int, doy \in 0..365,
          <1>1, <1>3, <1>6, <1>9, <1>10, <1>12, <1>13, EpochIs
<1>16. date < MonthStart(MonthOf(date) + 1)
  <2>1. date = 146097 * era + s + doy - Epoch /\ date < 146097 * era + t - Epoch
    BY ONLY date \in Int, z \in Int, era \in Int, doe \in Nat, s \in Int, t \in Int,
            doy \in 0..365, <1>1, <1>3, <1>5, <1>6, EpochIs
  <2> QED
    BY ONLY <2>1, <1>9, <1>10, <1>14, date \in Int, era \in Int, s \in Int, t \in Int,
            doy \in 0..365, EpochIs
<1> QED
  BY <1>13, <1>15, <1>16

LEMMA MonthIsInt ==
  ASSUME NEW date \in Int
  PROVE  MonthOf(date) \in Int
<1>1. PICK year \in Int, month \in 1..12 : year = Civil(date).year /\ month = Civil(date).month
  BY CivilFound
<1>2. MonthOf(date) = 12 * year + month
  BY ONLY <1>1 DEF MonthOf
<1> QED
  BY ONLY <1>2, year \in Int, month \in 1..12

(* A day that lies in a month has that month in its civil date. *)
LEMMA InMonth ==
  ASSUME NEW date \in Int, NEW n \in Int,
         MonthStart(n) <= date, date < MonthStart(n + 1)
  PROVE  MonthOf(date) = n
<1>1. PICK m \in Int : m = MonthOf(date)
  BY MonthIsInt
<1>2. PICK day \in Nat \ {0} : day = Civil(date).day
  BY CivilFound
<1>3. date = MonthStart(m) + day - 1 /\ date < MonthStart(m + 1)
  BY <1>1, <1>2, CivilFound
<1>4. /\ MonthStart(m) \in Int /\ MonthStart(m + 1) \in Int
      /\ MonthStart(n) \in Int /\ MonthStart(n + 1) \in Int
  BY MonthsGrow
<1>5. ~(m < n)
  <2>1. SUFFICES ASSUME m < n PROVE FALSE
    OBVIOUS
  <2>2. m + 1 = n \/ m + 1 < n
    BY <2>1
  <2>3. MonthStart(m + 1) <= MonthStart(n)
    BY <1>4, <2>2, MonthsGrow
  <2> QED
    BY <1>3, <1>4, <2>3
<1>6. ~(n < m)
  <2>1. SUFFICES ASSUME n < m PROVE FALSE
    OBVIOUS
  <2>2. n + 1 = m \/ n + 1 < m
    BY <2>1
  <2>3. MonthStart(n + 1) <= MonthStart(m)
    BY <1>4, <2>2, MonthsGrow
  <2> QED
    BY <1>3, <1>4, <2>3
<1> QED
  BY <1>1, <1>5, <1>6

(* The last day of a month is its length. *)
LEMMA LastDayIs ==
  ASSUME NEW year \in Int, NEW month \in Int, NEW n \in Int, n = 12 * year + month
  PROVE  LastDay(year, month) = MonthStart(n + 1) - MonthStart(n)
<1>1. FirstOfMonth(year, month + 1) = MonthStart(n + 1)
  <2>1. PICK k \in Int : k = month + 1
    OBVIOUS
  <2>2. FirstOfMonth(year, k) = MonthStart(12 * year + k)
    BY FirstOfMonthIs
  <2>3. 12 * year + k = n + 1
    BY <2>1
  <2> QED
    BY <2>1, <2>2, <2>3
<1>2. /\ MonthStart(n) \in Int /\ MonthStart(n + 1) \in Int
      /\ MonthStart(n) + 28 <= MonthStart(n + 1)
  <2>1. n + 1 \in Int /\ n < n + 1
    OBVIOUS
  <2> QED
    BY <2>1, MonthsGrow
<1>3. PICK d \in Int : d = MonthStart(n + 1) - 1
  BY <1>2
<1>4. MonthOf(d) = n
  BY <1>2, <1>3, InMonth
<1>5. d = MonthStart(n) + Civil(d).day - 1 /\ Civil(d).day \in Nat
  BY <1>4, CivilFound
<1>6. LastDay(year, month) = Civil(d).day
  BY <1>1, <1>3 DEF LastDay
<1> QED
  BY ONLY <1>2, <1>3, <1>5, <1>6

(* Months on from a date: the month is that much later, the day the same or
   the last one of the month. *)
LEMMA MonthsOn ==
  ASSUME NEW date \in Int, NEW months \in Int
  PROVE  /\ MonthOf(date) \in Int
         /\ AddMonthsClamped(date, months) \in Int
         /\ MonthOf(AddMonthsClamped(date, months)) = MonthOf(date) + months
         /\ months = 0 => AddMonthsClamped(date, months) = date
<1>1. PICK year \in Int, month \in 1..12, day \in Nat \ {0} :
           year = Civil(date).year /\ month = Civil(date).month /\ day = Civil(date).day
  BY CivilFound
<1>2. PICK m \in Int, n \in Int, k \in Int :
           /\ m = MonthOf(date) /\ n = m + months /\ k = month + months
           /\ m = 12 * year + month /\ n = 12 * year + k
  BY <1>1 DEF MonthOf
<1>3. LastDay(year, k) = MonthStart(n + 1) - MonthStart(n)
  BY <1>2, LastDayIs
<1>4. FirstOfMonth(year, k) = MonthStart(n)
  BY <1>2, FirstOfMonthIs
<1>5. AddMonthsClamped(date, months) =
         MonthStart(n) + (IF day < MonthStart(n + 1) - MonthStart(n)
                          THEN day ELSE MonthStart(n + 1) - MonthStart(n)) - 1
  BY <1>1, <1>2, <1>3, <1>4 DEF AddMonthsClamped
<1>6. /\ MonthStart(n) \in Int /\ MonthStart(n + 1) \in Int
      /\ MonthStart(n) + 28 <= MonthStart(n + 1)
  <2>1. n + 1 \in Int /\ n < n + 1
    OBVIOUS
  <2> QED
    BY <2>1, MonthsGrow
<1>7. PICK a \in Int : /\ a = AddMonthsClamped(date, months)
                       /\ MonthStart(n) <= a /\ a < MonthStart(n + 1)
                       /\ day < MonthStart(n + 1) - MonthStart(n) + 1 =>
                             a = MonthStart(n) + day - 1
  BY <1>5, <1>6
<1>8. MonthOf(a) = n
  BY <1>7, InMonth
<1>9. date = MonthStart(m) + day - 1 /\ date < MonthStart(m + 1)
  BY <1>1, <1>2, CivilFound
<1>10. months = 0 => a = date
  <2>1. months = 0 => n = m
    BY <1>2
  <2> QED
    BY <1>6, <1>7, <1>9, <2>1
<1> QED
  BY <1>2, <1>7, <1>8, <1>10

(* The later month holds the later date. *)
LEMMA LaterMonth ==
  ASSUME NEW a \in Int, NEW b \in Int, MonthOf(a) < MonthOf(b)
  PROVE  a < b
<1>1. PICK m \in Int, n \in Int : m = MonthOf(a) /\ n = MonthOf(b) /\ m < n
  BY MonthIsInt
<1>2. a < MonthStart(m + 1)
  BY <1>1, CivilFound
<1>3. MonthStart(n) <= b
  <2>1. PICK day \in Nat \ {0} : day = Civil(b).day
    BY CivilFound
  <2>2. b = MonthStart(n) + day - 1 /\ MonthStart(n) \in Int
    BY <1>1, <2>1, CivilFound, MonthsGrow
  <2> QED
    BY <2>2
<1>4. MonthStart(m + 1) <= MonthStart(n) /\ MonthStart(m + 1) \in Int /\ MonthStart(n) \in Int
  <2>1. m + 1 \in Int /\ (m + 1 = n \/ m + 1 < n)
    BY <1>1
  <2>2. MonthStart(m + 1) \in Int /\ MonthStart(n) \in Int
    BY <2>1, MonthsGrow
  <2> QED
    BY <2>1, <2>2, MonthsGrow
<1> QED
  BY <1>2, <1>3, <1>4

LEMMA ProductsGrow ==
  ASSUME NEW u \in Nat \ {0}, NEW i \in Int, NEW j \in Int, i < j
  PROVE  i * u \in Int /\ j * u \in Int /\ i * u < j * u
<1>1. PICK k \in Nat \ {0} : j = i + k
  <2>1. j - i \in Nat \ {0} /\ j = i + (j - i)
    OBVIOUS
  <2> QED
    BY <2>1
<1>2. k * u >= 1
  OBVIOUS
<1>3. j * u = i * u + k * u
  BY <1>1
<1> QED
  BY <1>2, <1>3

(* Occurrences grow with their index, from the anchor on. *)
LEMMA OccurrencesGrow ==
  ASSUME NEW anchor \in Int, NEW frequency \in Frequencies, NEW interval \in Nat \ {0},
         NEW i \in Int, NEW j \in Int
  PROVE  /\ OccurrenceAt(anchor, frequency, interval, i) \in Int
         /\ i < j => OccurrenceAt(anchor, frequency, interval, i)
                       < OccurrenceAt(anchor, frequency, interval, j)
         /\ i = 0 => OccurrenceAt(anchor, frequency, interval, i) = anchor
<1>1. PICK u \in Nat \ {0} : u = Unit(frequency, interval)
  BY DEF Unit
<1>2. PICK s \in Int, t \in Int : /\ s = i * u /\ t = j * u
                                  /\ (i < j => s < t) /\ (i = 0 => s = 0)
  BY ProductsGrow
<1>3. CASE InDays(frequency)
  BY <1>1, <1>2, <1>3 DEF OccurrenceAt, AddDays
<1>4. CASE ~InDays(frequency)
  <2>1. /\ OccurrenceAt(anchor, frequency, interval, i) = AddMonthsClamped(anchor, s)
        /\ OccurrenceAt(anchor, frequency, interval, j) = AddMonthsClamped(anchor, t)
    BY <1>1, <1>2, <1>4 DEF OccurrenceAt
  <2>2. PICK m \in Int, a \in Int, b \in Int :
           /\ m = MonthOf(anchor)
           /\ a = AddMonthsClamped(anchor, s) /\ MonthOf(a) = m + s
           /\ b = AddMonthsClamped(anchor, t) /\ MonthOf(b) = m + t
           /\ s = 0 => a = anchor
    <3>1. /\ MonthOf(anchor) \in Int
          /\ AddMonthsClamped(anchor, s) \in Int
          /\ MonthOf(AddMonthsClamped(anchor, s)) = MonthOf(anchor) + s
          /\ s = 0 => AddMonthsClamped(anchor, s) = anchor
      BY MonthsOn
    <3>2. /\ AddMonthsClamped(anchor, t) \in Int
          /\ MonthOf(AddMonthsClamped(anchor, t)) = MonthOf(anchor) + t
      BY MonthsOn
    <3> QED
      BY <3>1, <3>2
  <2>3. s < t => a < b
    BY <2>2, LaterMonth
  <2> QED
    BY <1>2, <2>1, <2>2, <2>3
<1> QED
  BY <1>3, <1>4

(* The guess is an occurrence too late at most, and at most one too early. *)
LEMMA GuessIsNear ==
  ASSUME NEW anchor \in Int, NEW frequency \in Frequencies, NEW interval \in Nat \ {0},
         NEW date \in Int, anchor <= date,
         NEW g \in Int, g = Elapsed(anchor, frequency, interval, date)
  PROVE  /\ g \in Nat
         /\ OccurrenceAt(anchor, frequency, interval, g - 1) < date
         /\ date < OccurrenceAt(anchor, frequency, interval, g + 1)
<1>1. PICK u \in Nat \ {0} : u = Unit(frequency, interval)
  BY DEF Unit
<1>2. ASSUME NEW x \in Nat, g = x \div u
      PROVE  /\ g \in Nat
             /\ g * u \in Int /\ (g - 1) * u \in Int /\ (g + 1) * u \in Int
             /\ (g - 1) * u < g * u /\ g * u <= x /\ x < (g + 1) * u
  <2>1. g \in Nat /\ g * u <= x /\ x < g * u + u
    BY <1>2
  <2>2. (g - 1) * u = g * u - u /\ (g + 1) * u = g * u + u /\ g * u \in Int
    OBVIOUS
  <2> QED
    BY <2>1, <2>2
<1>3. CASE InDays(frequency)
  <2>1. PICK x \in Nat : x = date - anchor /\ g = x \div u
    BY <1>1, <1>3 DEF Elapsed
  <2>2. /\ OccurrenceAt(anchor, frequency, interval, g - 1) = anchor + (g - 1) * u
        /\ OccurrenceAt(anchor, frequency, interval, g + 1) = anchor + (g + 1) * u
    BY <1>1, <1>3 DEF OccurrenceAt, AddDays
  <2>3. PICK s \in Int, t \in Int : /\ s = (g - 1) * u /\ t = (g + 1) * u
                                    /\ s < x /\ x < t /\ g \in Nat
    <3>1. /\ g \in Nat /\ g * u \in Int /\ (g - 1) * u \in Int /\ (g + 1) * u \in Int
          /\ (g - 1) * u < g * u /\ g * u <= x /\ x < (g + 1) * u
      BY <1>2, <2>1
    <3> QED
      BY <3>1
  <2> QED
    BY <2>1, <2>2, <2>3
<1>4. CASE ~InDays(frequency)
  <2>1. MonthOf(anchor) \in Int /\ MonthOf(date) \in Int
    BY MonthsOn
  <2>2. MonthOf(anchor) <= MonthOf(date)
    BY <2>1, LaterMonth
  <2>3. PICK x \in Nat : x = MonthOf(date) - MonthOf(anchor)
    BY <2>1, <2>2
  <2>4. g = x \div u
    <3>1. PICK a \in Int, b \in Int, c \in Int, d \in Int :
             /\ a = Civil(anchor).year /\ b = Civil(anchor).month
             /\ c = Civil(date).year /\ d = Civil(date).month
      <4>1. Civil(anchor).year \in Int /\ Civil(anchor).month \in Int
        BY CivilFound
      <4>2. Civil(date).year \in Int /\ Civil(date).month \in Int
        BY CivilFound
      <4> QED
        BY <4>1, <4>2
    <3>2. MonthsBetween(anchor, date) = (c * 12 + d) - (a * 12 + b)
      BY <3>1 DEF MonthsBetween
    <3>3. x = (12 * c + d) - (12 * a + b)
      BY <2>3, <3>1 DEF MonthOf
    <3> QED
      BY <1>1, <1>4, <3>2, <3>3 DEF Elapsed
  <2>5. PICK s \in Int, t \in Int : /\ s = (g - 1) * u /\ t = (g + 1) * u
                                    /\ s < x /\ x < t /\ g \in Nat
    <3>1. /\ g \in Nat /\ g * u \in Int /\ (g - 1) * u \in Int /\ (g + 1) * u \in Int
          /\ (g - 1) * u < g * u /\ g * u <= x /\ x < (g + 1) * u
      BY <1>2, <2>4
    <3> QED
      BY <3>1
  <2>6. /\ OccurrenceAt(anchor, frequency, interval, g - 1) = AddMonthsClamped(anchor, s)
        /\ OccurrenceAt(anchor, frequency, interval, g + 1) = AddMonthsClamped(anchor, t)
    BY <1>1, <1>4, <2>5 DEF OccurrenceAt
  <2>7. PICK a \in Int, b \in Int :
           /\ a = AddMonthsClamped(anchor, s) /\ MonthOf(a) = MonthOf(anchor) + s
           /\ b = AddMonthsClamped(anchor, t) /\ MonthOf(b) = MonthOf(anchor) + t
    <3>1. /\ AddMonthsClamped(anchor, s) \in Int
          /\ MonthOf(AddMonthsClamped(anchor, s)) = MonthOf(anchor) + s
      BY MonthsOn
    <3>2. /\ AddMonthsClamped(anchor, t) \in Int
          /\ MonthOf(AddMonthsClamped(anchor, t)) = MonthOf(anchor) + t
      BY MonthsOn
    <3> QED
      BY <3>1, <3>2
  <2>8. a < date /\ date < b
    <3>1. MonthOf(a) < MonthOf(date) /\ MonthOf(date) < MonthOf(b)
      BY <2>1, <2>3, <2>5, <2>7
    <3> QED
      BY <3>1, LaterMonth
  <2> QED
    BY <2>5, <2>6, <2>7, <2>8
<1> QED
  BY <1>3, <1>4

(* The walk stops at the first occurrence from the guess on. *)
LEMMA WalkFinds ==
  ASSUME NEW anchor \in Int, NEW frequency \in Frequencies, NEW interval \in Nat \ {0},
         NEW guess \in Nat, NEW earliest \in Int,
         earliest <= OccurrenceAt(anchor, frequency, interval, guess + 1)
  PROVE  \E i \in Nat :
            /\ guess <= i /\ i <= guess + 1
            /\ WalkFrom(anchor, frequency, interval, guess, earliest)
                 = OccurrenceAt(anchor, frequency, interval, i)
            /\ earliest <= OccurrenceAt(anchor, frequency, interval, i)
            /\ \A k \in guess .. i - 1 : OccurrenceAt(anchor, frequency, interval, k) < earliest
<1> DEFINE At(i) == OccurrenceAt(anchor, frequency, interval, i)
           Found(j) == At(j) >= earliest /\ \A k \in guess .. j - 1 : At(k) < earliest
           i == CHOOSE j \in guess .. guess + 2 : Found(j)
<1>1. At(guess) \in Int /\ At(guess + 1) \in Int
  BY OccurrencesGrow
<1>2. \E j \in guess .. guess + 2 : Found(j)
  <2>1. CASE At(guess) >= earliest
    <3>1. Found(guess)
      BY <2>1
    <3> QED
      BY <3>1
  <2>2. CASE At(guess) < earliest
    <3>1. guess .. (guess + 1) - 1 = {guess}
      OBVIOUS
    <3>2. Found(guess + 1)
      BY <1>1, <2>2, <3>1
    <3> QED
      BY <3>2
  <2> QED
    BY <1>1, <2>1, <2>2
<1>3. WalkFrom(anchor, frequency, interval, guess, earliest) = At(i)
  BY DEF WalkFrom
<1> HIDE DEF Found
<1>4. i \in guess .. guess + 2 /\ Found(i)
  BY <1>2
<1> HIDE DEF i
<1>5. i # guess + 2
  <2>1. SUFFICES ASSUME i = guess + 2 PROVE FALSE
    OBVIOUS
  <2>2. guess + 1 \in guess .. i - 1
    BY <2>1
  <2>3. At(guess + 1) < earliest
    BY <1>4, <2>2 DEF Found
  <2> QED
    BY <1>1, <2>3
<1>6. i \in Nat /\ guess <= i /\ i <= guess + 1 /\ At(i) \in Int
  BY <1>4, <1>5, OccurrencesGrow
<1> QED
  BY <1>3, <1>4, <1>6 DEF Found

(* What the engine calls the first occurrence on or after a date is that:
   the guess skips none (firstOccurrenceOnOrAfter). *)
THEOREM FirstIsLeast ==
  ASSUME NEW anchor \in Int, NEW frequency \in Frequencies, NEW interval \in Nat \ {0},
         NEW date \in Int
  PROVE  /\ FirstOnOrAfter(anchor, frequency, interval, date) \in Int
         /\ FirstOnOrAfter(anchor, frequency, interval, date) >= date
         /\ FirstOnOrAfter(anchor, frequency, interval, date) >= anchor
         /\ \E i \in Nat : FirstOnOrAfter(anchor, frequency, interval, date)
                             = OccurrenceAt(anchor, frequency, interval, i)
         /\ \A i \in Nat : date <= OccurrenceAt(anchor, frequency, interval, i) =>
                FirstOnOrAfter(anchor, frequency, interval, date)
                   <= OccurrenceAt(anchor, frequency, interval, i)
<1> DEFINE At(i) == OccurrenceAt(anchor, frequency, interval, i)
           first == FirstOnOrAfter(anchor, frequency, interval, date)
<1>1. \A i \in Int : At(i) \in Int
  BY OccurrencesGrow
<1>2. \A i \in Int, j \in Int : i < j => At(i) < At(j)
  BY OccurrencesGrow
<1>3. At(0) = anchor
  BY OccurrencesGrow
<1>4. CASE anchor >= date
  <2>1. first = At(0)
    BY <1>3, <1>4 DEF FirstOnOrAfter
  <2> HIDE DEF At, first
  <2>2. \A i \in Nat : At(0) <= At(i)
    <3>1. TAKE i \in Nat
    <3>2. i = 0 \/ 0 < i
      OBVIOUS
    <3> QED
      BY <1>1, <1>2, <3>2
  <2>3. first \in Int /\ first >= date /\ first >= anchor
    BY <1>3, <1>4, <2>1
  <2> QED
    BY <2>1, <2>2, <2>3 DEF At, first
<1>5. CASE ~(anchor >= date)
  <2>1. PICK g \in Nat : g = Elapsed(anchor, frequency, interval, date)
    <3>1. Elapsed(anchor, frequency, interval, date) \in Int
      <4>1. Civil(anchor).year \in Int /\ Civil(anchor).month \in Int
        BY CivilFound
      <4>2. Civil(date).year \in Int /\ Civil(date).month \in Int
        BY CivilFound
      <4>3. MonthsBetween(anchor, date) \in Int
        BY <4>1, <4>2 DEF MonthsBetween
      <4>4. Unit(frequency, interval) \in Nat \ {0}
        BY DEF Unit
      <4> QED
        BY <4>3, <4>4 DEF Elapsed
    <3> QED
      BY <1>5, <3>1, GuessIsNear
  <2>2. At(g - 1) < date /\ date < At(g + 1)
    BY <1>5, <2>1, GuessIsNear
  <2>3. g + 1 \in Int /\ At(g + 1) \in Int
    BY <1>1
  <2>4. first = WalkFrom(anchor, frequency, interval, g, date)
    BY <1>5, <2>1 DEF FirstOnOrAfter
  <2>5. PICK i \in Nat : /\ g <= i /\ i <= g + 1 /\ first = At(i) /\ date <= At(i)
                         /\ \A k \in g .. i - 1 : At(k) < date
    <3>1. date <= At(g + 1)
      BY <2>2, <2>3
    <3> QED
      BY <2>4, <3>1, WalkFinds
  <2> HIDE DEF At, first
  <2>6. \A k \in Nat : date <= At(k) => At(i) <= At(k)
    <3>1. SUFFICES ASSUME NEW k \in Nat, date <= At(k), k < i PROVE FALSE
      <4>1. \A k \in Nat : k < i \/ k = i \/ i < k
        OBVIOUS
      <4> QED
        BY <1>1, <1>2, <4>1
    <3>2. At(k) \in Int
      BY <1>1
    <3>3. ~(k \in g .. i - 1)
      BY <2>5, <3>1, <3>2
    <3>4. k < g
      BY <3>1, <3>3
    <3>5. g - 1 \in Int /\ (k = g - 1 \/ k < g - 1)
      BY <3>4
    <3>6. At(g - 1) \in Int /\ At(k) <= At(g - 1)
      BY <1>1, <1>2, <3>2, <3>5
    <3> QED
      BY <2>2, <3>1, <3>2, <3>6
  <2>7. first \in Int /\ first >= date /\ first >= anchor
    BY <1>1, <1>5, <2>5
  <2> QED
    BY <2>5, <2>6, <2>7 DEF At, first
<1> QED
  BY <1>4, <1>5

(* No occurrence is passed over: the first one found comes before any other. *)
LEMMA NoneBetween ==
  ASSUME NEW anchor \in Int, NEW frequency \in Frequencies, NEW interval \in Nat \ {0},
         NEW date \in Int, NEW d \in Int, date <= d,
         FirstOnOrAfter(anchor, frequency, interval, d) = d
  PROVE  FirstOnOrAfter(anchor, frequency, interval, date) <= d
<1>1. PICK i \in Nat : d = OccurrenceAt(anchor, frequency, interval, i)
  BY FirstIsLeast
<1> QED
  BY <1>1, FirstIsLeast

(* The next trigger of a reminder is the first of its times after the date
   (nextOccurrenceAfter): later than the date, and no time between is left out. *)
THEOREM NextTriggerIsNext ==
  ASSUME NEW remindAt \in Int, NEW frequency \in Frequencies, NEW interval \in Nat \ {0},
         NEW after \in Int
  PROVE  /\ NextTrigger(remindAt, frequency, interval, after) \in Int
         /\ NextTrigger(remindAt, frequency, interval, after) > after
         /\ NextTrigger(remindAt, frequency, interval, after) >= remindAt
         /\ \A i \in Nat : after < OccurrenceAt(remindAt, frequency, interval, i) =>
                NextTrigger(remindAt, frequency, interval, after)
                   <= OccurrenceAt(remindAt, frequency, interval, i)
<1> DEFINE At(i) == OccurrenceAt(remindAt, frequency, interval, i)
           next == NextTrigger(remindAt, frequency, interval, after)
<1>1. \A i \in Int : At(i) \in Int
  BY OccurrencesGrow
<1>2. \A i \in Int, j \in Int : i < j => At(i) < At(j)
  BY OccurrencesGrow
<1>3. At(0) = remindAt
  BY OccurrencesGrow
<1>4. CASE remindAt > after
  <2>1. next = At(0)
    BY <1>3, <1>4 DEF NextTrigger
  <2> HIDE DEF At, next
  <2>2. \A i \in Nat : At(0) <= At(i)
    <3>1. TAKE i \in Nat
    <3>2. i = 0 \/ 0 < i
      OBVIOUS
    <3> QED
      BY <1>1, <1>2, <3>2
  <2>3. next \in Int /\ next > after /\ next >= remindAt
    BY <1>3, <1>4, <2>1
  <2> QED
    BY <2>1, <2>2, <2>3 DEF At, next
<1>5. CASE ~(remindAt > after)
  <2>1. PICK e \in Nat : e = Elapsed(remindAt, frequency, interval, after)
    <3>1. Elapsed(remindAt, frequency, interval, after) \in Int
      <4>1. Civil(remindAt).year \in Int /\ Civil(remindAt).month \in Int
        BY CivilFound
      <4>2. Civil(after).year \in Int /\ Civil(after).month \in Int
        BY CivilFound
      <4>3. MonthsBetween(remindAt, after) \in Int
        BY <4>1, <4>2 DEF MonthsBetween
      <4>4. Unit(frequency, interval) \in Nat \ {0}
        BY DEF Unit
      <4> QED
        BY <4>3, <4>4 DEF Elapsed
    <3> QED
      BY <1>5, <3>1, GuessIsNear
  <2>2. At(e - 1) < after /\ after < At(e + 1)
    BY <1>5, <2>1, GuessIsNear
  <2>3. PICK g \in Nat : g = (IF e < 1 THEN 1 ELSE e) /\ (g = e \/ g = e + 1) /\ g >= 1
    OBVIOUS
  <2>4. g + 1 \in Int /\ At(g + 1) \in Int /\ after < At(g + 1)
    <3>1. e + 1 \in Int /\ g + 1 \in Int /\ (e + 1 = g + 1 \/ e + 1 < g + 1)
      BY <2>3
    <3>2. At(e + 1) \in Int /\ At(g + 1) \in Int /\ At(e + 1) <= At(g + 1)
      BY <1>1, <1>2, <3>1
    <3> QED
      BY <2>2, <3>1, <3>2
  <2>5. next = WalkFrom(remindAt, frequency, interval, g, after + 1)
    BY <1>5, <2>1, <2>3 DEF NextTrigger
  <2>6. PICK i \in Nat : /\ g <= i /\ i <= g + 1 /\ next = At(i) /\ after + 1 <= At(i)
                         /\ \A k \in g .. i - 1 : At(k) < after + 1
    <3>1. after + 1 \in Int /\ after + 1 <= At(g + 1)
      BY <2>4
    <3> QED
      BY <2>5, <3>1, WalkFinds
  <2> HIDE DEF At, next
  <2>7. \A k \in Nat : after < At(k) => At(i) <= At(k)
    <3>1. SUFFICES ASSUME NEW k \in Nat, after < At(k), k < i PROVE FALSE
      <4>1. \A k \in Nat : k < i \/ k = i \/ i < k
        OBVIOUS
      <4> QED
        BY <1>1, <1>2, <4>1
    <3>2. At(k) \in Int
      BY <1>1
    <3>3. ~(k \in g .. i - 1)
      BY <2>6, <3>1, <3>2
    <3>4. k < g
      BY <3>1, <3>3
    <3>5. CASE k = e - 1 \/ k < e - 1
      <4>1. e - 1 \in Int
        OBVIOUS
      <4>2. At(e - 1) \in Int /\ At(k) <= At(e - 1)
        BY <1>1, <1>2, <3>2, <3>5, <4>1
      <4> QED
        BY <2>2, <3>1, <3>2, <4>2
    <3>6. CASE k = 0
      BY <1>3, <1>5, <3>1, <3>6
    <3> QED
      BY <2>3, <3>4, <3>5, <3>6
  <2>8. next \in Int /\ next > after /\ next >= remindAt
    BY <1>1, <1>5, <2>6
  <2> QED
    BY <2>6, <2>7, <2>8 DEF At, next
<1> QED
  BY <1>4, <1>5

-----------------------------------------------------------------------------

Dates == Nat \cup {NoDate}

LEMMA DateIsNoNull == ASSUME NEW date \in Nat PROVE date # NoDate
BY DEF NoDate

(* Schedules. *)

ProperSchedules == [anchor : Nat, frequency : Frequencies, interval : Nat \ {0}, end : Int,
         policy : {"CATCH_UP", "SKIP"}, nextRunAt : Dates,
         isActive : BOOLEAN, deleted : BOOLEAN]

PostingRuns == [now : Days, failed : {None} \cup [id : Schedules, date : Days], ids : SUBSET Schedules]

ScheduleTypes ==
  /\ schedule \in [Schedules -> ProperSchedules \cup {None}]
  /\ occurrence \in [Schedules -> [Days -> {None, "POSTED", "FAILED"}]]
  /\ entries \in [Schedules -> [Days -> Nat]]
  /\ \A s \in Schedules : Exists(s) /\ schedule[s].isActive => schedule[s].nextRunAt # NoDate

PostingTyped == posting \in [Posters -> PostingRuns \cup {None}]

PostedOrOvertaken ==
  \A s \in Schedules, d \in Days :
    <<s, d>> \notin overtaken =>
       entries[s][d] <= 1 /\ (entries[s][d] >= 1 => occurrence[s][d] = "POSTED")

SchedulesInv == ScheduleTypes /\ PostedOrOvertaken /\ CatchUpLeavesNoGap

(* What the posting of a schedule reads of a row. *)
LEMMA RowFields ==
  ASSUME NEW row \in ProperSchedules
  PROVE  /\ row.anchor \in Nat /\ row.frequency \in Frequencies /\ row.interval \in Nat \ {0}
         /\ row.end \in Int /\ row.policy \in {"CATCH_UP", "SKIP"} /\ row.nextRunAt \in Dates
         /\ row.isActive \in BOOLEAN /\ row.deleted \in BOOLEAN
BY DEF ProperSchedules

LEMMA TimingFields ==
  ASSUME NEW t \in Timings \cup MCReminded
  PROVE  /\ t.anchor \in Nat /\ t.frequency \in Frequencies /\ t.interval \in Nat \ {0}
         /\ t.end \in Int /\ t.policy \in {"CATCH_UP", "SKIP"}
<1>1. CASE t \in Timings
  BY <1>1, TimingsAssumption
<1>2. CASE t \in MCReminded
  BY <1>2 DEF MCReminded, MCTimings, Frequencies, NoDate
<1> QED
  BY <1>1, <1>2

(* The facts above for the timing of a schedule. *)
LEMMA FirstFields ==
  ASSUME NEW t, t.anchor \in Nat, t.frequency \in Frequencies, t.interval \in Nat \ {0},
         NEW date \in Int
  PROVE  /\ First(t, date) \in Nat /\ First(t, date) >= date /\ First(t, date) >= t.anchor
         /\ \A d \in Int : date <= d /\ First(t, d) = d => First(t, date) <= d
<1>1. PICK a \in Nat, f \in Frequencies, n \in Nat \ {0} :
          a = t.anchor /\ f = t.frequency /\ n = t.interval
  OBVIOUS
<1>2. \A d : First(t, d) = FirstOnOrAfter(a, f, n, d)
  BY <1>1 DEF First
<1>3. /\ FirstOnOrAfter(a, f, n, date) \in Int
      /\ FirstOnOrAfter(a, f, n, date) >= date /\ FirstOnOrAfter(a, f, n, date) >= a
  BY FirstIsLeast
<1>4. \A d \in Int : date <= d /\ FirstOnOrAfter(a, f, n, d) = d
                       => FirstOnOrAfter(a, f, n, date) <= d
  BY NoneBetween
<1> QED
  BY <1>1, <1>2, <1>3, <1>4

LEMMA DatesOrNone ==
  ASSUME NEW date \in Nat, NEW end \in Int
  PROVE  OrNone(date, end) \in Dates /\ OrNone(date, end) \in {date, NoDate}
BY DEF OrNone, Dates

(* What a request writes into a schedule, and which of its columns follow. *)
LEMMA ScheduledRow ==
  ASSUME NEW t, t.anchor \in Nat, t.frequency \in Frequencies, t.interval \in Nat \ {0},
         t.end \in Int, t.policy \in {"CATCH_UP", "SKIP"},
         NEW next \in Dates, NEW active \in BOOLEAN
  PROVE  /\ Scheduled(t, next, active) \in ProperSchedules
         /\ Scheduled(t, next, active).isActive => next # NoDate
         /\ Scheduled(t, next, active).nextRunAt = next
         /\ Scheduled(t, next, active).anchor = t.anchor
         /\ Scheduled(t, next, active).policy = t.policy
         /\ ~Scheduled(t, next, active).deleted
         /\ \A d : First(Scheduled(t, next, active), d) = First(t, d)
BY DEF Scheduled, ProperSchedules, First

LEMMA FirstRun ==
  ASSUME NEW t, t.anchor \in Nat, t.frequency \in Frequencies, t.interval \in Nat \ {0},
         t.end \in Int, NEW now \in Nat
  PROVE  /\ ResolveFirstRun(t, now) \in Dates
         /\ t.policy = "CATCH_UP" => ResolveFirstRun(t, now) \in {t.anchor, NoDate}
<1>1. First(t, now) \in Nat
  BY FirstFields
<1> QED
  BY <1>1, DatesOrNone DEF ResolveFirstRun

(* One schedule gets a row that leaves no gap. *)
NoGap(row, posted) ==
  row.policy = "CATCH_UP" /\ row.nextRunAt # NoDate =>
    \A d \in Days :
      row.anchor <= d /\ d < row.nextRunAt /\ First(row, d) = d => posted[d] # None

(* A schedule leaves no gap, read row by row. *)
LEMMA NoGaps ==
  CatchUpLeavesNoGap <=>
    \A s \in Schedules : Exists(s) => NoGap(schedule[s], occurrence[s])
BY DEF CatchUpLeavesNoGap, NoGap

(* One schedule gets a row, occurrences and entries that belong together. *)
LEMMA HistoryWrittenKeeps ==
  ASSUME SchedulesInv, NEW s \in Schedules, NEW row \in ProperSchedules \cup {None},
         NEW posted \in [Days -> {None, "POSTED", "FAILED"}], NEW counts \in [Days -> Nat],
         schedule' = [schedule EXCEPT ![s] = row],
         occurrence' = [occurrence EXCEPT ![s] = posted],
         entries' = [entries EXCEPT ![s] = counts],
         overtaken \subseteq overtaken',
         \A d \in Days : <<s, d>> \notin overtaken' =>
            counts[d] <= 1 /\ (counts[d] >= 1 => posted[d] = "POSTED"),
         row # None /\ ~row.deleted =>
            (row.isActive => row.nextRunAt # NoDate) /\ NoGap(row, posted)
  PROVE  SchedulesInv'
<1>1. /\ schedule' \in [Schedules -> ProperSchedules \cup {None}]
      /\ schedule'[s] = row
      /\ \A x \in Schedules \ {s} : schedule'[x] = schedule[x]
  BY DEF SchedulesInv, ScheduleTypes
<1>2. /\ occurrence' \in [Schedules -> [Days -> {None, "POSTED", "FAILED"}]]
      /\ occurrence'[s] = posted
      /\ \A x \in Schedules \ {s} : occurrence'[x] = occurrence[x]
  BY DEF SchedulesInv, ScheduleTypes
<1>3. /\ entries' \in [Schedules -> [Days -> Nat]]
      /\ entries'[s] = counts
      /\ \A x \in Schedules \ {s} : entries'[x] = entries[x]
  BY DEF SchedulesInv, ScheduleTypes
<1>4. \A x \in Schedules : Exists(x)' /\ schedule'[x].isActive => schedule'[x].nextRunAt # NoDate
  BY <1>1 DEF SchedulesInv, ScheduleTypes, Exists
<1>5. ScheduleTypes'
  BY <1>1, <1>2, <1>3, <1>4 DEF ScheduleTypes
<1>6. PostedOrOvertaken'
  <2>1. SUFFICES ASSUME NEW x \in Schedules, NEW d \in Days, <<x, d>> \notin overtaken'
                 PROVE  /\ entries'[x][d] <= 1
                        /\ entries'[x][d] >= 1 => occurrence'[x][d] = "POSTED"
    BY DEF PostedOrOvertaken
  <2>2. CASE x = s
    BY <1>2, <1>3, <2>1, <2>2
  <2>3. CASE x # s
    BY <1>2, <1>3, <2>1, <2>3 DEF SchedulesInv, PostedOrOvertaken
  <2> QED
    BY <2>2, <2>3
<1>7. ASSUME NEW x \in Schedules, Exists(x)'
      PROVE  NoGap(schedule'[x], occurrence'[x])
  <2>1. CASE x = s
    BY <1>1, <1>2, <1>7, <2>1 DEF Exists
  <2>2. CASE x # s
    <3>1. Exists(x) /\ schedule'[x] = schedule[x] /\ occurrence'[x] = occurrence[x]
      BY <1>1, <1>2, <1>7, <2>2 DEF Exists
    <3> QED
      BY <3>1, NoGaps DEF SchedulesInv
  <2> QED
    BY <2>1, <2>2
<1>8. CatchUpLeavesNoGap'
  BY <1>7 DEF CatchUpLeavesNoGap, NoGap
<1> QED
  BY <1>5, <1>6, <1>8 DEF SchedulesInv

(* One schedule is written, to a row with no gap: enough for every request. *)
LEMMA RowWrittenKeeps ==
  ASSUME SchedulesInv, NEW s \in Schedules, NEW row \in ProperSchedules \cup {None},
         schedule' = [schedule EXCEPT ![s] = row],
         row # None /\ ~row.deleted =>
            (row.isActive => row.nextRunAt # NoDate) /\ NoGap(row, occurrence[s]),
         UNCHANGED <<occurrence, entries, overtaken>>
  PROVE  SchedulesInv'
<1>1. PICK posted \in [Days -> {None, "POSTED", "FAILED"}], counts \in [Days -> Nat] :
         posted = occurrence[s] /\ counts = entries[s]
  BY DEF SchedulesInv, ScheduleTypes
<1>2. /\ occurrence' = [occurrence EXCEPT ![s] = posted]
      /\ entries' = [entries EXCEPT ![s] = counts]
  BY <1>1 DEF SchedulesInv, ScheduleTypes
<1>3. \A d \in Days : <<s, d>> \notin overtaken' =>
            counts[d] <= 1 /\ (counts[d] >= 1 => posted[d] = "POSTED")
  BY <1>1 DEF SchedulesInv, PostedOrOvertaken
<1>4. overtaken \subseteq overtaken'
  OBVIOUS
<1>5. row # None /\ ~row.deleted =>
            (row.isActive => row.nextRunAt # NoDate) /\ NoGap(row, posted)
  BY <1>1
<1> QED
  BY <1>2, <1>3, <1>4, <1>5, HistoryWrittenKeeps

(* Steps of other components and of copies leave the schedules as they are. *)
LEMMA SchedulesStay ==
  ASSUME SchedulesInv, UNCHANGED <<schedule, occurrence, entries, overtaken>>
  PROVE  SchedulesInv'
<1>1. ScheduleTypes'
  BY DEF SchedulesInv, ScheduleTypes, Exists
<1>2. PostedOrOvertaken'
  BY DEF SchedulesInv, PostedOrOvertaken
<1>3. CatchUpLeavesNoGap'
  BY DEF SchedulesInv, CatchUpLeavesNoGap, Exists
<1> QED
  BY <1>1, <1>2, <1>3 DEF SchedulesInv

-----------------------------------------------------------------------------
(* The requests of the user. *)

(* Schedules: one lemma for each action. *)
LEMMA CreateKeeps ==
  ASSUME SchedulesInv, today \in Nat, NEW s \in Schedules, NEW t \in Timings \cup MCReminded,
         NEW active \in BOOLEAN, NEW days, Create(s, t, active, days)
  PROVE  SchedulesInv'
<1>1. PICK next \in Dates : next = ResolveFirstRun(t, today)
  BY TimingFields, FirstRun
<1>2. PICK row \in ProperSchedules : /\ row = Scheduled(t, next, active)
                                     /\ row.isActive => row.nextRunAt # NoDate
                                     /\ row.nextRunAt = next /\ row.anchor = t.anchor
                                     /\ row.policy = t.policy
  BY TimingFields, ScheduledRow
<1>3. NoGap(row, occurrence[s])
  <2>1. row.policy = "CATCH_UP" => row.nextRunAt \in {row.anchor, NoDate}
    BY <1>1, <1>2, TimingFields, FirstRun
  <2> QED
    BY <2>1, RowFields DEF NoGap, Days
<1>4. schedule' = [schedule EXCEPT ![s] = row]
  BY <1>1, <1>2 DEF Create
<1> QED
  BY <1>2, <1>3, <1>4, RowWrittenKeeps DEF Create, OnlySchedule

(* What is known of a row that exists. *)
LEMMA ExistingRow ==
  ASSUME SchedulesInv, NEW s \in Schedules, Exists(s)
  PROVE  /\ schedule[s] \in ProperSchedules
         /\ NoGap(schedule[s], occurrence[s])
         /\ schedule[s].isActive => schedule[s].nextRunAt # NoDate
BY NoGaps DEF SchedulesInv, ScheduleTypes, Exists

LEMMA UpdateTimingKeeps ==
  ASSUME SchedulesInv, today \in Nat, NEW s \in Schedules, NEW t \in Timings \cup MCReminded,
         NEW days, UpdateTiming(s, t, days)
  PROVE  SchedulesInv'
<1>1. PICK next \in Dates : next = ResolveFirstRun(t, today)
  BY TimingFields, FirstRun
<1>2. PICK active \in BOOLEAN : active = schedule[s].isActive
  BY ExistingRow, RowFields DEF UpdateTiming
<1>3. PICK row \in ProperSchedules : /\ row = Scheduled(t, next, active)
                                     /\ row.isActive => row.nextRunAt # NoDate
                                     /\ row.nextRunAt = next /\ row.anchor = t.anchor
                                     /\ row.policy = t.policy
  BY TimingFields, ScheduledRow
<1>4. NoGap(row, occurrence[s])
  <2>1. row.policy = "CATCH_UP" => row.nextRunAt \in {row.anchor, NoDate}
    BY <1>1, <1>3, TimingFields, FirstRun
  <2> QED
    BY <2>1, RowFields DEF NoGap, Days
<1>5. schedule' = [schedule EXCEPT ![s] = row]
  BY <1>1, <1>2, <1>3 DEF UpdateTiming
<1> QED
  BY <1>3, <1>4, <1>5, RowWrittenKeeps DEF UpdateTiming, OnlySchedule

LEMMA UpdateOtherKeeps ==
  ASSUME SchedulesInv, NEW s \in Schedules, NEW days, UpdateOther(s, days)
  PROVE  SchedulesInv'
<1>1. PICK old \in ProperSchedules : old = schedule[s] /\ NoGap(old, occurrence[s])
  BY ExistingRow DEF UpdateOther
<1>2. PICK row \in ProperSchedules : /\ row = Scheduled(old, old.nextRunAt, old.isActive)
                                     /\ row.isActive => row.nextRunAt # NoDate
                                     /\ row.nextRunAt = old.nextRunAt /\ row.anchor = old.anchor
                                     /\ row.policy = old.policy
                                     /\ \A d : First(row, d) = First(old, d)
  <2>1. /\ old.anchor \in Nat /\ old.frequency \in Frequencies /\ old.interval \in Nat \ {0}
        /\ old.end \in Int /\ old.policy \in {"CATCH_UP", "SKIP"} /\ old.nextRunAt \in Dates
        /\ old.isActive \in BOOLEAN
    BY RowFields
  <2> DEFINE row == Scheduled(old, old.nextRunAt, old.isActive)
  <2>2. /\ row \in ProperSchedules /\ (row.isActive => row.nextRunAt # NoDate)
        /\ row.nextRunAt = old.nextRunAt /\ row.anchor = old.anchor
        /\ row.policy = old.policy /\ \A d : First(row, d) = First(old, d)
    BY <2>1, ScheduledRow
  <2> QED
    BY <2>2
<1>3. NoGap(row, occurrence[s])
  BY <1>1, <1>2 DEF NoGap
<1>4. schedule' = [schedule EXCEPT ![s] = row]
  BY <1>1, <1>2 DEF UpdateOther
<1> QED
  BY <1>2, <1>3, <1>4, RowWrittenKeeps DEF UpdateOther, OnlySchedule

LEMMA PauseKeeps ==
  ASSUME SchedulesInv, NEW s \in Schedules, Pause(s)
  PROVE  SchedulesInv'
<1>1. PICK old \in ProperSchedules : old = schedule[s] /\ NoGap(old, occurrence[s])
  BY ExistingRow DEF Pause
<1>2. PICK row \in ProperSchedules : /\ row = [old EXCEPT !.isActive = FALSE]
                                     /\ ~row.isActive
                                     /\ row.nextRunAt = old.nextRunAt /\ row.anchor = old.anchor
                                     /\ row.policy = old.policy
                                     /\ \A d : First(row, d) = First(old, d)
  <2> DEFINE row == [old EXCEPT !.isActive = FALSE]
  <2>1. /\ row \in ProperSchedules /\ ~row.isActive
        /\ row.nextRunAt = old.nextRunAt /\ row.anchor = old.anchor
        /\ row.policy = old.policy /\ row.frequency = old.frequency
        /\ row.interval = old.interval
    BY DEF ProperSchedules
  <2> QED
    BY <2>1 DEF First
<1>3. NoGap(row, occurrence[s])
  BY <1>1, <1>2 DEF NoGap
<1>4. schedule' = [schedule EXCEPT ![s] = row]
  BY <1>1, <1>2 DEF Pause, SchedulesInv, ScheduleTypes
<1> QED
  BY <1>2, <1>3, <1>4, RowWrittenKeeps DEF Pause, OnlySchedule

LEMMA RemoveKeeps ==
  ASSUME SchedulesInv, NEW s \in Schedules, Remove(s)
  PROVE  SchedulesInv'
<1>1. PICK old \in ProperSchedules : old = schedule[s]
  BY ExistingRow DEF Remove
<1>2. PICK row \in ProperSchedules : /\ row = [old EXCEPT !.isActive = FALSE, !.nextRunAt = NoDate,
                                              !.deleted = TRUE]
                          /\ row.deleted
  <2> DEFINE row == [old EXCEPT !.isActive = FALSE, !.nextRunAt = NoDate, !.deleted = TRUE]
  <2>1. row \in ProperSchedules /\ row.deleted
    BY DEF ProperSchedules, Dates
  <2> QED
    BY <2>1
<1>3. schedule' = [schedule EXCEPT ![s] = row]
  BY <1>1, <1>2 DEF Remove, SchedulesInv, ScheduleTypes
<1> QED
  BY <1>2, <1>3, RowWrittenKeeps DEF Remove, OnlySchedule

LEMMA ResumeKeeps ==
  ASSUME SchedulesInv, today \in Nat, NEW s \in Schedules, Resume(s)
  PROVE  SchedulesInv'
<1>1. PICK old \in ProperSchedules : old = schedule[s] /\ NoGap(old, occurrence[s])
  BY ExistingRow DEF Resume
<1>2. PICK next \in Dates :
         /\ next = IF old.nextRunAt = NoDate \/ (old.policy = "SKIP" /\ old.nextRunAt < today)
                   THEN ResolveFirstRun(old, today) ELSE old.nextRunAt
         /\ next # NoDate
  BY <1>1, RowFields, FirstRun DEF Resume
<1>3. old.policy = "CATCH_UP" => next \in {old.anchor, old.nextRunAt}
  BY <1>2, RowFields, FirstRun
<1>4. PICK row \in ProperSchedules : /\ row = [old EXCEPT !.isActive = TRUE, !.nextRunAt = next]
                                     /\ row.nextRunAt = next /\ row.anchor = old.anchor
                                     /\ row.policy = old.policy
                                     /\ \A d : First(row, d) = First(old, d)
  <2> DEFINE row == [old EXCEPT !.isActive = TRUE, !.nextRunAt = next]
  <2>1. /\ row \in ProperSchedules
        /\ row.nextRunAt = next /\ row.anchor = old.anchor
        /\ row.policy = old.policy /\ row.frequency = old.frequency
        /\ row.interval = old.interval
    BY DEF ProperSchedules
  <2> QED
    BY <2>1 DEF First
<1>5. NoGap(row, occurrence[s])
  BY <1>1, <1>2, <1>3, <1>4, RowFields DEF NoGap, Days
<1>6. schedule' = [schedule EXCEPT ![s] = row]
  <2>1. schedule' = [schedule EXCEPT ![s].isActive = TRUE, ![s].nextRunAt = next]
    BY <1>1, <1>2 DEF Resume
  <2>2. [schedule EXCEPT ![s].isActive = TRUE, ![s].nextRunAt = next]
         = [schedule EXCEPT ![s] = [@ EXCEPT !.isActive = TRUE, !.nextRunAt = next]]
    BY DEF SchedulesInv, ScheduleTypes
  <2> QED
    BY <1>1, <1>4, <2>1, <2>2
<1> QED
  <2>1. UNCHANGED <<occurrence, entries, overtaken>>
    BY DEF Resume, OnlySchedule
  <2> QED
    BY <1>2, <1>4, <1>5, <1>6, <2>1, RowWrittenKeeps

-----------------------------------------------------------------------------
(* The worker. *)

LEMMA DoneTyped ==
  ASSUME PostingTyped, NEW w \in Posters, posting[w] # None, NEW s, Done(w, s)
  PROVE  PostingTyped'
<1>1. PICK run \in PostingRuns : run = posting[w]
  BY DEF PostingTyped
<1>2. PICK rest : rest = run.ids \ {s}
  OBVIOUS
<1>3. [run EXCEPT !.ids = rest, !.failed = None] \in PostingRuns
  BY <1>2 DEF PostingRuns
<1>4. posting' = [posting EXCEPT ![w] =
          IF rest = {} THEN None ELSE [run EXCEPT !.ids = rest, !.failed = None]]
  BY <1>1, <1>2 DEF Done
<1>5. PICK new \in PostingRuns \cup {None} : posting' = [posting EXCEPT ![w] = new]
  BY <1>3, <1>4
<1> QED
  BY <1>5 DEF PostingTyped

LEMMA RunFields ==
  ASSUME PostingTyped, NEW w \in Posters, posting[w] # None
  PROVE  /\ posting[w].now \in Days /\ posting[w].ids \subseteq Schedules
         /\ posting[w].failed # None =>
               posting[w].failed.id \in Schedules /\ posting[w].failed.date \in Days
BY DEF PostingTyped, PostingRuns

LEMMA FindDueKeeps ==
  ASSUME SchedulesInv, PostingTyped, today \in Days, NEW w \in Posters, FindDueSchedules(w)
  PROVE  SchedulesInv' /\ PostingTyped'
<1>1. SchedulesInv'
  BY SchedulesStay DEF FindDueSchedules
<1> DEFINE run == [now |-> today, failed |-> None,
                   ids |-> {s \in Schedules : DueSchedule(s, today)}]
<1>2. run \in PostingRuns
  BY DEF PostingRuns
<1>3. posting' = [posting EXCEPT ![w] = run]
  BY DEF FindDueSchedules
<1> HIDE DEF run
<1> QED
  BY <1>1, <1>2, <1>3 DEF PostingTyped

(* A run of a due schedule is for a date of the calendar of the worker. *)
LEMMA RunIsFor ==
  ASSUME SchedulesInv, NEW s \in Schedules, NEW now \in Days, Exists(s),
         schedule[s].nextRunAt # NoDate
  PROVE  /\ ScheduledFor(s, now) \in Nat
         /\ schedule[s].policy = "CATCH_UP" => ScheduledFor(s, now) = schedule[s].nextRunAt
         /\ ScheduledFor(s, now) <= now => ScheduledFor(s, now) \in Days
<1>1. PICK row \in ProperSchedules : row = schedule[s]
  BY ExistingRow
<1>2. /\ row.anchor \in Nat /\ row.frequency \in Frequencies /\ row.interval \in Nat \ {0}
      /\ row.nextRunAt \in Nat
  BY <1>1, RowFields DEF Dates
<1>3. now \in Int /\ Horizon \in Nat
  BY HorizonAssumption DEF Days
<1>4. First(row, now) \in Nat
  BY <1>2, <1>3, FirstFields
<1> QED
  BY <1>1, <1>2, <1>3, <1>4 DEF ScheduledFor, Days

(* Advancing writes the next date and leaves what dates are computed from. *)
LEMMA AdvancedRow ==
  ASSUME SchedulesInv, NEW s \in Schedules, Exists(s), NEW next \in Dates, Advance(s, next)
  PROVE  \E row \in ProperSchedules :
            /\ schedule' = [schedule EXCEPT ![s] = row]
            /\ row.isActive => row.nextRunAt # NoDate
            /\ row.nextRunAt = next /\ row.anchor = schedule[s].anchor
            /\ row.policy = schedule[s].policy
            /\ \A d : First(row, d) = First(schedule[s], d)
<1>1. PICK old \in ProperSchedules : old = schedule[s]
  BY ExistingRow
<1> DEFINE row == [old EXCEPT !.nextRunAt = next, !.isActive = next # NoDate]
<1>2. /\ row \in ProperSchedules /\ (row.isActive => row.nextRunAt # NoDate)
      /\ row.nextRunAt = next /\ row.anchor = old.anchor
      /\ row.policy = old.policy /\ row.frequency = old.frequency
      /\ row.interval = old.interval
  BY DEF ProperSchedules
<1>3. schedule' = [schedule EXCEPT ![s] = row]
  <2>1. [schedule EXCEPT ![s].nextRunAt = next, ![s].isActive = next # NoDate]
         = [schedule EXCEPT ![s] = [@ EXCEPT !.nextRunAt = next, !.isActive = next # NoDate]]
    BY DEF SchedulesInv, ScheduleTypes
  <2> QED
    BY <1>1, <2>1 DEF Advance
<1> HIDE DEF row
<1> QED
  BY <1>1, <1>2, <1>3 DEF First

LEMMA SkipKeeps ==
  ASSUME SchedulesInv, PostingTyped, NEW w \in Posters, posting[w] # None,
         NEW s \in Schedules, Skip(w, s)
  PROVE  SchedulesInv' /\ PostingTyped'
<1>1. PostingTyped'
  BY DoneTyped DEF Skip
<1>2. UNCHANGED <<occurrence, entries, overtaken>>
  BY DEF Skip
<1>3. PICK now \in Days : now = posting[w].now
  BY RunFields
<1>4. CASE DueSchedule(s, now)
  <2>1. Exists(s) /\ schedule[s].nextRunAt # NoDate
    BY <1>4 DEF DueSchedule, OnOrBefore
  <2>2. PICK date \in Nat : date = ScheduledFor(s, now)
    BY <2>1, RunIsFor
  <2>3. schedule[s].end \in Int
    BY <2>1, ExistingRow, RowFields
  <2>4. PICK next \in Dates : next = OrNone(date, schedule[s].end) /\ next \in {date, NoDate}
    BY <2>3, DatesOrNone
  <2>5. Advance(s, next)
    BY <1>3, <1>4, <2>2, <2>4 DEF Skip
  <2>6. PICK row \in ProperSchedules :
            /\ schedule' = [schedule EXCEPT ![s] = row]
            /\ row.isActive => row.nextRunAt # NoDate
            /\ row.nextRunAt = next /\ row.anchor = schedule[s].anchor
            /\ row.policy = schedule[s].policy
            /\ \A d : First(row, d) = First(schedule[s], d)
    BY <2>1, <2>5, AdvancedRow
  <2>7. row.policy = "CATCH_UP" => next \in {schedule[s].nextRunAt, NoDate}
    BY <2>1, <2>2, <2>4, <2>6, RunIsFor
  <2>8. NoGap(schedule[s], occurrence[s])
    BY <2>1, ExistingRow
  <2>9. NoGap(row, occurrence[s])
    BY <2>6, <2>7, <2>8 DEF NoGap
  <2> QED
    BY <1>1, <1>2, <2>6, <2>9, RowWrittenKeeps
<1>5. CASE ~DueSchedule(s, now)
  <2>1. UNCHANGED schedule
    BY <1>3, <1>5 DEF Skip
  <2> QED
    BY <1>1, <1>2, <2>1, SchedulesStay
<1> QED
  BY <1>4, <1>5

LEMMA PostKeeps ==
  ASSUME SchedulesInv, PostingTyped, NEW w \in Posters, posting[w] # None,
         NEW s \in Schedules, Post(w, s)
  PROVE  SchedulesInv' /\ PostingTyped'
<1>1. PostingTyped'
  BY DoneTyped DEF Post
<1>2. PICK now \in Days : now = posting[w].now
  BY RunFields
<1>3. Exists(s) /\ schedule[s].nextRunAt # NoDate
  BY DEF Post, Runs, DueSchedule, OnOrBefore
<1>4. PICK date \in Days : date = ScheduledFor(s, now) /\ date \in Nat
  BY <1>2, <1>3, RunIsFor DEF Post, Runs
<1>5. PICK old \in ProperSchedules : old = schedule[s] /\ NoGap(old, occurrence[s])
  BY <1>3, ExistingRow
<1>6. /\ old.anchor \in Nat /\ old.frequency \in Frequencies /\ old.interval \in Nat \ {0}
      /\ old.end \in Int
  BY RowFields
<1>7. /\ First(old, date + 1) \in Nat
      /\ \A d \in Int : date + 1 <= d /\ First(old, d) = d => First(old, date + 1) <= d
  <2>1. date + 1 \in Int
    BY <1>4
  <2> QED
    BY <1>6, <2>1, FirstFields
<1>8. PICK next \in Dates : next = NextRun(old, date) /\ next \in {First(old, date + 1), NoDate}
  <2>1. NextRun(old, date) = OrNone(First(old, date + 1), old.end)
    BY DEF NextRun, NextAfter, First, AddDays
  <2> QED
    BY <1>6, <1>7, <2>1, DatesOrNone
<1>9. PICK row \in ProperSchedules :
            /\ schedule' = [schedule EXCEPT ![s] = row]
            /\ row.isActive => row.nextRunAt # NoDate
            /\ row.nextRunAt = next /\ row.anchor = old.anchor
            /\ row.policy = old.policy
            /\ \A d : First(row, d) = First(old, d)
  <2>1. Advance(s, next)
    BY <1>2, <1>4, <1>5, <1>8 DEF Post
  <2> QED
    BY <1>3, <1>5, <2>1, AdvancedRow
<1>10. PICK posted \in [Days -> {None, "POSTED", "FAILED"}], counts \in [Days -> Nat] :
          /\ occurrence' = [occurrence EXCEPT ![s] = posted]
          /\ entries' = [entries EXCEPT ![s] = counts]
          /\ posted[date] = "POSTED"
          /\ \A d \in Days : d # date => posted[d] = occurrence[s][d]
          /\ \A d \in Days : <<s, d>> \notin overtaken =>
                counts[d] <= 1 /\ (counts[d] >= 1 => posted[d] = "POSTED")
  <2>1. /\ occurrence[s] \in [Days -> {None, "POSTED", "FAILED"}]
        /\ entries[s] \in [Days -> Nat]
        /\ \A d \in Days : <<s, d>> \notin overtaken =>
              entries[s][d] <= 1 /\ (entries[s][d] >= 1 => occurrence[s][d] = "POSTED")
    BY DEF SchedulesInv, ScheduleTypes, PostedOrOvertaken
  <2>2. CASE Posted(s, date) /\ UNCHANGED <<occurrence, entries>>
    <3>1. /\ occurrence' = [occurrence EXCEPT ![s] = occurrence[s]]
          /\ entries' = [entries EXCEPT ![s] = entries[s]]
      BY <2>2 DEF SchedulesInv, ScheduleTypes
    <3> QED
      BY <2>1, <2>2, <3>1 DEF Posted
  <2>3. CASE /\ ~Posted(s, date)
             /\ occurrence' = [occurrence EXCEPT ![s][date] = "POSTED"]
             /\ entries' = [entries EXCEPT ![s][date] = @ + 1]
    <3> DEFINE posted == [occurrence[s] EXCEPT ![date] = "POSTED"]
               counts == [entries[s] EXCEPT ![date] = @ + 1]
    <3>1. /\ occurrence' = [occurrence EXCEPT ![s] = posted]
          /\ entries' = [entries EXCEPT ![s] = counts]
      BY <2>3 DEF SchedulesInv, ScheduleTypes
    <3>2. /\ posted \in [Days -> {None, "POSTED", "FAILED"}] /\ counts \in [Days -> Nat]
          /\ posted[date] = "POSTED"
          /\ \A d \in Days : d # date => posted[d] = occurrence[s][d]
      BY <2>1
    <3>3. \A d \in Days : <<s, d>> \notin overtaken =>
              counts[d] <= 1 /\ (counts[d] >= 1 => posted[d] = "POSTED")
      <4>1. SUFFICES ASSUME NEW d \in Days, <<s, d>> \notin overtaken
                     PROVE  counts[d] <= 1 /\ (counts[d] >= 1 => posted[d] = "POSTED")
        OBVIOUS
      <4>2. CASE d = date
        <5>1. entries[s][date] = 0
          BY <2>1, <2>3, <4>1, <4>2 DEF Posted
        <5> QED
          BY <2>1, <4>2, <5>1
      <4>3. CASE d # date
        BY <2>1, <4>1, <4>3
      <4> QED
        BY <4>2, <4>3
    <3> HIDE DEF posted, counts
    <3> QED
      BY <3>1, <3>2, <3>3
  <2> QED
    BY <1>2, <1>4, <2>2, <2>3 DEF Post
<1>11. NoGap(row, posted)
  <2>1. SUFFICES ASSUME row.policy = "CATCH_UP", row.nextRunAt # NoDate,
                        NEW d \in Days, row.anchor <= d, d < row.nextRunAt, First(row, d) = d
                 PROVE  posted[d] # None
    BY DEF NoGap
  <2>2. next = First(old, date + 1) /\ First(old, d) = d /\ d \in Int /\ date \in Int
    BY <1>8, <1>9, <2>1 DEF Days
  <2>3. ~(date + 1 <= d)
    BY <1>7, <1>9, <2>1, <2>2
  <2>4. d = date \/ d < date
    BY <2>2, <2>3
  <2>5. CASE d = date
    BY <1>10, <2>5, NoneAssumption
  <2>6. CASE d < date
    <3>1. old.nextRunAt = date
      BY <1>2, <1>3, <1>4, <1>5, <1>9, <2>1, RunIsFor
    <3>2. occurrence[s][d] # None
      BY <1>3, <1>5, <1>9, <2>1, <2>2, <2>6, <3>1 DEF NoGap
    <3> QED
      BY <1>10, <2>2, <2>6, <3>2
  <2> QED
    BY <2>4, <2>5, <2>6
<1>12. overtaken' = overtaken
  BY DEF Post
<1> QED
  BY <1>1, <1>9, <1>10, <1>11, <1>12, HistoryWrittenKeeps

LEMMA RefuseKeeps ==
  ASSUME SchedulesInv, PostingTyped, NEW w \in Posters, posting[w] # None,
         NEW s \in Schedules, Refuse(w, s)
  PROVE  SchedulesInv' /\ PostingTyped'
<1>1. SchedulesInv'
  BY SchedulesStay DEF Refuse
<1>2. PICK now \in Days : now = posting[w].now
  BY RunFields
<1>3. Exists(s) /\ schedule[s].nextRunAt # NoDate
  BY DEF Refuse, Runs, DueSchedule, OnOrBefore
<1>4. PICK date \in Days : date = ScheduledFor(s, now)
  BY <1>2, <1>3, RunIsFor DEF Refuse, Runs
<1> DEFINE run == [posting[w] EXCEPT !.failed = [id |-> s, date |-> date]]
<1>5. run \in PostingRuns
  BY DEF PostingTyped, PostingRuns
<1>6. posting' = [posting EXCEPT ![w] = run]
  BY <1>2, <1>4 DEF Refuse, PostingTyped
<1> HIDE DEF run
<1> QED
  BY <1>1, <1>5, <1>6 DEF PostingTyped

LEMMA RecordFailureKeeps ==
  ASSUME SchedulesInv, PostingTyped, NEW w \in Posters, posting[w] # None,
         NEW s \in Schedules, RecordFailure(w, s)
  PROVE  SchedulesInv' /\ PostingTyped'
<1>1. PostingTyped'
  BY DoneTyped DEF RecordFailure
<1>2. PICK date \in Days : date = posting[w].failed.date
  BY RunFields DEF RecordFailure
<1>3. CASE ~Exists(s)
  BY <1>1, <1>3, SchedulesStay DEF RecordFailure
<1>4. CASE Exists(s)
  <2>1. PICK old \in ProperSchedules : old = schedule[s] /\ NoGap(old, occurrence[s])
    BY <1>4, ExistingRow
  <2>2. /\ occurrence[s] \in [Days -> {None, "POSTED", "FAILED"}]
        /\ entries[s] \in [Days -> Nat]
        /\ \A d \in Days : <<s, d>> \notin overtaken =>
              entries[s][d] <= 1 /\ (entries[s][d] >= 1 => occurrence[s][d] = "POSTED")
    BY DEF SchedulesInv, ScheduleTypes, PostedOrOvertaken
  <2> DEFINE row == [old EXCEPT !.isActive = FALSE]
             posted == [occurrence[s] EXCEPT ![date] = "FAILED"]
             counts == entries[s]
  <2>3. /\ row \in ProperSchedules /\ ~row.isActive
        /\ row.nextRunAt = old.nextRunAt /\ row.anchor = old.anchor
        /\ row.policy = old.policy /\ row.frequency = old.frequency
        /\ row.interval = old.interval
    BY DEF ProperSchedules
  <2>4. /\ posted \in [Days -> {None, "POSTED", "FAILED"}]
        /\ posted[date] = "FAILED"
        /\ \A d \in Days : d # date => posted[d] = occurrence[s][d]
    BY <2>2
  <2>5. /\ schedule' = [schedule EXCEPT ![s] = row]
        /\ occurrence' = [occurrence EXCEPT ![s] = posted]
        /\ entries' = [entries EXCEPT ![s] = counts]
    BY <1>2, <1>4, <2>1 DEF RecordFailure, SchedulesInv, ScheduleTypes
  <2>6. overtaken' = IF Posted(s, date) THEN overtaken \cup {<<s, date>>} ELSE overtaken
    BY <1>2, <1>4 DEF RecordFailure
  <2> HIDE DEF row, posted
  <2>7. NoGap(row, posted)
    BY <2>1, <2>3, <2>4, NoneAssumption DEF NoGap, First
  <2>8. \A d \in Days : <<s, d>> \notin overtaken' =>
            counts[d] <= 1 /\ (counts[d] >= 1 => posted[d] = "POSTED")
    <3>1. SUFFICES ASSUME NEW d \in Days, <<s, d>> \notin overtaken'
                   PROVE  counts[d] <= 1 /\ (counts[d] >= 1 => posted[d] = "POSTED")
      OBVIOUS
    <3>2. <<s, d>> \notin overtaken
      BY <2>6, <3>1
    <3>3. d = date => ~Posted(s, date)
      BY <2>6, <3>1
    <3> QED
      BY <2>2, <2>4, <3>2, <3>3 DEF Posted
  <2>9. overtaken \subseteq overtaken' /\ counts \in [Days -> Nat]
    BY <2>2, <2>6
  <2> HIDE DEF counts
  <2> QED
    BY <1>1, <2>3, <2>4, <2>5, <2>7, <2>8, <2>9, HistoryWrittenKeeps
<1> QED
  BY <1>3, <1>4

LEMMA PostingCrashKeeps ==
  ASSUME SchedulesInv, PostingTyped, NEW w \in Posters, PostingCrash(w)
  PROVE  SchedulesInv' /\ PostingTyped'
<1>1. SchedulesInv'
  BY SchedulesStay DEF PostingCrash
<1>2. PostingTyped'
  BY DEF PostingCrash, PostingTyped
<1> QED
  BY <1>1, <1>2

-----------------------------------------------------------------------------
(* Reminders. *)

ProperReminders ==
  [remindAt : Int, frequency : Frequencies \cup {"ONCE"}, interval : Nat \ {0},
   endAt : Int, nextTriggerAt : Dates, isActive : BOOLEAN, born : Nat]

Copies ==
  [id : ReminderIds, row : ProperReminders \cup {None}, at : Nat, number : Nat, told : SUBSET notified]

Lists ==
  [now : Nat, told : SUBSET notified, rows : UNION {[D -> ProperReminders] : D \in SUBSET ReminderIds}]

Keys == ReminderIds \X Nat \X Days

ReminderTypes ==
  /\ reminder \in [ReminderIds -> ProperReminders \cup {None}]
  /\ notified \subseteq Keys
  /\ editor \in [Editors -> Copies \cup {None}]
  /\ batch \in [Workers -> Lists \cup {None}]
  /\ writes \in Nat
  /\ stale \subseteq ReminderIds

InTime ==
  /\ \A key \in notified : key[3] <= today
  /\ \A e \in Editors : editor[e] # None =>
        editor[e].at <= today /\ \A key \in editor[e].told : key[3] <= editor[e].at
  /\ \A w \in Workers : batch[w] # None =>
        /\ batch[w].now <= today
        /\ \A key \in batch[w].told : key[3] <= batch[w].now
        /\ \A r \in DOMAIN batch[w].rows :
              batch[w].rows[r].nextTriggerAt # NoDate /\ batch[w].rows[r].nextTriggerAt <= batch[w].now

(* Numbers given to rows are fresh. *)
Numbered ==
  /\ \A r \in ReminderIds : reminder[r] # None => reminder[r].born <= writes
  /\ \A key \in notified : key[2] <= writes
  /\ \A e \in Editors : editor[e] # None =>
        /\ editor[e].number <= writes
        /\ \A r \in ReminderIds : reminder[r] # None => reminder[r].born # editor[e].number
        /\ \A key \in notified : key[2] # editor[e].number
        /\ \A d \in Editors : editor[d] # None /\ d # e => editor[d].number # editor[e].number

NotifiedBefore ==
  \A r \in ReminderIds, key \in notified :
    (r \notin stale /\ reminder[r] # None /\ key[1] = r /\ key[2] = reminder[r].born)
    => reminder[r].nextTriggerAt = NoDate \/ key[3] < reminder[r].nextTriggerAt

RemindersInv == ReminderTypes /\ InTime /\ Numbered /\ NotifiedBefore

(* Requests end and lists get shorter; no copy is changed. *)
EditorsFinish ==
  /\ editor' \in [Editors -> Copies \cup {None}]
  /\ \A e \in Editors : editor'[e] = editor[e] \/ editor'[e] = None

ListsShrink ==
  /\ batch' \in [Workers -> Lists \cup {None}]
  /\ \A w \in Workers : batch'[w] = None \/
       /\ batch[w] # None
       /\ batch'[w].now = batch[w].now /\ batch'[w].told = batch[w].told
       /\ \A x \in DOMAIN batch'[w].rows :
             x \in DOMAIN batch[w].rows /\ batch'[w].rows[x] = batch[w].rows[x]

LEMMA ReminderFields ==
  ASSUME NEW row \in ProperReminders
  PROVE  /\ row.remindAt \in Int /\ row.frequency \in Frequencies \cup {"ONCE"}
         /\ row.interval \in Nat \ {0} /\ row.endAt \in Int
         /\ row.nextTriggerAt \in Dates /\ row.isActive \in BOOLEAN /\ row.born \in Nat
BY DEF ProperReminders

LEMMA RowTyped ==
  ASSUME NEW p, p.remindAt \in Int, p.frequency \in Frequencies \cup {"ONCE"},
         p.interval \in Nat \ {0}, p.endAt \in Int,
         NEW next \in Dates, NEW active \in BOOLEAN, NEW id \in Nat
  PROVE  /\ Row(p, next, active, id) \in ProperReminders
         /\ Row(p, next, active, id).nextTriggerAt = next
         /\ Row(p, next, active, id).born = id
         /\ Row(p, next, active, id).isActive = active
BY DEF Row, ProperReminders

(* The triggers that are calculated lie after the date. *)
LEMMA AfterIsLater ==
  ASSUME NEW p, p.remindAt \in Int, p.frequency \in Frequencies \cup {"ONCE"},
         p.interval \in Nat \ {0}, p.endAt \in Int, NEW now \in Nat
  PROVE  /\ p.frequency # "ONCE" => After(p, now) \in Nat /\ After(p, now) > now
         /\ CanFire(p, now) => FirstTrigger(p, now) \in Nat /\ FirstTrigger(p, now) > now
         /\ CalculateNextTrigger(p, now) \in Dates
         /\ CalculateNextTrigger(p, now) # NoDate => CalculateNextTrigger(p, now) > now
<1>1. CASE p.frequency = "ONCE"
  BY <1>1 DEF CanFire, FirstTrigger, CalculateNextTrigger, Dates
<1>2. CASE p.frequency # "ONCE"
  <2>1. PICK a \in Int, f \in Frequencies, n \in Nat \ {0} :
            a = p.remindAt /\ f = p.frequency /\ n = p.interval
    BY <1>2
  <2>2. NextTrigger(a, f, n, now) \in Int /\ NextTrigger(a, f, n, now) > now
    BY NextTriggerIsNext
  <2>3. After(p, now) \in Nat /\ After(p, now) > now
    BY <2>1, <2>2 DEF After
  <2> QED
    BY <1>2, <2>3 DEF CanFire, FirstTrigger, CalculateNextTrigger, OrNone, Dates
<1> QED
  BY <1>1, <1>2

(* One reminder gets a row, the rest stays.  Its times are later than the
   ones that were notified, or it is marked as stale. *)
LEMMA ReminderWrittenKeeps ==
  ASSUME RemindersInv, NEW r \in ReminderIds, NEW row \in ProperReminders \cup {None},
         reminder' = [reminder EXCEPT ![r] = row],
         notified' = notified, today' = today,
         writes' \in Nat, writes' >= writes,
         stale' = stale \/ stale' = stale \cup {r},
         EditorsFinish,
         ListsShrink,
         row # None =>
            /\ row.born <= writes'
            /\ \A e \in Editors : editor'[e] # None => row.born # editor'[e].number
            /\ r \notin stale' =>
                  \A key \in notified : key[1] = r /\ key[2] = row.born =>
                     row.nextTriggerAt = NoDate \/ key[3] < row.nextTriggerAt
  PROVE  RemindersInv'
<1>1. /\ reminder' \in [ReminderIds -> ProperReminders \cup {None}]
      /\ reminder'[r] = row
      /\ \A x \in ReminderIds \ {r} : reminder'[x] = reminder[x]
  BY DEF RemindersInv, ReminderTypes
<1>2. ReminderTypes'
  <2>1. stale' \subseteq ReminderIds
    BY DEF RemindersInv, ReminderTypes
  <2>2. Copies' = Copies /\ Lists' = Lists
    BY DEF Copies, Lists
  <2> QED
    BY <1>1, <2>1, <2>2 DEF RemindersInv, ReminderTypes, ListsShrink, EditorsFinish
<1>3. InTime'
  BY DEF RemindersInv, InTime, ListsShrink, EditorsFinish
<1>4. Numbered'
  <2>1. \A x \in ReminderIds : reminder'[x] # None => reminder'[x].born <= writes'
    <3>1. TAKE x \in ReminderIds
    <3>2. CASE x = r
      BY <1>1, <3>2
    <3>3. CASE x # r
      <4>1. reminder[x] # None => reminder[x].born \in Nat
        BY ReminderFields DEF RemindersInv, ReminderTypes
      <4> QED
        BY <1>1, <3>3, <4>1 DEF RemindersInv, Numbered, ReminderTypes
    <3> QED
      BY <3>2, <3>3
  <2>2. \A key \in notified' : key[2] <= writes'
    <3>1. \A key \in notified : key[2] \in Nat
      BY DEF RemindersInv, ReminderTypes, Keys
    <3> QED
      BY <3>1 DEF RemindersInv, Numbered, ReminderTypes
  <2>3. ASSUME NEW e \in Editors, editor'[e] # None
        PROVE  /\ editor'[e].number <= writes'
               /\ \A x \in ReminderIds : reminder'[x] # None => reminder'[x].born # editor'[e].number
               /\ \A key \in notified' : key[2] # editor'[e].number
               /\ \A d \in Editors : editor'[d] # None /\ d # e => editor'[d].number # editor'[e].number
    <3>1. editor'[e] = editor[e]
      BY <2>3 DEF ListsShrink, EditorsFinish
    <3>2. editor[e].number \in Nat
      BY <2>3, <3>1 DEF RemindersInv, ReminderTypes, Copies
    <3>3. \A x \in ReminderIds : reminder'[x] # None => reminder'[x].born # editor'[e].number
      BY <1>1, <2>3, <3>1 DEF RemindersInv, Numbered
    <3> QED
      BY <2>3, <3>1, <3>2, <3>3 DEF RemindersInv, Numbered, ReminderTypes, ListsShrink, EditorsFinish
  <2> QED
    BY <2>1, <2>2, <2>3 DEF Numbered
<1>5. NotifiedBefore'
  <2>1. SUFFICES ASSUME NEW x \in ReminderIds, NEW key \in notified,
                        x \notin stale', reminder'[x] # None, key[1] = x,
                        key[2] = reminder'[x].born
                 PROVE  reminder'[x].nextTriggerAt = NoDate \/ key[3] < reminder'[x].nextTriggerAt
    BY DEF NotifiedBefore
  <2>2. CASE x = r
    BY <1>1, <2>1, <2>2
  <2>3. CASE x # r
    <3>1. x \notin stale /\ reminder'[x] = reminder[x]
      BY <1>1, <2>1, <2>3
    <3> QED
      BY <2>1, <3>1 DEF RemindersInv, NotifiedBefore
  <2> QED
    BY <2>2, <2>3
<1> QED
  BY <1>2, <1>3, <1>4, <1>5 DEF RemindersInv

(* Copies that are not touched keep what they say of the rows. *)
LEMMA SameReaders ==
  ASSUME RemindersInv
  PROVE  /\ editor' = editor =>
               EditorsFinish
         /\ batch' = batch =>
               ListsShrink
BY DEF RemindersInv, ReminderTypes, ListsShrink, EditorsFinish

LEMMA Finishes ==
  ASSUME RemindersInv, NEW e \in Editors, Finish(e)
  PROVE  EditorsFinish
         /\ \A d \in Editors : editor'[d] # None => d # e /\ editor[d] # None /\ editor'[d] = editor[d]
BY DEF RemindersInv, ReminderTypes, Finish, ListsShrink, EditorsFinish

LEMMA FinishKeeps ==
  ASSUME RemindersInv, NEW e \in Editors, Finish(e),
         UNCHANGED <<today, reminder, notified, batch, stale, writes>>
  PROVE  RemindersInv'
<1>1. /\ editor' \in [Editors -> Copies \cup {None}]
      /\ \A d \in Editors : editor'[d] # None => editor[d] # None /\ editor'[d] = editor[d]
  BY Finishes DEF ListsShrink, EditorsFinish
<1>2. ReminderTypes'
  <2>1. Copies' = Copies /\ Lists' = Lists
    BY DEF Copies, Lists
  <2> QED
    BY <1>1, <2>1 DEF RemindersInv, ReminderTypes
<1>3. InTime'
  BY <1>1 DEF RemindersInv, InTime
<1>4. Numbered'
  BY <1>1 DEF RemindersInv, Numbered
<1>5. NotifiedBefore'
  BY DEF RemindersInv, NotifiedBefore
<1> QED
  BY <1>2, <1>3, <1>4, <1>5 DEF RemindersInv

(* What a list of due reminders holds. *)
LEMMA ListFields ==
  ASSUME RemindersInv, NEW w \in Workers, batch[w] # None
  PROVE  /\ batch[w] \in Lists
         /\ batch[w].now \in Nat /\ batch[w].told \subseteq notified
         /\ DOMAIN batch[w].rows \subseteq ReminderIds
         /\ batch[w].rows \in [DOMAIN batch[w].rows -> ProperReminders]
         /\ batch[w].now <= today
         /\ \A key \in batch[w].told : key[3] <= batch[w].now
         /\ \A r \in DOMAIN batch[w].rows :
               /\ batch[w].rows[r] \in ProperReminders
               /\ batch[w].rows[r].nextTriggerAt # NoDate
               /\ batch[w].rows[r].nextTriggerAt <= batch[w].now
BY DEF RemindersInv, ReminderTypes, InTime, Lists

(* What an editor's copy holds. *)
LEMMA CopyFields ==
  ASSUME RemindersInv, NEW e \in Editors, editor[e] # None
  PROVE  /\ editor[e].id \in ReminderIds /\ editor[e].row \in ProperReminders \cup {None}
         /\ editor[e].at \in Nat /\ editor[e].number \in Nat
         /\ editor[e].told \subseteq notified
         /\ editor[e].at <= today /\ \A key \in editor[e].told : key[3] <= editor[e].at
         /\ editor[e].number <= writes
         /\ \A key \in notified : key[2] # editor[e].number
         /\ \A d \in Editors : editor[d] # None /\ d # e => editor[d].number # editor[e].number
BY DEF RemindersInv, ReminderTypes, InTime, Numbered, Copies

LEMMA HandledLists ==
  ASSUME RemindersInv, NEW w \in Workers, batch[w] # None,
         NEW r \in DOMAIN batch[w].rows, Handled(w, r)
  PROVE  ListsShrink
<1>1. PICK list \in Lists : list = batch[w]
  BY ListFields
<1>2. /\ list.now \in Nat /\ list.told \subseteq notified
      /\ DOMAIN list.rows \subseteq ReminderIds /\ list.rows \in [DOMAIN list.rows -> ProperReminders]
  BY <1>1, ListFields
<1>3. PICK rest : rest = DOMAIN list.rows \ {r}
  OBVIOUS
<1> DEFINE new == [now |-> list.now, told |-> list.told, rows |-> [x \in rest |-> list.rows[x]]]
<1>4. new \in Lists
  <2>1. [x \in rest |-> list.rows[x]] \in [rest -> ProperReminders] /\ rest \in SUBSET ReminderIds
    BY <1>2, <1>3
  <2> QED
    BY <1>2, <2>1 DEF Lists
<1>5. batch' = [batch EXCEPT ![w] = IF rest = {} THEN None ELSE new]
  BY <1>1, <1>3 DEF Handled
<1>6. batch \in [Workers -> Lists \cup {None}]
  BY DEF RemindersInv, ReminderTypes
<1>7. new.now = list.now /\ new.told = list.told /\ DOMAIN new.rows = rest
      /\ \A x \in rest : new.rows[x] = list.rows[x] /\ x \in DOMAIN list.rows
  BY <1>3
<1> HIDE DEF new
<1>8. batch' \in [Workers -> Lists \cup {None}]
  BY <1>4, <1>5, <1>6
<1>9. ASSUME NEW v \in Workers
      PROVE  batch'[v] = None \/
              /\ batch[v] # None
              /\ batch'[v].now = batch[v].now /\ batch'[v].told = batch[v].told
              /\ \A x \in DOMAIN batch'[v].rows :
                    x \in DOMAIN batch[v].rows /\ batch'[v].rows[x] = batch[v].rows[x]
  <2>1. CASE v = w
    <3>1. batch'[w] = IF rest = {} THEN None ELSE new
      BY <1>5, <1>6
    <3> QED
      BY <1>1, <1>7, <2>1, <3>1
  <2>2. CASE v # w
    BY <1>5, <1>6, <2>2
  <2> QED
    BY <2>1, <2>2
<1> QED
  BY <1>8, <1>9 DEF ListsShrink, EditorsFinish

LEMMA Emptied ==
  ASSUME RemindersInv, NEW w \in Workers, batch' = [batch EXCEPT ![w] = None]
  PROVE  ListsShrink
BY DEF RemindersInv, ReminderTypes, ListsShrink, EditorsFinish

(* A write of a new number. *)
LEMMA FreshRowKeeps ==
  ASSUME RemindersInv, NEW r \in ReminderIds, NEW row \in ProperReminders, row.born = writes',
         writes' = writes + 1, reminder' = [reminder EXCEPT ![r] = row],
         UNCHANGED <<today, notified, editor, batch, stale>>
  PROVE  RemindersInv'
<1>1. writes \in Nat /\ writes' \in Nat /\ writes' >= writes /\ ~(writes' <= writes)
  BY DEF RemindersInv, ReminderTypes
<1>2. \A e \in Editors : editor'[e] # None => row.born # editor'[e].number
  BY <1>1, CopyFields
<1>3. \A key \in notified : key[2] # row.born
  BY <1>1 DEF RemindersInv, Numbered
<1>4. row.born <= writes'
  BY <1>1
<1> QED
  BY <1>1, <1>2, <1>3, <1>4, SameReaders, ReminderWrittenKeeps

(* Reminders: one lemma for each action. *)
LEMMA CreateReminderKeeps ==
  ASSUME RemindersInv, today \in Nat, NEW r, NEW p \in Plans, NEW active \in BOOLEAN,
         CreateReminder(r, p, active)
  PROVE  RemindersInv'
<1>1. /\ p.remindAt \in Int /\ p.frequency \in Frequencies \cup {"ONCE"}
      /\ p.interval \in Nat \ {0} /\ p.endAt \in Int
  BY PlansAssumption
<1>2. PICK next \in Dates : next = IF active THEN FirstTrigger(p, today) ELSE NoDate
  BY <1>1, AfterIsLater DEF CreateReminder, Dates
<1>3. writes' = writes + 1 /\ writes' \in Nat
  BY DEF CreateReminder, Request, RemindersInv, ReminderTypes
<1>4. Row(p, next, active, writes') \in ProperReminders /\ Row(p, next, active, writes').born = writes'
  BY <1>1, <1>3, RowTyped
<1>5. r \in ReminderIds /\ reminder' = [reminder EXCEPT ![r] = Row(p, next, active, writes')]
  BY <1>2 DEF CreateReminder, ReminderIds
<1> QED
  BY <1>3, <1>4, <1>5, FreshRowKeeps DEF CreateReminder

LEMMA RemoveReminderKeeps ==
  ASSUME RemindersInv, NEW r \in ReminderIds, RemoveReminder(r)
  PROVE  RemindersInv'
<1>1. PICK row \in ProperReminders \cup {None} : row = None
  OBVIOUS
<1>2. writes' \in Nat /\ writes' >= writes
  BY DEF RemoveReminder, RemindersInv, ReminderTypes
<1>3. reminder' = [reminder EXCEPT ![r] = row]
  BY <1>1 DEF RemoveReminder
<1> QED
  BY <1>1, <1>2, <1>3, SameReaders, ReminderWrittenKeeps DEF RemoveReminder

LEMMA ReadingKeeps ==
  ASSUME RemindersInv, today \in Nat, NEW e \in Editors, NEW r \in ReminderIds,
         editor[e] = None, writes' = writes + 1,
         editor' = [editor EXCEPT ![e] = Reading(r)],
         UNCHANGED <<today, reminder, notified, batch, stale>>
  PROVE  RemindersInv'
<1>1. writes \in Nat /\ writes' \in Nat
  BY DEF RemindersInv, ReminderTypes
<1>2. PICK copy \in Copies : /\ copy = Reading(r) /\ copy.at = today /\ copy.number = writes'
                             /\ copy.told = notified
  <2>1. PICK row \in ProperReminders \cup {None}, n \in Nat : row = reminder[r] /\ n = writes'
    BY <1>1 DEF RemindersInv, ReminderTypes
  <2> DEFINE copy == [id |-> r, row |-> row, at |-> today, number |-> n, told |-> notified]
  <2>2. copy \in Copies /\ copy.at = today /\ copy.number = n /\ copy.told = notified
    BY DEF Copies
  <2>3. copy = Reading(r)
    BY <2>1 DEF Reading
  <2> QED
    BY <2>1, <2>2, <2>3
<1>3. /\ editor' \in [Editors -> Copies \cup {None}]
      /\ editor'[e] = copy
      /\ \A d \in Editors : d # e => editor'[d] = editor[d]
  BY <1>2 DEF RemindersInv, ReminderTypes
<1>4. ReminderTypes'
  <2>1. Copies' = Copies /\ Lists' = Lists
    BY DEF Copies, Lists
  <2> QED
    BY <1>1, <1>3, <2>1 DEF RemindersInv, ReminderTypes
<1>5. InTime'
  <2>1. \A key \in notified : key[3] <= today
    BY DEF RemindersInv, InTime
  <2>2. ASSUME NEW d \in Editors, editor'[d] # None
        PROVE  editor'[d].at <= today /\ \A key \in editor'[d].told : key[3] <= editor'[d].at
    <3>1. CASE d = e
      BY <1>2, <1>3, <2>1, <3>1
    <3>2. CASE d # e
      BY <1>3, <2>2, <3>2 DEF RemindersInv, InTime
    <3> QED
      BY <3>1, <3>2
  <2> QED
    BY <2>2 DEF RemindersInv, InTime
<1>6. Numbered'
  <2>1. \A x \in ReminderIds : reminder[x] # None =>
           reminder[x].born \in Nat /\ reminder[x].born <= writes
    BY ReminderFields DEF RemindersInv, ReminderTypes, Numbered
  <2>2. \A key \in notified : key[2] \in Nat /\ key[2] <= writes
    BY DEF RemindersInv, ReminderTypes, Numbered, Keys
  <2>3. ASSUME NEW d \in Editors, editor'[d] # None
        PROVE  /\ editor'[d].number \in Nat /\ editor'[d].number <= writes'
               /\ d # e => editor'[d] = editor[d] /\ editor[d] # None /\ editor'[d].number <= writes
               /\ d = e => editor'[d].number = writes'
    BY <1>1, <1>2, <1>3, <2>3, CopyFields
  <2>4. \A x \in ReminderIds : reminder'[x] # None => reminder'[x].born <= writes'
    BY <1>1, <2>1
  <2>5. \A key \in notified' : key[2] <= writes'
    BY <1>1, <2>2
  <2>6. ASSUME NEW d \in Editors, editor'[d] # None
        PROVE  /\ \A x \in ReminderIds : reminder'[x] # None => reminder'[x].born # editor'[d].number
               /\ \A key \in notified' : key[2] # editor'[d].number
               /\ \A f \in Editors : editor'[f] # None /\ f # d => editor'[f].number # editor'[d].number
    <3>1. CASE d = e
      <4>1. editor'[d].number = writes'
        BY <2>3, <2>6, <3>1
      <4>2. \A f \in Editors : editor'[f] # None /\ f # d => editor'[f].number # writes'
        BY <1>1, <2>3, <3>1
      <4> QED
        BY <1>1, <2>1, <2>2, <4>1, <4>2
    <3>2. CASE d # e
      <4>1. editor'[d] = editor[d] /\ editor[d] # None /\ editor[d].number <= writes
            /\ editor[d].number \in Nat
        BY <2>3, <2>6, <3>2
      <4>2. ASSUME NEW f \in Editors, editor'[f] # None, f # d
            PROVE  editor'[f].number # editor'[d].number
        <5>1. CASE f = e
          BY <1>1, <2>3, <4>1, <4>2, <5>1
        <5>2. CASE f # e
          BY <2>3, <4>1, <4>2, <5>2, CopyFields
        <5> QED
          BY <5>1, <5>2
      <4> QED
        BY <2>6, <4>1, <4>2 DEF RemindersInv, Numbered
    <3> QED
      BY <3>1, <3>2
  <2> QED
    BY <2>3, <2>4, <2>5, <2>6 DEF Numbered
<1>7. NotifiedBefore'
  BY DEF RemindersInv, NotifiedBefore
<1> QED
  BY <1>4, <1>5, <1>6, <1>7 DEF RemindersInv

LEMMA ReadForUpdateKeeps ==
  ASSUME RemindersInv, today \in Nat, NEW e \in Editors, NEW r \in ReminderIds,
         ReadForUpdate(e, r)
  PROVE  RemindersInv'
BY ReadingKeeps DEF ReadForUpdate, Request

LEMMA ReadDailyKeeps ==
  ASSUME RemindersInv, today \in Nat, NEW e \in Editors, ReadDaily(e)
  PROVE  RemindersInv'
<1>1. PICK r \in ReminderIds : editor' = [editor EXCEPT ![e] = Reading(r)]
  BY DEF ReadDaily, ReminderIds
<1> QED
  BY <1>1, ReadingKeeps DEF ReadDaily, Request

(* A row is written over: its next trigger is the old one, or later than what
   was notified when the copy was made, or the row is stale. *)
LEMMA WriteOverKeeps ==
  ASSUME RemindersInv, NEW r \in ReminderIds, reminder[r] # None,
         NEW row \in ProperReminders, row.born = reminder[r].born,
         reminder' = [reminder EXCEPT ![r] = row],
         stale' = stale \/ stale' = stale \cup {r},
         r \notin stale' =>
            \/ row.nextTriggerAt = NoDate
            \/ row.nextTriggerAt = reminder[r].nextTriggerAt
            \/ \A key \in notified : key[1] = r => key[3] < row.nextTriggerAt,
         UNCHANGED <<today, notified, writes>>,
         EditorsFinish,
         ListsShrink
  PROVE  RemindersInv'
<1>1. writes' \in Nat /\ writes' >= writes /\ row.born <= writes'
  <2>1. writes \in Nat /\ row.born <= writes
    BY DEF RemindersInv, ReminderTypes, Numbered
  <2> QED
    BY <2>1
<1>2. \A e \in Editors : editor'[e] # None => row.born # editor'[e].number
  BY DEF RemindersInv, Numbered, ListsShrink, EditorsFinish
<1>3. ASSUME r \notin stale', NEW key \in notified, key[1] = r, key[2] = row.born
      PROVE  row.nextTriggerAt = NoDate \/ key[3] < row.nextTriggerAt
  <2>1. r \notin stale
    BY <1>3
  <2>2. CASE row.nextTriggerAt = reminder[r].nextTriggerAt
    BY <1>3, <2>1, <2>2 DEF RemindersInv, NotifiedBefore
  <2> QED
    BY <1>3, <2>2
<1> QED
  BY <1>1, <1>2, <1>3, ReminderWrittenKeeps

(* What is written over from a copy whose trigger lies after the copy. *)
LEMMA CopyIsKnown ==
  ASSUME RemindersInv, NEW r \in ReminderIds,
         NEW copy \in ProperReminders, NEW told, NEW at \in Nat,
         \A key \in told : key[3] <= at,
         NEW row \in ProperReminders,
         WriteOver(r, copy, told, row),
         \/ row.nextTriggerAt = NoDate \/ at < row.nextTriggerAt
         \/ row.nextTriggerAt = copy.nextTriggerAt
  PROVE  /\ reminder' = [reminder EXCEPT ![r] = row]
         /\ stale' = stale \/ stale' = stale \cup {r}
         /\ r \notin stale' =>
              \/ row.nextTriggerAt = NoDate
              \/ row.nextTriggerAt = reminder[r].nextTriggerAt
              \/ \A key \in notified : key[1] = r => key[3] < row.nextTriggerAt
<1>1. /\ reminder' = [reminder EXCEPT ![r] = row]
      /\ stale' = stale \/ stale' = stale \cup {r}
      /\ r \notin stale' => reminder[r] = copy /\ \A key \in notified \ told : key[1] # r
  BY DEF WriteOver
<1>2. ASSUME r \notin stale', row.nextTriggerAt # NoDate, at < row.nextTriggerAt,
             NEW key \in notified, key[1] = r
      PROVE  key[3] < row.nextTriggerAt
  <2>1. key[3] \in Int /\ key[3] <= at
    <3>1. key[3] \in Days
      BY DEF RemindersInv, ReminderTypes, Keys
    <3> QED
      BY <1>1, <1>2, <3>1 DEF Days
  <2>2. row.nextTriggerAt \in Nat
    BY <1>2, ReminderFields DEF Dates
  <2> QED
    BY <1>2, <2>1, <2>2
<1> QED
  BY <1>1, <1>2

LEMMA WriteUpdateKeeps ==
  ASSUME RemindersInv, today \in Nat, NEW e \in Editors, editor[e] # None,
         editor[e].row # None,
         NEW p \in Plans \cup {editor[e].row}, NEW active \in BOOLEAN, WriteUpdate(e, p, active)
  PROVE  RemindersInv'
<1>1. PICK r \in ReminderIds, copy \in ProperReminders, at \in Nat, told \in SUBSET notified :
         /\ r = editor[e].id /\ copy = editor[e].row /\ at = editor[e].at /\ told = editor[e].told
         /\ \A key \in told : key[3] <= at
  BY CopyFields
<1>2. /\ p.remindAt \in Int /\ p.frequency \in Frequencies \cup {"ONCE"}
      /\ p.interval \in Nat \ {0} /\ p.endAt \in Int
  <2>1. CASE p \in Plans
    BY <2>1, PlansAssumption
  <2>2. CASE p = copy
    BY <2>2, ReminderFields
  <2> QED
    BY <1>1, <2>1, <2>2
<1> DEFINE changed == p # copy \/ (active /\ ~copy.isActive)
<1>3. PICK next \in Dates :
         /\ next = IF ~active THEN NoDate
                   ELSE IF changed THEN FirstTrigger(p, at) ELSE copy.nextTriggerAt
         /\ next = NoDate \/ at < next \/ next = copy.nextTriggerAt
  <2>1. (active /\ changed) => CanFire(p, at)
    BY <1>1 DEF WriteUpdate
  <2>2. active /\ changed => FirstTrigger(p, at) \in Nat /\ FirstTrigger(p, at) > at
    BY <1>2, <2>1, AfterIsLater
  <2>3. copy.nextTriggerAt \in Dates
    BY ReminderFields
  <2> HIDE DEF changed
  <2> QED
    BY <2>2, <2>3 DEF Dates
<1>4. PICK row \in ProperReminders : /\ row = Row(p, next, active, copy.born)
                                     /\ row.nextTriggerAt = next /\ row.born = copy.born
  <2>1. copy.born \in Nat
    BY ReminderFields
  <2>2. /\ Row(p, next, active, copy.born) \in ProperReminders
        /\ Row(p, next, active, copy.born).nextTriggerAt = next
        /\ Row(p, next, active, copy.born).born = copy.born
    BY <1>2, <2>1, RowTyped
  <2> QED
    BY <2>2
<1>5. UNCHANGED <<today, notified, writes, batch>> /\ Finish(e)
  BY DEF WriteUpdate
<1>6. \/ SameRow(r, copy) /\ WriteOver(r, copy, told, row)
      \/ UNCHANGED <<reminder, stale>>
  BY <1>1, <1>3, <1>4 DEF WriteUpdate
<1>7. CASE SameRow(r, copy) /\ WriteOver(r, copy, told, row)
  <2>1. reminder[r] # None /\ copy.born = reminder[r].born
    BY <1>7 DEF SameRow
  <2>2. EditorsFinish
    BY <1>5, Finishes
  <2>3. ListsShrink
    BY <1>5, SameReaders
  <2>4. \/ row.nextTriggerAt = NoDate \/ at < row.nextTriggerAt
        \/ row.nextTriggerAt = copy.nextTriggerAt
    BY <1>3, <1>4
  <2> HIDE DEF changed
  <2>5. /\ reminder' = [reminder EXCEPT ![r] = row]
        /\ stale' = stale \/ stale' = stale \cup {r}
        /\ r \notin stale' =>
             \/ row.nextTriggerAt = NoDate
             \/ row.nextTriggerAt = reminder[r].nextTriggerAt
             \/ \A key \in notified : key[1] = r => key[3] < row.nextTriggerAt
    BY <1>1, <1>7, <2>4, CopyIsKnown
  <2> QED
    BY <1>4, <1>5, <2>1, <2>2, <2>3, <2>5, WriteOverKeeps
<1>8. CASE UNCHANGED <<reminder, stale>>
  BY <1>5, <1>8, FinishKeeps
<1> QED
  BY <1>6, <1>7, <1>8

LEMMA DailyRowTyped ==
  ASSUME NEW active \in BOOLEAN, NEW now \in Nat, NEW id \in Nat
  PROVE  /\ DailyRow(active, now, id) \in ProperReminders
         /\ DailyRow(active, now, id).born = id
         /\ \/ DailyRow(active, now, id).nextTriggerAt = NoDate
            \/ now < DailyRow(active, now, id).nextTriggerAt
<1> DEFINE p == [remindAt |-> now, frequency |-> "DAILY", interval |-> 1, endAt |-> NoDate]
<1>1. /\ p.remindAt \in Int /\ p.frequency \in Frequencies \cup {"ONCE"}
      /\ p.interval \in Nat \ {0} /\ p.endAt \in Int /\ p.frequency # "ONCE"
  BY DEF Frequencies, NoDate
<1>2. DailyRow(active, now, id) = Row(p, IF active THEN After(p, now) ELSE NoDate, active, id)
  BY DEF DailyRow
<1> HIDE DEF p
<1>3. After(p, now) \in Nat /\ After(p, now) > now
  BY <1>1, AfterIsLater
<1>4. PICK next \in Dates : /\ next = IF active THEN After(p, now) ELSE NoDate
                            /\ next = NoDate \/ now < next
  BY <1>3 DEF Dates
<1>5. /\ Row(p, next, active, id) \in ProperReminders
      /\ Row(p, next, active, id).nextTriggerAt = next
      /\ Row(p, next, active, id).born = id
  BY <1>1, RowTyped
<1>6. DailyRow(active, now, id) = Row(p, next, active, id)
  BY <1>2, <1>4 DEF Row
<1> QED
  BY <1>4, <1>5, <1>6

LEMMA WriteDailyKeeps ==
  ASSUME RemindersInv, today \in Nat, NEW e \in Editors, NEW active \in BOOLEAN,
         WriteDaily(e, active)
  PROVE  RemindersInv'
<1>1. editor[e] # None /\ Finish(e) /\ UNCHANGED <<today, notified, writes, batch>>
  BY DEF WriteDaily
<1>2. PICK r \in ReminderIds, copy \in ProperReminders \cup {None}, at \in Nat, number \in Nat,
           told \in SUBSET notified :
         /\ r = editor[e].id /\ copy = editor[e].row /\ at = editor[e].at /\ told = editor[e].told
         /\ number = editor[e].number
         /\ \A key \in told : key[3] <= at
  BY <1>1, CopyFields
<1>3. EditorsFinish
      /\ \A d \in Editors : editor'[d] # None => d # e /\ editor[d] # None /\ editor'[d] = editor[d]
  BY <1>1, Finishes
<1>4. CASE copy # None /\ SameRow(r, copy) /\ WriteOver(r, copy, told, DailyRow(active, at, copy.born))
  <2>1. reminder[r] # None /\ copy.born = reminder[r].born /\ copy \in ProperReminders
    BY <1>4 DEF SameRow
  <2>2. PICK row \in ProperReminders : /\ row = DailyRow(active, at, copy.born) /\ row.born = copy.born
                                       /\ row.nextTriggerAt = NoDate \/ at < row.nextTriggerAt
    BY <2>1, ReminderFields, DailyRowTyped
  <2>3. ListsShrink
    BY <1>1, SameReaders
  <2>4. WriteOver(r, copy, told, row)
    BY <1>4, <2>2 DEF WriteOver
  <2>5. /\ reminder' = [reminder EXCEPT ![r] = row]
        /\ stale' = stale \/ stale' = stale \cup {r}
        /\ r \notin stale' =>
             \/ row.nextTriggerAt = NoDate
             \/ row.nextTriggerAt = reminder[r].nextTriggerAt
             \/ \A key \in notified : key[1] = r => key[3] < row.nextTriggerAt
    <3>1. \A key \in told : key[3] <= at
      BY <1>2
    <3>2. row.nextTriggerAt = NoDate \/ at < row.nextTriggerAt \/ row.nextTriggerAt = copy.nextTriggerAt
      BY <2>2
    <3> QED
      BY <2>1, <2>4, <3>1, <3>2, CopyIsKnown
  <2> QED
    BY <1>1, <1>3, <2>1, <2>2, <2>3, <2>5, WriteOverKeeps
<1>5. CASE /\ UNCHANGED stale
           /\ \E x \in Dailies :
                 reminder' = [reminder EXCEPT ![x] = DailyRow(active, at, number)]
  <2>1. PICK x \in ReminderIds : reminder' = [reminder EXCEPT ![x] = DailyRow(active, at, number)]
    BY <1>5 DEF ReminderIds
  <2>2. PICK row \in ProperReminders : row = DailyRow(active, at, number) /\ row.born = number
    BY DailyRowTyped
  <2>3. /\ writes' \in Nat /\ writes' >= writes /\ number <= writes'
        /\ \A key \in notified : key[2] # number
    BY <1>1, <1>2, CopyFields DEF RemindersInv, ReminderTypes
  <2>4. \A d \in Editors : editor'[d] # None => row.born # editor'[d].number
    BY <1>1, <1>2, <1>3, <2>2, CopyFields
  <2>5. ListsShrink
    BY <1>1, SameReaders
  <2>6. reminder' = [reminder EXCEPT ![x] = row]
    BY <2>1, <2>2
  <2>7. \A key \in notified : key[1] = x /\ key[2] = row.born =>
           row.nextTriggerAt = NoDate \/ key[3] < row.nextTriggerAt
    BY <2>2, <2>3
  <2> QED
    BY <1>1, <1>3, <1>5, <2>2, <2>3, <2>4, <2>5, <2>6, <2>7, ReminderWrittenKeeps
<1>6. CASE UNCHANGED <<reminder, stale>>
  BY <1>1, <1>6, FinishKeeps
<1> QED
  BY <1>2, <1>4, <1>5, <1>6 DEF WriteDaily

(* Lists of due rows get shorter. *)
LEMMA ListsShrinkKeeps ==
  ASSUME RemindersInv, UNCHANGED <<today, reminder, notified, editor, writes, stale>>,
         ListsShrink
  PROVE  RemindersInv'
<1>1. ReminderTypes'
  <2>1. Copies' = Copies /\ Lists' = Lists
    BY DEF Copies, Lists
  <2> QED
    BY <2>1 DEF RemindersInv, ReminderTypes, ListsShrink, EditorsFinish
<1>2. InTime'
  BY DEF RemindersInv, InTime, ListsShrink, EditorsFinish
<1>3. Numbered' /\ NotifiedBefore'
  BY DEF RemindersInv, Numbered, NotifiedBefore
<1> QED
  BY <1>1, <1>2, <1>3 DEF RemindersInv

LEMMA DropKeeps ==
  ASSUME RemindersInv, NEW w \in Workers, batch' = [batch EXCEPT ![w] = None],
         UNCHANGED <<today, reminder, notified, editor, writes, stale>>
  PROVE  RemindersInv'
<1>1. ListsShrink
  BY Emptied
<1> QED
  BY <1>1, ListsShrinkKeeps

(* A notification is added, and the row moves on past its time. *)
MovesOn(r, row, new) ==
  /\ reminder[r] # None
  /\ reminder' = [reminder EXCEPT ![r] = row] /\ row.born = reminder[r].born
  /\ new[1] = r /\ new[2] = row.born /\ new[3] <= today
  /\ row.nextTriggerAt = NoDate \/ new[3] < row.nextTriggerAt
  /\ notified \subseteq notified'
  /\ \A key \in notified' : key \in notified \/ key = new
  /\ \A key \in notified :
       key[1] = r /\ key[2] = row.born /\ r \notin stale => key[3] < new[3]
  /\ today' = today /\ editor' = editor /\ writes' = writes /\ stale' = stale

LEMMA NotifiedKeeps ==
  ASSUME RemindersInv, NEW r \in ReminderIds, NEW row \in ProperReminders, NEW new \in Keys,
         MovesOn(r, row, new), ListsShrink
  PROVE  RemindersInv'
<1> USE DEF MovesOn
<1>1. PICK time \in Nat, born \in Nat : time = new[3] /\ born = row.born
  BY HorizonAssumption, ReminderFields DEF Days, Keys
<1>2. \A key \in notified' : key \in notified \/ key = new
  OBVIOUS
<1>3. /\ reminder' \in [ReminderIds -> ProperReminders \cup {None}]
      /\ reminder'[r] = row
      /\ \A x \in ReminderIds \ {r} : reminder'[x] = reminder[x]
  BY DEF RemindersInv, ReminderTypes
<1>4. ReminderTypes'
  <2>1. notified' \subseteq Keys
    BY <1>1, <1>2 DEF RemindersInv, ReminderTypes
  <2>2. Copies \subseteq Copies' /\ Lists \subseteq Lists'
    <3>1. SUBSET notified \subseteq SUBSET notified'
      OBVIOUS
    <3> QED
      BY <3>1 DEF Copies, Lists
  <2> QED
    BY <1>3, <2>1, <2>2 DEF RemindersInv, ReminderTypes, ListsShrink, EditorsFinish
<1>5. InTime'
  <2>1. \A key \in notified' : key[3] <= today
    BY <1>1, <1>2 DEF RemindersInv, InTime
  <2> QED
    BY <2>1 DEF RemindersInv, InTime, ListsShrink, EditorsFinish
<1>6. Numbered'
  <2>1. \A x \in ReminderIds : reminder'[x] # None => reminder[x] # None /\ reminder'[x].born = reminder[x].born
    BY <1>3
  <2>2. \A key \in notified' : key[2] <= writes
    BY <1>1, <1>2 DEF RemindersInv, Numbered
  <2>3. \A e \in Editors, key \in notified' : editor[e] # None => key[2] # editor[e].number
    BY <1>1, <1>2 DEF RemindersInv, Numbered
  <2>4. \A x \in ReminderIds : reminder'[x] # None => reminder'[x].born <= writes'
    BY <2>1 DEF RemindersInv, Numbered
  <2>5. \A e \in Editors : editor'[e] # None =>
          /\ \A x \in ReminderIds : reminder'[x] # None => reminder'[x].born # editor'[e].number
          /\ editor'[e].number <= writes'
          /\ \A d \in Editors : editor'[d] # None /\ d # e => editor'[d].number # editor'[e].number
    BY <2>1 DEF RemindersInv, Numbered
  <2> QED
    BY <2>2, <2>3, <2>4, <2>5 DEF Numbered
<1>7. NotifiedBefore'
  <2>1. SUFFICES ASSUME NEW x \in ReminderIds, NEW key \in notified',
                        x \notin stale, reminder'[x] # None, key[1] = x,
                        key[2] = reminder'[x].born
                 PROVE  reminder'[x].nextTriggerAt = NoDate \/ key[3] < reminder'[x].nextTriggerAt
    BY DEF NotifiedBefore
  <2>2. CASE x = r
    <3>1. key[3] \in Int /\ key[3] <= time
      <4>1. CASE key = new
        BY <1>1, <4>1
      <4>2. CASE key \in notified
        <5>1. key[3] \in Days
          BY <4>2 DEF RemindersInv, ReminderTypes, Keys
        <5> QED
          BY <1>1, <1>3, <2>1, <2>2, <4>2, <5>1, HorizonAssumption DEF Days
      <4> QED
        BY <1>2, <4>1, <4>2
    <3>2. row.nextTriggerAt \in Dates
      BY ReminderFields
    <3> QED
      BY <1>1, <1>3, <2>2, <3>1, <3>2 DEF Dates, NoDate
  <2>3. CASE x # r
    <3>1. key \in notified /\ reminder'[x] = reminder[x]
      BY <1>1, <1>2, <1>3, <2>1, <2>3
    <3> QED
      BY <2>1, <3>1 DEF RemindersInv, NotifiedBefore
  <2> QED
    BY <2>2, <2>3
<1> QED
  BY <1>4, <1>5, <1>6, <1>7 DEF RemindersInv

LEMMA AdvancedTyped ==
  ASSUME NEW row \in ProperReminders, NEW now \in Nat
  PROVE  /\ Advanced(row, now) \in ProperReminders
         /\ Advanced(row, now).born = row.born
         /\ \/ Advanced(row, now).nextTriggerAt = NoDate
            \/ now < Advanced(row, now).nextTriggerAt
<1>1. /\ row.remindAt \in Int /\ row.frequency \in Frequencies \cup {"ONCE"}
      /\ row.interval \in Nat \ {0} /\ row.endAt \in Int /\ row.born \in Nat
  BY ReminderFields
<1>2. PICK next \in Dates : /\ next = CalculateNextTrigger(row, now)
                            /\ next = NoDate \/ now < next
  BY <1>1, AfterIsLater
<1>3. Advanced(row, now) = Row(row, next, next # NoDate, row.born)
  BY <1>2 DEF Advanced
<1>4. PICK active \in BOOLEAN : active = (next # NoDate)
  OBVIOUS
<1>5. /\ Row(row, next, active, row.born) \in ProperReminders
      /\ Row(row, next, active, row.born).nextTriggerAt = next
      /\ Row(row, next, active, row.born).born = row.born
  BY <1>1, RowTyped
<1>6. Advanced(row, now) = Row(row, next, active, row.born)
  BY <1>3, <1>4 DEF Row
<1> QED
  BY <1>2, <1>5, <1>6

LEMMA SkipDailyKeeps ==
  ASSUME RemindersInv, today \in Nat, NEW w \in Workers, batch[w] # None,
         NEW r \in DOMAIN batch[w].rows, SkipDaily(w, r)
  PROVE  RemindersInv'
<1>1. PICK copy \in ProperReminders, now \in Nat, told \in SUBSET notified :
         /\ copy = batch[w].rows[r] /\ now = batch[w].now /\ told = batch[w].told
         /\ \A key \in told : key[3] <= now
  BY ListFields
<1>2. r \in ReminderIds /\ UNCHANGED <<today, notified, editor, writes>>
  BY ListFields DEF SkipDaily
<1>3. EditorsFinish
  BY <1>2, SameReaders
<1>4. CASE SameRow(r, copy) /\ WriteOver(r, copy, told, Advanced(copy, now)) /\ Handled(w, r)
  <2>1. reminder[r] # None /\ copy.born = reminder[r].born
    BY <1>4 DEF SameRow
  <2>2. PICK row \in ProperReminders : /\ row = Advanced(copy, now) /\ row.born = copy.born
                                       /\ row.nextTriggerAt = NoDate \/ now < row.nextTriggerAt
    BY AdvancedTyped
  <2>3. ListsShrink
    BY <1>4, HandledLists
  <2>4. WriteOver(r, copy, told, row)
    BY <1>4, <2>2 DEF WriteOver
  <2>5. \A key \in told : key[3] <= now
    BY <1>1
  <2>6. row.nextTriggerAt = NoDate \/ now < row.nextTriggerAt \/ row.nextTriggerAt = copy.nextTriggerAt
    BY <2>2
  <2>7. /\ reminder' = [reminder EXCEPT ![r] = row]
        /\ stale' = stale \/ stale' = stale \cup {r}
        /\ r \notin stale' =>
             \/ row.nextTriggerAt = NoDate
             \/ row.nextTriggerAt = reminder[r].nextTriggerAt
             \/ \A key \in notified : key[1] = r => key[3] < row.nextTriggerAt
    BY <1>2, <2>4, <2>5, <2>6, CopyIsKnown
  <2> QED
    BY <1>2, <1>3, <2>1, <2>2, <2>3, <2>7, WriteOverKeeps
<1>5. CASE batch' = [batch EXCEPT ![w] = None] /\ UNCHANGED <<reminder, stale>>
  BY <1>2, <1>5, DropKeeps
<1> QED
  BY <1>1, <1>4, <1>5 DEF SkipDaily

(* The notification and the next trigger of a due row. *)
LEMMA TriggerDueKeeps ==
  ASSUME RemindersInv, today \in Days, NEW w \in Workers, batch[w] # None,
         NEW r \in DOMAIN batch[w].rows, NEW channels \in BOOLEAN, TriggerDue(w, r, channels)
  PROVE  RemindersInv'
<1>1. PICK copy \in ProperReminders, now \in Nat :
         /\ copy = batch[w].rows[r] /\ now = batch[w].now
         /\ copy.nextTriggerAt # NoDate /\ copy.nextTriggerAt <= now /\ now <= today
  BY ListFields
<1>2. r \in ReminderIds /\ Handled(w, r) /\ UNCHANGED <<today, editor, writes, stale>>
  BY ListFields DEF TriggerDue
<1>3. EditorsFinish
  BY <1>2, SameReaders
<1>4. ListsShrink
  BY <1>2, HandledLists
<1>5. CASE UNCHANGED <<reminder, notified>>
  BY <1>2, <1>4, <1>5, ListsShrinkKeeps
<1>6. CASE /\ Expected(r, copy)
           /\ notified' = IF channels THEN notified \cup {<<r, copy.born, copy.nextTriggerAt>>}
                          ELSE notified
           /\ LET next == CalculateNextTrigger(copy, now)
              IN reminder' = [reminder EXCEPT ![r].nextTriggerAt = next,
                                              ![r].isActive = next # NoDate]
  <2>1. PICK old \in ProperReminders : /\ old = reminder[r] /\ old.born = copy.born
                                       /\ old.nextTriggerAt = copy.nextTriggerAt
    BY <1>2, <1>6 DEF Expected, SameRow, RemindersInv, ReminderTypes
  <2>2. PICK next \in Dates : /\ next = CalculateNextTrigger(copy, now)
                              /\ next = NoDate \/ now < next
    BY ReminderFields, AfterIsLater
  <2> DEFINE row == [old EXCEPT !.nextTriggerAt = next, !.isActive = next # NoDate]
  <2>3. row \in ProperReminders /\ row.nextTriggerAt = next /\ row.born = old.born
    BY DEF ProperReminders
  <2>4. reminder' = [reminder EXCEPT ![r] = row]
    <3>1. reminder' = [reminder EXCEPT ![r].nextTriggerAt = next, ![r].isActive = next # NoDate]
      BY <1>6, <2>2
    <3>2. [reminder EXCEPT ![r].nextTriggerAt = next, ![r].isActive = next # NoDate]
           = [reminder EXCEPT ![r] = [@ EXCEPT !.nextTriggerAt = next, !.isActive = next # NoDate]]
      BY <1>2 DEF RemindersInv, ReminderTypes
    <3> QED
      BY <2>1, <3>1, <3>2
  <2> HIDE DEF row
  <2>5. PICK time \in Nat, born \in Nat :
           /\ time = copy.nextTriggerAt /\ born = copy.born /\ time <= now /\ time <= today
    <3>1. copy.nextTriggerAt \in Nat /\ copy.born \in Nat
      BY <1>1, ReminderFields DEF Dates
    <3>2. today \in Nat
      BY HorizonAssumption DEF Days
    <3>3. copy.nextTriggerAt <= today
      BY <1>1, <3>1, <3>2
    <3> QED
      BY <1>1, <3>1, <3>3
  <2>6. /\ notified \subseteq notified'
        /\ \A key \in notified' : key \in notified \/ key = <<r, born, time>>
    BY <1>6, <2>5
  <2>7. born <= writes /\ \A e \in Editors : editor[e] # None => editor[e].number # born
    BY <1>2, <2>1, <2>5, <1>6 DEF RemindersInv, Numbered, Expected, SameRow
  <2>8. \A key \in notified : key[1] = r /\ key[2] = row.born /\ r \notin stale =>
            key[3] < time
    BY <1>2, <1>6, <2>1, <2>3, <2>5, DateIsNoNull
       DEF RemindersInv, NotifiedBefore, Expected, SameRow
  <2>9. /\ reminder[r] # None /\ row.born = born /\ born = reminder[r].born
    BY <1>6, <2>1, <2>3, <2>5 DEF Expected, SameRow
  <2>10. row.nextTriggerAt = NoDate \/ time < row.nextTriggerAt
    <3>1. next = NoDate \/ (next \in Nat /\ now \in Nat /\ now < next)
      BY <2>2 DEF Dates
    <3> QED
      BY <2>3, <2>5, <3>1
  <2> DEFINE new == <<r, born, time>>
  <2>11. /\ new \in Keys
         /\ new[1] = r /\ new[2] = row.born /\ new[3] = time
    BY <1>2, <2>5, <2>9, HorizonAssumption DEF Days, Keys
  <2>12. \A key \in notified' : key \in notified \/ key = new
    BY <2>6
  <2> HIDE DEF new
  <2>13. \A key \in notified :
            key[1] = r /\ key[2] = row.born /\ r \notin stale => key[3] < new[3]
    BY <2>8, <2>11
  <2>14. row.nextTriggerAt = NoDate \/ new[3] < row.nextTriggerAt
    BY <2>10, <2>11
  <2>15. new[3] <= today
    BY <2>5, <2>11
  <2>16. PICK last \in Keys, given \in ProperReminders : last = new /\ given = row
    BY <2>3, <2>11
  <2>17. /\ reminder' = [reminder EXCEPT ![r] = given] /\ given.born = reminder[r].born
         /\ last[1] = r /\ last[2] = given.born /\ last[3] <= today
    BY <2>4, <2>9, <2>11, <2>15, <2>16
  <2>18. /\ given.nextTriggerAt = NoDate \/ last[3] < given.nextTriggerAt
         /\ \A key \in notified' : key \in notified \/ key = last
         /\ \A key \in notified :
              key[1] = r /\ key[2] = given.born /\ r \notin stale => key[3] < last[3]
    BY <2>12, <2>13, <2>14, <2>16
  <2>19. r \in ReminderIds /\ MovesOn(r, given, last)
    BY <1>2, <2>6, <2>9, <2>17, <2>18 DEF MovesOn
  <2> QED
    BY ONLY RemindersInv, last \in Keys, given \in ProperReminders, <1>4,
            <2>19, NotifiedKeeps
<1> QED
  BY <1>1, <1>5, <1>6 DEF TriggerDue

(* A list is taken when its copies are the rows. *)
LEMMA FindDueReminders ==
  ASSUME RemindersInv, today \in Nat, NEW w \in Workers, FindDue(w)
  PROVE  RemindersInv'
<1>1. PICK due \in SUBSET ReminderIds : due = {x \in ReminderIds : IsDue(x)}
  OBVIOUS
<1>2. PICK rows \in [due -> ProperReminders] :
         /\ rows = [x \in due |-> reminder[x]]
         /\ \A x \in due : rows[x].nextTriggerAt # NoDate /\ rows[x].nextTriggerAt <= today
  <2> DEFINE rows == [x \in due |-> reminder[x]]
  <2>1. \A x \in due : /\ reminder[x] \in ProperReminders
                       /\ reminder[x].nextTriggerAt # NoDate /\ reminder[x].nextTriggerAt <= today
    BY <1>1 DEF IsDue, OnOrBefore, RemindersInv, ReminderTypes
  <2>2. rows \in [due -> ProperReminders] /\ \A x \in due : rows[x] = reminder[x]
    BY <2>1
  <2>3. \A x \in due : rows[x].nextTriggerAt # NoDate /\ rows[x].nextTriggerAt <= today
    BY <2>1, <2>2
  <2>4. rows = [x \in due |-> reminder[x]]
    OBVIOUS
  <2> HIDE DEF rows
  <2> QED
    BY <2>2, <2>3, <2>4
<1> DEFINE list == [now |-> today, told |-> notified, rows |-> rows]
<1>3. list \in Lists /\ list.now = today /\ list.told = notified /\ list.rows = rows
  BY DEF Lists
<1>4. batch' = [batch EXCEPT ![w] = list]
  BY <1>1, <1>2 DEF FindDue
<1> HIDE DEF list
<1>5. UNCHANGED <<today, reminder, notified, editor, writes, stale>>
  BY DEF FindDue
<1>6. /\ batch' \in [Workers -> Lists \cup {None}]
      /\ batch'[w] = list /\ \A v \in Workers : v # w => batch'[v] = batch[v]
  BY <1>3, <1>4 DEF RemindersInv, ReminderTypes
<1>7. ReminderTypes'
  <2>1. Copies' = Copies /\ Lists' = Lists
    BY <1>5 DEF Copies, Lists
  <2> QED
    BY <1>5, <1>6, <2>1 DEF RemindersInv, ReminderTypes
<1>8. InTime'
  <2>1. ASSUME NEW v \in Workers, batch'[v] # None
        PROVE  /\ batch'[v].now <= today
               /\ \A key \in batch'[v].told : key[3] <= batch'[v].now
               /\ \A r \in DOMAIN batch'[v].rows :
                    /\ batch'[v].rows[r].nextTriggerAt # NoDate
                    /\ batch'[v].rows[r].nextTriggerAt <= batch'[v].now
    <3>1. CASE v = w
      BY <1>2, <1>3, <1>6, <3>1 DEF RemindersInv, InTime
    <3>2. CASE v # w
      BY <1>6, <2>1, <3>2 DEF RemindersInv, InTime
    <3> QED
      BY <3>1, <3>2
  <2> QED
    BY <1>5, <2>1 DEF RemindersInv, InTime
<1>9. Numbered' /\ NotifiedBefore'
  BY <1>5 DEF RemindersInv, Numbered, NotifiedBefore
<1> QED
  BY <1>7, <1>8, <1>9 DEF RemindersInv

LEMMA ReminderCrashKeeps ==
  ASSUME RemindersInv, NEW w \in Workers, ReminderCrash(w)
  PROVE  RemindersInv'
BY DropKeeps DEF ReminderCrash

(* The days go by and the numbers grow. *)
LEMMA RemindersStay ==
  ASSUME RemindersInv, UNCHANGED <<reminder, notified, editor, batch, stale>>,
         today \in Nat, today' \in Nat, today <= today',
         writes' \in Nat, writes' >= writes
  PROVE  RemindersInv'
<1>1. ReminderTypes'
  <2>1. Copies' = Copies /\ Lists' = Lists
    BY DEF Copies, Lists
  <2> QED
    BY <2>1 DEF RemindersInv, ReminderTypes
<1>2. InTime'
  <2>1. \A key \in notified : key[3] \in Int
    BY HorizonAssumption DEF RemindersInv, ReminderTypes, Days, Keys
  <2>2. \A key \in notified' : key[3] <= today'
    BY <2>1 DEF RemindersInv, InTime
  <2>3. ASSUME NEW e \in Editors, editor'[e] # None
        PROVE  editor'[e].at <= today' /\ \A key \in editor'[e].told : key[3] <= editor'[e].at
    <3>1. editor[e].at \in Nat
      BY <2>3, CopyFields
    <3> QED
      BY <2>3, <3>1 DEF RemindersInv, InTime
  <2>4. ASSUME NEW w \in Workers, batch'[w] # None
        PROVE  /\ batch'[w].now <= today'
               /\ \A key \in batch'[w].told : key[3] <= batch'[w].now
               /\ \A r \in DOMAIN batch'[w].rows :
                    /\ batch'[w].rows[r].nextTriggerAt # NoDate
                    /\ batch'[w].rows[r].nextTriggerAt <= batch'[w].now
    <3>1. batch[w].now \in Nat
      BY <2>4, ListFields
    <3> QED
      BY <2>4, <3>1 DEF RemindersInv, InTime
  <2> QED
    BY <2>2, <2>3, <2>4 DEF InTime
<1>3. Numbered'
  <2>1. writes \in Nat
    BY DEF RemindersInv, ReminderTypes
  <2>2. \A x \in ReminderIds : reminder'[x] # None => reminder'[x].born <= writes'
    <3>1. \A x \in ReminderIds : reminder[x] # None => reminder[x].born \in Nat
      BY ReminderFields DEF RemindersInv, ReminderTypes
    <3> QED
      BY <2>1, <3>1 DEF RemindersInv, Numbered
  <2>3. \A key \in notified' : key[2] <= writes'
    <3>1. \A key \in notified : key[2] \in Nat
      BY DEF RemindersInv, ReminderTypes, Keys
    <3> QED
      BY <2>1, <3>1 DEF RemindersInv, Numbered
  <2>4. \A e \in Editors : editor'[e] # None => editor'[e].number <= writes'
    <3>1. \A e \in Editors : editor[e] # None => editor[e].number \in Nat
      BY CopyFields
    <3> QED
      BY <2>1, <3>1 DEF RemindersInv, Numbered
  <2> QED
    BY <2>2, <2>3, <2>4 DEF RemindersInv, Numbered
<1>4. NotifiedBefore'
  BY DEF RemindersInv, NotifiedBefore
<1> QED
  BY <1>1, <1>2, <1>3, <1>4 DEF RemindersInv

(* The reminder of a schedule is made again. *)
LEMMA SyncKeeps ==
  ASSUME RemindersInv, today \in Nat, NEW s \in Schedules, NEW row \in ProperSchedules,
         NEW days \in Nat \cup {None}, Request, SyncReminder(s, row, days),
         UNCHANGED <<today, notified, editor, batch, stale>>
  PROVE  RemindersInv'
<1>1. s \in ReminderIds /\ writes \in Nat /\ writes' = writes + 1 /\ writes' \in Nat
      /\ writes' >= writes
  BY DEF ReminderIds, Request, RemindersInv, ReminderTypes
<1>2. CASE days = None
  <2>1. PICK no \in ProperReminders \cup {None} : no = None
    OBVIOUS
  <2>2. reminder' = [reminder EXCEPT ![s] = no]
    BY <1>2, <2>1 DEF SyncReminder
  <2> QED
    BY <1>1, <2>1, <2>2, SameReaders, ReminderWrittenKeeps
<1>3. CASE days # None
  <2>1. /\ days \in Nat /\ row.anchor \in Nat /\ row.frequency \in Frequencies
        /\ row.interval \in Nat \ {0} /\ row.end \in Int /\ row.nextRunAt \in Dates
        /\ row.isActive \in BOOLEAN
    BY <1>3 DEF ProperSchedules
  <2>2. PICK at \in Int :
           at = (IF row.nextRunAt = NoDate THEN row.anchor ELSE row.nextRunAt) - days
    BY <2>1 DEF Dates, NoDate
  <2>3. PICK until \in Int : until = IF row.end = NoDate THEN NoDate ELSE row.end - days
    BY <2>1 DEF NoDate
  <2>4. PICK next \in Dates :
           next = IF row.isActive THEN IF at <= today THEN today ELSE at ELSE NoDate
    BY DEF Dates, NoDate
  <2> DEFINE p == [remindAt |-> at, frequency |-> row.frequency,
                   interval |-> row.interval, endAt |-> until]
  <2>5. /\ p.remindAt \in Int /\ p.frequency \in Frequencies \cup {"ONCE"}
        /\ p.interval \in Nat \ {0} /\ p.endAt \in Int
    BY <2>1
  <2>6. Synced(row, days, writes') = Row(p, next, row.isActive, writes')
    BY <2>2, <2>3, <2>4 DEF Synced
  <2> HIDE DEF p
  <2>7. PICK new \in ProperReminders : /\ new = Row(p, next, row.isActive, writes')
                                       /\ new.born = writes'
    BY <1>1, <2>1, <2>5, RowTyped
  <2>8. reminder' = [reminder EXCEPT ![s] = new]
    BY <1>3, <2>6, <2>7 DEF SyncReminder
  <2> QED
    BY <1>1, <2>7, <2>8, FreshRowKeeps
<1> QED
  BY <1>2, <1>3

(* The reminder of a schedule is switched on or off. *)
LEMMA SwitchKeeps ==
  ASSUME RemindersInv, NEW s \in Schedules, NEW active \in BOOLEAN,
         ReminderActive(s, active), today \in Nat,
         UNCHANGED <<today, notified, editor, batch, stale>>,
         writes' \in Nat, writes' >= writes
  PROVE  RemindersInv'
<1>1. s \in ReminderIds
  BY DEF ReminderIds
<1>2. CASE reminder[s] = None
  <2>1. reminder' = reminder
    BY <1>2 DEF ReminderActive
  <2> QED
    BY <2>1, RemindersStay
<1>3. CASE reminder[s] # None
  <2>1. PICK old \in ProperReminders : old = reminder[s]
    BY <1>1, <1>3 DEF RemindersInv, ReminderTypes
  <2> DEFINE row == [old EXCEPT !.isActive = active]
  <2>2. row \in ProperReminders /\ row.born = old.born /\ row.nextTriggerAt = old.nextTriggerAt
    BY DEF ProperReminders
  <2>3. reminder' = [reminder EXCEPT ![s] = row]
    BY <1>1, <1>3, <2>1 DEF ReminderActive, RemindersInv, ReminderTypes
  <2> HIDE DEF row
  <2>4. row.born <= writes'
    <3>1. row.born <= writes /\ row.born \in Nat /\ writes \in Nat
      BY <1>1, <1>3, <2>1, <2>2, ReminderFields DEF RemindersInv, Numbered, ReminderTypes
    <3> QED
      BY <3>1
  <2>5. \A e \in Editors : editor'[e] # None => row.born # editor'[e].number
    BY <1>1, <1>3, <2>1, <2>2 DEF RemindersInv, Numbered
  <2>6. s \notin stale' =>
          \A key \in notified : key[1] = s /\ key[2] = row.born =>
             row.nextTriggerAt = NoDate \/ key[3] < row.nextTriggerAt
    BY <1>1, <1>3, <2>1, <2>2 DEF RemindersInv, NotifiedBefore
  <2> QED
    BY <1>1, <2>2, <2>3, <2>4, <2>5, <2>6, SameReaders, ReminderWrittenKeeps
<1> QED
  BY <1>2, <1>3

-----------------------------------------------------------------------------
(* Budgets. *)

ProperBudgets ==
  [start : Nat, end : Nat, isArchived : BOOLEAN, autoRenew : BOOLEAN,
   group : Nat, until : Int, renewed : BOOLEAN, parent : Budgets \cup {None}]

RenewalRuns ==
  [now : Nat, iteration : 1 .. 4,
   current : {None} \cup [id : Budgets, row : ProperBudgets],
   rows : UNION {[D -> ProperBudgets] : D \in SUBSET Budgets}]

BudgetTypes ==
  /\ budget \in [Budgets -> ProperBudgets \cup {None}]
  /\ renewing \in [Renewers -> RenewalRuns \cup {None}]
  /\ changes \in Nat

(* Groups are numbered by the requests, and parents are rows. *)
Grouped ==
  \A b \in Budgets : budget[b] # None =>
     /\ budget[b].group <= changes
     /\ budget[b].parent # None => budget[budget[b].parent] # None

(* What a worker still knows of the budget it renews. *)
CopyOf(b, row) ==
  /\ budget[b] # None /\ row.group # 0 /\ row.group <= changes
  /\ b \notin edited => row.end = budget[b].end /\ row.group = budget[b].group

CopiesHold ==
  \A w \in Renewers : renewing[w] # None =>
     /\ renewing[w].current # None => CopyOf(renewing[w].current.id, renewing[w].current.row)
     /\ \A b \in DOMAIN renewing[w].rows : CopyOf(b, renewing[w].rows[b])

(* A period nobody edited follows its parent, in the parent's group. *)
Follows(c, p) ==
  budget[c].start = budget[p].end + 1 /\ budget[c].group = budget[p].group /\ budget[c].group # 0

ChildrenFollow ==
  \A c, p \in Budgets :
     (/\ budget[c] # None /\ c \notin edited /\ budget[c].parent = p
      /\ p # None /\ budget[p] # None /\ p \notin edited) => Follows(c, p)

BudgetsInv ==
  BudgetTypes /\ B!Unique(budget) /\ Grouped /\ CopiesHold /\ ChildrenFollow

LEMMA BudgetFields ==
  ASSUME NEW row \in ProperBudgets
  PROVE  /\ row.start \in Nat /\ row.end \in Nat /\ row.group \in Nat /\ row.until \in Int
         /\ row.isArchived \in BOOLEAN /\ row.autoRenew \in BOOLEAN /\ row.renewed \in BOOLEAN
         /\ row.parent \in Budgets \cup {None}
         /\ row # None
<1>1. row \in B!BudgetRows
  BY DEF ProperBudgets, B!BudgetRows
<1> QED
  BY <1>1, BudgetsAssumption DEF ProperBudgets

LEMMA PeriodTyped ==
  ASSUME NEW start \in Nat, NEW group \in Nat, NEW auto \in BOOLEAN, NEW until \in Int,
         NEW parent \in Budgets \cup {None}
  PROVE  /\ B!Period(start, group, auto, until, parent) \in ProperBudgets
         /\ B!Period(start, group, auto, until, parent).start = start
         /\ B!Period(start, group, auto, until, parent).group = group
         /\ B!Period(start, group, auto, until, parent).parent = parent
<1>1. B!ResolveEndDate(start) \in Nat
  BY BudgetsAssumption DEF B!ResolveEndDate, B!AddDays
<1> QED
  BY <1>1 DEF B!Period, ProperBudgets

(* The workers' copies of the next state are ones of this state. *)
CopiesKept ==
  /\ renewing' \in [Renewers -> RenewalRuns \cup {None}]
  /\ \A w \in Renewers : renewing'[w] # None =>
       /\ renewing'[w].current # None =>
             CopyOf(renewing'[w].current.id, renewing'[w].current.row)
       /\ \A b \in DOMAIN renewing'[w].rows : CopyOf(b, renewing'[w].rows[b])

(* Lists of renewals that nobody touches still hold copies. *)
LEMMA CopiesStay ==
  ASSUME BudgetsInv, renewing' = renewing
  PROVE  CopiesKept
BY DEF BudgetsInv, BudgetTypes, CopiesHold, CopiesKept

(* What a renewal pass holds. *)
LEMMA RunsAreTyped ==
  ASSUME BudgetsInv, NEW w \in Renewers, renewing[w] # None
  PROVE  /\ renewing[w] \in RenewalRuns
         /\ renewing[w].now \in Nat /\ renewing[w].iteration \in 1 .. 4
         /\ DOMAIN renewing[w].rows \subseteq Budgets
         /\ \A b \in DOMAIN renewing[w].rows :
               renewing[w].rows[b] \in ProperBudgets /\ CopyOf(b, renewing[w].rows[b])
         /\ renewing[w].current # None =>
               /\ renewing[w].current \in [id : Budgets, row : ProperBudgets]
               /\ renewing[w].current.id \in Budgets
               /\ renewing[w].current.row \in ProperBudgets
               /\ CopyOf(renewing[w].current.id, renewing[w].current.row)
<1>1. renewing[w] \in RenewalRuns
  BY DEF BudgetsInv, BudgetTypes
<1>2. /\ renewing[w].now \in Nat /\ renewing[w].iteration \in 1 .. 4
      /\ renewing[w].current \in {None} \cup [id : Budgets, row : ProperBudgets]
      /\ DOMAIN renewing[w].rows \subseteq Budgets
      /\ \A b \in DOMAIN renewing[w].rows : renewing[w].rows[b] \in ProperBudgets
  BY <1>1 DEF RenewalRuns
<1> QED
  BY <1>1, <1>2 DEF BudgetsInv, CopiesHold

(* One worker's run is replaced. *)
LEMMA RunReplaced ==
  ASSUME BudgetsInv, NEW w \in Renewers, NEW run \in RenewalRuns \cup {None},
         renewing' = [renewing EXCEPT ![w] = run],
         run # None =>
            /\ run.current # None => CopyOf(run.current.id, run.current.row)
            /\ \A b \in DOMAIN run.rows : CopyOf(b, run.rows[b])
  PROVE  CopiesKept
<1>1. /\ renewing' \in [Renewers -> RenewalRuns \cup {None}]
      /\ renewing'[w] = run /\ \A v \in Renewers : v # w => renewing'[v] = renewing[v]
  BY DEF BudgetsInv, BudgetTypes
<1>2. ASSUME NEW v \in Renewers, renewing'[v] # None
      PROVE  /\ renewing'[v].current # None =>
                   CopyOf(renewing'[v].current.id, renewing'[v].current.row)
             /\ \A b \in DOMAIN renewing'[v].rows : CopyOf(b, renewing'[v].rows[b])
  <2>1. CASE v = w
    BY <1>1, <1>2, <2>1
  <2>2. CASE v # w
    BY <1>1, <1>2, <2>2 DEF BudgetsInv, CopiesHold
  <2> QED
    BY <2>1, <2>2
<1> QED
  BY <1>1, <1>2 DEF CopiesKept

(* Rows change, none is added: those that nobody edits keep their dates. *)
LEMMA BudgetsChange ==
  ASSUME BudgetsInv, budget' \in [Budgets -> ProperBudgets \cup {None}],
         changes' \in Nat, changes <= changes', edited \subseteq edited',
         B!Unique(budget'), CopiesKept,
         \A x \in Budgets : budget[x] = None <=> budget'[x] = None,
         \A x \in Budgets : budget[x] # None =>
            budget'[x].parent = budget[x].parent /\ budget'[x].group <= changes',
         \A x \in Budgets : budget[x] # None /\ x \notin edited' =>
            /\ budget'[x].start = budget[x].start /\ budget'[x].end = budget[x].end
            /\ budget'[x].group = budget[x].group
  PROVE  BudgetsInv'
<1>1. BudgetTypes'
  BY DEF BudgetsInv, BudgetTypes, CopiesKept, RenewalRuns, ProperBudgets
<1>2. Grouped'
  <2>1. ASSUME NEW x \in Budgets, budget'[x] # None
        PROVE  /\ budget'[x].group <= changes'
               /\ budget'[x].parent # None => budget'[budget'[x].parent] # None
    <3>1. budget[x] # None /\ budget[x].parent \in Budgets \cup {None}
      BY <2>1, BudgetFields DEF BudgetsInv, BudgetTypes
    <3> QED
      BY <3>1 DEF BudgetsInv, Grouped
  <2> QED
    BY <2>1 DEF Grouped
<1>3. CopiesHold'
  <2>1. ASSUME NEW b \in Budgets, NEW row \in ProperBudgets, CopyOf(b, row)
        PROVE  CopyOf(b, row)'
    <3>1. row.group \in Nat /\ changes \in Nat
      BY BudgetFields DEF BudgetsInv, BudgetTypes
    <3>2. row.group <= changes'
      BY <2>1, <3>1 DEF CopyOf
    <3> QED
      BY <2>1, <3>2 DEF CopyOf
  <2>2. \A b \in Budgets, row \in ProperBudgets : CopyOf(b, row) =>
           /\ budget'[b] # None /\ row.group # 0 /\ row.group <= changes'
           /\ b \notin edited' => row.end = budget'[b].end /\ row.group = budget'[b].group
    BY <2>1 DEF CopyOf
  <2>3. ASSUME NEW w \in Renewers, renewing'[w] # None, renewing'[w].current # None
        PROVE  CopyOf(renewing[w].current.id, renewing[w].current.row)'
    <3>1. PICK run \in RenewalRuns : run = renewing'[w]
      BY <2>3 DEF CopiesKept
    <3>2. run.current \in [id : Budgets, row : ProperBudgets]
      BY <2>3, <3>1 DEF RenewalRuns
    <3>3. PICK b \in Budgets, row \in ProperBudgets : b = run.current.id /\ row = run.current.row
      BY <3>2
    <3>4. CopyOf(b, row)
      BY <2>3, <3>1, <3>3 DEF CopiesKept
    <3> QED
      BY <2>2, <3>1, <3>3, <3>4 DEF CopyOf
  <2>4. ASSUME NEW w \in Renewers, renewing'[w] # None, NEW b \in DOMAIN renewing'[w].rows
        PROVE  b \in Budgets /\ CopyOf(b, renewing[w].rows[b])'
    <3>1. PICK run \in RenewalRuns : run = renewing'[w]
      BY <2>4 DEF CopiesKept
    <3>2. b \in Budgets /\ run.rows[b] \in ProperBudgets
      BY <2>4, <3>1 DEF RenewalRuns
    <3>3. PICK row \in ProperBudgets : row = run.rows[b]
      BY <3>2
    <3>4. CopyOf(b, row)
      BY <2>4, <3>1, <3>3 DEF CopiesKept
    <3> QED
      BY <2>2, <3>1, <3>2, <3>3, <3>4 DEF CopyOf
  <2> QED
    BY <2>3, <2>4 DEF CopiesHold
<1>4. ChildrenFollow'
  <2>1. SUFFICES ASSUME NEW c \in Budgets, NEW p \in Budgets,
                        budget'[c] # None, c \notin edited', budget'[c].parent = p,
                        p # None, budget'[p] # None, p \notin edited'
                 PROVE  Follows(c, p)'
    BY DEF ChildrenFollow
  <2>2. /\ budget[c] # None /\ c \notin edited /\ budget[c].parent = p
        /\ budget[p] # None /\ p \notin edited
    BY <2>1
  <2>3. Follows(c, p)
    BY <2>1, <2>2 DEF BudgetsInv, ChildrenFollow
  <2> QED
    BY <2>1, <2>2, <2>3 DEF Follows
<1>5. B!Unique(budget)'
  BY DEF B!Unique
<1> QED
  BY <1>1, <1>2, <1>3, <1>4, <1>5 DEF BudgetsInv

(* A row changes but for its dates, its group and its parent. *)
LEMMA BudgetTouched ==
  ASSUME BudgetsInv, NEW b \in Budgets, budget[b] # None, NEW row \in ProperBudgets,
         budget' = [budget EXCEPT ![b] = row],
         row.start = budget[b].start, row.end = budget[b].end,
         row.group = budget[b].group, row.parent = budget[b].parent,
         changes' \in Nat, changes <= changes', edited' = edited, CopiesKept
  PROVE  BudgetsInv'
<1>1. /\ budget' \in [Budgets -> ProperBudgets \cup {None}]
      /\ budget'[b] = row /\ \A x \in Budgets : x # b => budget'[x] = budget[x]
  BY DEF BudgetsInv, BudgetTypes
<1>2. \A x \in Budgets : /\ budget[x] = None <=> budget'[x] = None
                         /\ budget[x] # None =>
                              /\ budget'[x].start = budget[x].start
                              /\ budget'[x].end = budget[x].end
                              /\ budget'[x].group = budget[x].group
                              /\ budget'[x].parent = budget[x].parent
  BY <1>1, BudgetFields
<1>3. B!Unique(budget')
  BY <1>2 DEF BudgetsInv, B!Unique, B!IsRecurring
<1>4. ASSUME NEW x \in Budgets, budget[x] # None
      PROVE  budget'[x].group <= changes'
  <2>1. budget[x].group \in Nat /\ budget[x].group <= changes /\ changes \in Nat
    BY <1>4, BudgetFields DEF BudgetsInv, BudgetTypes, Grouped
  <2> QED
    BY <1>2, <1>4, <2>1
<1> QED
  BY <1>1, <1>2, <1>3, <1>4, BudgetsChange

(* A step that writes no budget keeps what is known of them. *)
LEMMA BudgetsStay ==
  ASSUME BudgetsInv, UNCHANGED <<budget, edited>>, changes' \in Nat, changes <= changes',
         CopiesKept
  PROVE  BudgetsInv'
<1>1. /\ budget' \in [Budgets -> ProperBudgets \cup {None}] /\ B!Unique(budget')
  BY DEF BudgetsInv, BudgetTypes, B!Unique
<1>2. ASSUME NEW x \in Budgets, budget[x] # None
      PROVE  budget'[x].group <= changes'
  <2>1. budget[x].group \in Nat /\ budget[x].group <= changes /\ changes \in Nat
    BY <1>2, BudgetFields DEF BudgetsInv, BudgetTypes, Grouped
  <2> QED
    BY <2>1
<1> QED
  BY <1>1, <1>2, BudgetsChange


(* The other rows keep what makes them periods of a series. *)
OthersStay(c) ==
  \A x \in Budgets : x # c =>
    /\ budget[x] = None <=> budget'[x] = None
    /\ budget[x] # None => /\ budget'[x].start = budget[x].start
                           /\ budget'[x].end = budget[x].end
                           /\ budget'[x].group = budget[x].group
                           /\ budget'[x].parent = budget[x].parent

(* One worker may go on with the row that is added. *)
CopiesKeptOr(c, row) ==
  /\ renewing' \in [Renewers -> RenewalRuns \cup {None}]
  /\ \A w \in Renewers : renewing'[w] # None =>
       /\ renewing'[w].current # None =>
             \/ CopyOf(renewing'[w].current.id, renewing'[w].current.row)
             \/ renewing'[w].current.id = c /\ renewing'[w].current.row = row /\ row.group # 0
       /\ \A b \in DOMAIN renewing'[w].rows : CopyOf(b, renewing'[w].rows[b])

(* A row is added: its group is one of a request, and it follows its parent. *)
LEMMA BudgetAdded ==
  ASSUME BudgetsInv, NEW c \in Budgets, budget[c] = None, NEW row \in ProperBudgets,
         budget' \in [Budgets -> ProperBudgets \cup {None}], budget'[c] = row, OthersStay(c),
         B!Unique(budget'), row.group <= changes', changes' \in Nat, changes <= changes',
         row.parent # None =>
            /\ budget[row.parent] # None
            /\ row.parent \notin edited =>
                  /\ row.start = budget[row.parent].end + 1
                  /\ row.group = budget[row.parent].group /\ row.group # 0,
         edited' = edited, CopiesKeptOr(c, row)
  PROVE  BudgetsInv'
<1> USE DEF OthersStay, CopiesKeptOr
<1>1. BudgetTypes'
  BY DEF BudgetTypes, RenewalRuns, ProperBudgets
<1>2. row # None /\ row.parent \in Budgets \cup {None}
  BY BudgetFields
<1>3. Grouped'
  <2>1. ASSUME NEW x \in Budgets, budget'[x] # None
        PROVE  /\ budget'[x].group <= changes'
               /\ budget'[x].parent # None => budget'[budget'[x].parent] # None
    <3>1. CASE x = c
      BY <1>2, <2>1, <3>1
    <3>2. CASE x # c
      <4>1. budget[x] # None /\ budget[x].parent \in Budgets \cup {None} /\ budget[x].group \in Nat
        BY <2>1, <3>2, BudgetFields DEF BudgetsInv, BudgetTypes
      <4>2. budget[x].group <= changes /\ changes \in Nat
        BY <4>1 DEF BudgetsInv, BudgetTypes, Grouped
      <4>3. budget'[x].group <= changes'
        BY <3>2, <4>1, <4>2
      <4>4. ASSUME budget[x].parent # None PROVE budget'[budget[x].parent] # None
        <5>1. budget[x].parent \in Budgets /\ budget[budget[x].parent] # None
          BY <4>1, <4>4 DEF BudgetsInv, Grouped
        <5> QED
          BY <1>2, <5>1
      <4> QED
        BY <3>2, <4>1, <4>3, <4>4
    <3> QED
      BY <3>1, <3>2
  <2> QED
    BY <2>1 DEF Grouped
<1>4. CopiesHold'
  <2>1. ASSUME NEW b \in Budgets, NEW copy \in ProperBudgets, CopyOf(b, copy)
        PROVE  /\ budget'[b] # None /\ copy.group # 0 /\ copy.group <= changes'
               /\ b \notin edited' => copy.end = budget'[b].end /\ copy.group = budget'[b].group
    <3>1. copy.group \in Nat /\ changes \in Nat /\ b # c
      BY <2>1, BudgetFields DEF BudgetsInv, BudgetTypes, CopyOf
    <3>2. copy.group <= changes'
      BY <2>1, <3>1 DEF CopyOf
    <3> QED
      BY <2>1, <3>1, <3>2 DEF CopyOf
  <2>2. \A b \in Budgets, copy \in ProperBudgets : CopyOf(b, copy) =>
           /\ budget'[b] # None /\ copy.group # 0 /\ copy.group <= changes'
           /\ b \notin edited' => copy.end = budget'[b].end /\ copy.group = budget'[b].group
    BY <2>1
  <2>3. ASSUME NEW w \in Renewers, renewing'[w] # None, renewing'[w].current # None
        PROVE  CopyOf(renewing[w].current.id, renewing[w].current.row)'
    <3>1. PICK run \in RenewalRuns : run = renewing'[w]
      BY <2>3
    <3>2. run.current \in [id : Budgets, row : ProperBudgets]
      BY <2>3, <3>1 DEF RenewalRuns
    <3>3. PICK b \in Budgets, copy \in ProperBudgets : b = run.current.id /\ copy = run.current.row
      BY <3>2
    <3>4. CopyOf(b, copy) \/ (b = c /\ copy = row /\ row.group # 0)
      BY <2>3, <3>1, <3>3
    <3>5. CASE CopyOf(b, copy)
      BY <2>2, <3>1, <3>3, <3>5 DEF CopyOf
    <3>6. CASE b = c /\ copy = row /\ row.group # 0
      BY <1>2, <3>1, <3>3, <3>6 DEF CopyOf
    <3> QED
      BY <3>4, <3>5, <3>6
  <2>4. ASSUME NEW w \in Renewers, renewing'[w] # None, NEW b \in DOMAIN renewing'[w].rows
        PROVE  b \in Budgets /\ CopyOf(b, renewing[w].rows[b])'
    <3>1. PICK run \in RenewalRuns : run = renewing'[w]
      BY <2>4
    <3>2. b \in Budgets /\ run.rows[b] \in ProperBudgets
      BY <2>4, <3>1 DEF RenewalRuns
    <3>3. PICK copy \in ProperBudgets : copy = run.rows[b]
      BY <3>2
    <3>4. CopyOf(b, copy)
      BY <2>4, <3>1, <3>3
    <3> QED
      BY <2>2, <3>1, <3>2, <3>3, <3>4 DEF CopyOf
  <2> QED
    BY <2>3, <2>4 DEF CopiesHold
<1>5. ChildrenFollow'
  <2>1. SUFFICES ASSUME NEW x \in Budgets, NEW p \in Budgets,
                        budget'[x] # None, x \notin edited', budget'[x].parent = p,
                        p # None, budget'[p] # None, p \notin edited'
                 PROVE  Follows(x, p)'
    BY DEF ChildrenFollow
  <2>2. CASE x = c
    <3>1. p # c /\ budget[p] # None
      BY <2>1, <2>2
    <3> QED
      BY <2>1, <2>2, <3>1 DEF Follows
  <2>3. CASE x # c
    <3>1. budget[x] # None /\ x \notin edited /\ budget[x].parent = p /\ p \notin edited
      BY <2>1, <2>3
    <3>2. budget[p] # None /\ p # c
      BY <2>1, <3>1 DEF BudgetsInv, Grouped
    <3>3. Follows(x, p)
      BY <2>1, <3>1, <3>2 DEF BudgetsInv, ChildrenFollow
    <3> QED
      BY <2>1, <2>3, <3>1, <3>2, <3>3 DEF Follows
  <2> QED
    BY <2>2, <2>3
<1>6. B!Unique(budget)'
  BY DEF B!Unique
<1> QED
  BY <1>1, <1>3, <1>4, <1>5, <1>6 DEF BudgetsInv


(* Budgets: one lemma for each action. *)
LEMMA CreateBudgetKeeps ==
  ASSUME BudgetsInv, NEW b \in Budgets, NEW start \in Starts, NEW recurring \in BOOLEAN,
         NEW auto \in BOOLEAN, NEW until \in Untils,
         B!CreateBudget(b, start, recurring, auto, until)
  PROVE  BudgetsInv'
<1>1. changes \in Nat /\ changes' = changes + 1 /\ changes' \in Nat /\ changes <= changes'
      /\ ~(changes' <= changes) /\ changes' # 0
  BY DEF B!CreateBudget, B!ChangeRequest, BudgetsInv, BudgetTypes
<1>2. PICK group \in Nat : group = IF recurring THEN changes' ELSE 0
  BY <1>1
<1>3. PICK renews \in BOOLEAN : renews = (recurring /\ auto)
  OBVIOUS
<1>4. start \in Nat /\ until \in Int
  BY BudgetsAssumption
<1>5. PICK row \in ProperBudgets :
         /\ row = B!Period(start, group, renews, until, None)
         /\ row.group = group /\ row.parent = None
  BY <1>4, PeriodTyped
<1>6. budget[b] = None /\ budget' = [budget EXCEPT ![b] = row] /\ edited' = edited
      /\ renewing' = renewing
  BY <1>2, <1>3, <1>5 DEF B!CreateBudget, B!Quiet
<1>7. /\ budget' \in [Budgets -> ProperBudgets \cup {None}]
      /\ budget'[b] = row /\ \A x \in Budgets : x # b => budget'[x] = budget[x]
  BY <1>6 DEF BudgetsInv, BudgetTypes
<1>8. \A x \in Budgets : budget[x] # None => budget[x].group # changes'
  BY <1>1 DEF BudgetsInv, Grouped
<1>9. B!Unique(budget')
  <2>1. SUFFICES ASSUME NEW x \in Budgets, NEW y \in Budgets, budget'[x] # None,
                        budget'[y] # None, x # y, budget'[x].group = budget'[y].group,
                        budget'[x].start = budget'[y].start, budget'[x].group # 0
                 PROVE  FALSE
    BY DEF B!Unique, B!IsRecurring
  <2>2. CASE x = b
    BY <1>2, <1>5, <1>7, <1>8, <2>1, <2>2
  <2>3. CASE y = b
    BY <1>2, <1>5, <1>7, <1>8, <2>1, <2>3
  <2>4. CASE x # b /\ y # b
    BY <1>7, <2>1, <2>4 DEF BudgetsInv, B!Unique, B!IsRecurring
  <2> QED
    BY <2>2, <2>3, <2>4
<1>10. row.group <= changes'
  BY <1>1, <1>2, <1>5
<1>11. CopiesKept
  BY <1>6, CopiesStay
<1>12. OthersStay(b)
  BY <1>7 DEF OthersStay
<1>13. CopiesKeptOr(b, row)
  BY <1>11 DEF CopiesKept, CopiesKeptOr
<1> QED
  BY <1>1, <1>5, <1>6, <1>7, <1>9, <1>10, <1>12, <1>13, BudgetAdded

LEMMA UpdateBudgetKeeps ==
  ASSUME BudgetsInv, NEW b \in Budgets, NEW start \in Starts, NEW recurring \in BOOLEAN,
         NEW auto \in BOOLEAN, NEW until \in Untils,
         B!UpdateBudget(b, start, recurring, auto, until)
  PROVE  BudgetsInv'
<1>1. changes \in Nat /\ changes' = changes + 1 /\ changes' \in Nat /\ changes <= changes'
  BY DEF B!UpdateBudget, B!ChangeRequest, BudgetsInv, BudgetTypes
<1>2. PICK old \in ProperBudgets : old = budget[b] /\ budget[b] # None
  BY DEF B!UpdateBudget, BudgetsInv, BudgetTypes
<1>3. old.group \in Nat /\ old.group <= changes /\ old.parent \in Budgets \cup {None}
      /\ old.renewed \in BOOLEAN
  BY <1>2, BudgetFields DEF BudgetsInv, Grouped
<1>4. PICK group \in Nat :
         /\ group = IF ~recurring THEN 0
                    ELSE IF B!IsRecurring(old) THEN old.group ELSE changes'
         /\ group <= changes'
  BY <1>1, <1>3
<1>5. PICK renews \in BOOLEAN : renews = (recurring /\ auto)
  OBVIOUS
<1>6. start \in Nat /\ until \in Int
  BY BudgetsAssumption
<1>7. PICK period \in ProperBudgets :
         /\ period = B!Period(start, group, renews, until, old.parent)
         /\ period.group = group /\ period.parent = old.parent
  BY <1>3, <1>6, PeriodTyped
<1> DEFINE row == [period EXCEPT !.renewed = old.renewed]
<1>8. row \in ProperBudgets /\ row.group = group /\ row.parent = old.parent
  BY <1>3, <1>7 DEF ProperBudgets
<1>9. /\ budget' = [budget EXCEPT ![b] = row]
      /\ B!Unique(budget') /\ edited' = edited \cup {b} /\ renewing' = renewing
  BY <1>2, <1>4, <1>5, <1>7 DEF B!UpdateBudget, B!Quiet
<1> HIDE DEF row
<1>10. /\ budget' \in [Budgets -> ProperBudgets \cup {None}]
       /\ budget'[b] = row /\ \A x \in Budgets : x # b => budget'[x] = budget[x]
  BY <1>8, <1>9 DEF BudgetsInv, BudgetTypes
<1>11. \A x \in Budgets : budget[x] = None <=> budget'[x] = None
  BY <1>2, <1>8, <1>10, BudgetFields
<1>12. ASSUME NEW x \in Budgets, budget[x] # None
       PROVE  budget'[x].parent = budget[x].parent /\ budget'[x].group <= changes'
  <2>1. budget[x].group \in Nat /\ budget[x].group <= changes
    BY <1>12, BudgetFields DEF BudgetsInv, BudgetTypes, Grouped
  <2> QED
    BY <1>1, <1>2, <1>4, <1>8, <1>10, <2>1
<1>13. CopiesKept
  BY <1>9, CopiesStay
<1>14. \A x \in Budgets : budget[x] # None /\ x \notin edited' =>
            /\ budget'[x].start = budget[x].start /\ budget'[x].end = budget[x].end
            /\ budget'[x].group = budget[x].group
  BY <1>9, <1>10
<1>15. edited \subseteq edited'
  BY <1>9
<1> QED
  BY <1>1, <1>9, <1>10, <1>11, <1>12, <1>13, <1>14, <1>15, BudgetsChange

(* The switches of a row. *)
LEMMA SwitchedRow ==
  ASSUME BudgetsInv, NEW b \in Budgets, budget[b] # None, NEW on \in BOOLEAN,
         \/ budget' = [budget EXCEPT ![b].autoRenew = on]
         \/ budget' = [budget EXCEPT ![b].isArchived = on],
         changes' \in Nat, changes <= changes', edited' = edited, CopiesKept
  PROVE  BudgetsInv'
<1>1. PICK old \in ProperBudgets : old = budget[b]
  BY DEF BudgetsInv, BudgetTypes
<1>2. CASE budget' = [budget EXCEPT ![b].autoRenew = on]
  <2> DEFINE row == [old EXCEPT !.autoRenew = on]
  <2>1. row \in ProperBudgets /\ row.start = old.start /\ row.end = old.end
        /\ row.group = old.group /\ row.parent = old.parent
    BY DEF ProperBudgets
  <2>2. budget' = [budget EXCEPT ![b] = row]
    BY <1>1, <1>2 DEF BudgetsInv, BudgetTypes
  <2> HIDE DEF row
  <2> QED
    BY <1>1, <2>1, <2>2, BudgetTouched
<1>3. CASE budget' = [budget EXCEPT ![b].isArchived = on]
  <2> DEFINE row == [old EXCEPT !.isArchived = on]
  <2>1. row \in ProperBudgets /\ row.start = old.start /\ row.end = old.end
        /\ row.group = old.group /\ row.parent = old.parent
    BY DEF ProperBudgets
  <2>2. budget' = [budget EXCEPT ![b] = row]
    BY <1>1, <1>3 DEF BudgetsInv, BudgetTypes
  <2> HIDE DEF row
  <2> QED
    BY <1>1, <2>1, <2>2, BudgetTouched
<1> QED
  BY <1>2, <1>3

LEMMA ToggleAutoRenewKeeps ==
  ASSUME BudgetsInv, NEW b \in Budgets, B!ToggleAutoRenew(b)
  PROVE  BudgetsInv'
<1>1. changes' \in Nat /\ changes <= changes' /\ edited' = edited /\ renewing' = renewing
      /\ budget[b] # None
  BY DEF B!ToggleAutoRenew, B!ChangeRequest, B!Quiet, BudgetsInv, BudgetTypes
<1>2. PICK on \in BOOLEAN : on = ~budget[b].autoRenew
  OBVIOUS
<1>3. budget' = [budget EXCEPT ![b].autoRenew = on]
  BY <1>2 DEF B!ToggleAutoRenew
<1> QED
  BY <1>1, <1>3, CopiesStay, SwitchedRow

LEMMA ArchiveBudgetKeeps ==
  ASSUME BudgetsInv, NEW b \in Budgets, B!ArchiveBudget(b)
  PROVE  BudgetsInv'
<1>1. changes' \in Nat /\ changes <= changes' /\ edited' = edited /\ renewing' = renewing
      /\ budget[b] # None
  BY DEF B!ArchiveBudget, B!ChangeRequest, B!Quiet, BudgetsInv, BudgetTypes
<1>2. budget' = [budget EXCEPT ![b].isArchived = TRUE]
  BY DEF B!ArchiveBudget
<1> QED
  BY <1>1, <1>2, CopiesStay, SwitchedRow

LEMMA RestoreBudgetKeeps ==
  ASSUME BudgetsInv, NEW b \in Budgets, B!RestoreBudget(b)
  PROVE  BudgetsInv'
<1>1. changes' \in Nat /\ changes <= changes' /\ edited' = edited /\ renewing' = renewing
      /\ budget[b] # None
  BY DEF B!RestoreBudget, B!ChangeRequest, B!Quiet, BudgetsInv, BudgetTypes
<1>2. budget' = [budget EXCEPT ![b].isArchived = FALSE]
  BY DEF B!RestoreBudget
<1> QED
  BY <1>1, <1>2, CopiesStay, SwitchedRow

LEMMA ToggleCategoryKeeps ==
  ASSUME BudgetsInv, B!ToggleCategory
  PROVE  BudgetsInv'
<1>1. changes' \in Nat /\ changes <= changes' /\ UNCHANGED <<budget, edited, renewing>>
  BY DEF B!ToggleCategory, B!ChangeRequest, B!Quiet, BudgetsInv, BudgetTypes
<1> QED
  BY <1>1, CopiesStay, BudgetsStay

-----------------------------------------------------------------------------
(* The worker. *)

LEMMA ListRenewalsKeeps ==
  ASSUME BudgetsInv, today \in Nat, NEW w \in Renewers, B!ListRenewals(w)
  PROVE  BudgetsInv'
<1>1. PICK due \in SUBSET Budgets : due = {b \in Budgets : B!DueForRenewal(b)}
  OBVIOUS
<1>2. \A b \in due : budget[b] \in ProperBudgets /\ CopyOf(b, budget[b])
  BY <1>1 DEF B!DueForRenewal, B!IsRecurring, CopyOf, BudgetsInv, BudgetTypes, Grouped
<1> DEFINE rows == [b \in due |-> budget[b]]
<1>3. rows \in [due -> ProperBudgets] /\ DOMAIN rows = due /\ \A b \in due : CopyOf(b, rows[b])
  BY <1>2
<1>4. rows = [b \in due |-> budget[b]]
  OBVIOUS
<1> HIDE DEF rows
<1> DEFINE run == [now |-> today, iteration |-> 1, current |-> None, rows |-> rows]
<1>5. run \in RenewalRuns /\ run.current = None /\ run.rows = rows
  BY <1>3 DEF RenewalRuns
<1>6. renewing' = [renewing EXCEPT ![w] = run]
  BY <1>1, <1>4 DEF B!ListRenewals
<1>7. UNCHANGED <<budget, changes, edited>>
  BY DEF B!ListRenewals
<1> HIDE DEF run
<1>8. CopiesKept
  BY <1>3, <1>5, <1>6, RunReplaced
<1> QED
  BY <1>7, <1>8, BudgetsStay DEF BudgetsInv, BudgetTypes

(* The period that ends first is taken from the list. *)
LEMMA TakeParentKeeps ==
  ASSUME BudgetsInv, NEW w \in Renewers, B!TakeParent(w)
  PROVE  BudgetsInv'
<1>1. PICK run \in RenewalRuns : run = renewing[w] /\ run # None
  BY RunsAreTyped DEF B!TakeParent
<1>2. /\ DOMAIN run.rows \subseteq Budgets
      /\ \A b \in DOMAIN run.rows : run.rows[b] \in ProperBudgets /\ CopyOf(b, run.rows[b])
  BY <1>1, RunsAreTyped
<1>3. renewing' = [renewing EXCEPT ![w] = B!NextParent(run)]
  BY <1>1 DEF B!TakeParent
<1>4. PICK next \in RenewalRuns \cup {None} :
         /\ next = B!NextParent(run)
         /\ next # None =>
              /\ next.current # None => CopyOf(next.current.id, next.current.row)
              /\ \A b \in DOMAIN next.rows : CopyOf(b, next.rows[b])
  <2>1. CASE DOMAIN run.rows = {}
    BY <2>1 DEF B!NextParent
  <2>2. CASE DOMAIN run.rows # {}
    <3> DEFINE Soonest(x) == /\ x \in DOMAIN run.rows
                             /\ \A y \in DOMAIN run.rows : run.rows[x].end <= run.rows[y].end
    <3>1. \E x : Soonest(x)
      <4> DEFINE ends == {run.rows[y].end : y \in DOMAIN run.rows}
      <4>1. ends \in SUBSET Nat /\ ends # {}
        BY <1>2, <2>2, BudgetFields
      <4>2. PICK n \in ends : \A m \in ends : n <= m
        <5> HIDE DEF ends
        <5> QED
          BY <4>1, SmallestNumber
      <4> QED
        BY <4>2
    <3>2. PICK b \in DOMAIN run.rows :
             b = CHOOSE x \in DOMAIN run.rows :
                    \A y \in DOMAIN run.rows : run.rows[x].end <= run.rows[y].end
      BY <3>1
    <3>3. PICK rest : rest = DOMAIN run.rows \ {b}
      OBVIOUS
    <3> DEFINE rows == [y \in rest |-> run.rows[y]]
               current == [id |-> b, row |-> run.rows[b]]
    <3>4. /\ rows \in [rest -> ProperBudgets] /\ rest \in SUBSET Budgets
          /\ DOMAIN rows = rest /\ \A y \in rest : CopyOf(y, rows[y])
      BY <1>2, <3>3
    <3>5. /\ current \in [id : Budgets, row : ProperBudgets]
          /\ CopyOf(current.id, current.row)
      BY <1>2, <3>2 DEF CopyOf
    <3>6. B!NextParent(run)
           = [now |-> run.now, iteration |-> 1, current |-> current, rows |-> rows]
      BY <2>2, <3>2, <3>3 DEF B!NextParent
    <3> HIDE DEF rows, current
    <3> DEFINE next == [now |-> run.now, iteration |-> 1, current |-> current, rows |-> rows]
    <3>7. next \in RenewalRuns /\ next.current = current /\ next.rows = rows
      <4>1. rows \in UNION {[D -> ProperBudgets] : D \in SUBSET Budgets}
        BY <3>4
      <4> QED
        BY <3>5, <4>1 DEF RenewalRuns
    <3> HIDE DEF next
    <3>8. next = B!NextParent(run)
      BY <3>6 DEF next
    <3> QED
      BY <3>4, <3>5, <3>7, <3>8
  <2> QED
    BY <2>1, <2>2
<1>5. renewing' = [renewing EXCEPT ![w] = next]
  BY <1>3, <1>4
<1>6. CopiesKept
  BY <1>4, <1>5, RunReplaced
<1>7. UNCHANGED <<budget, changes, edited>>
  BY DEF B!TakeParent
<1> QED
  BY <1>6, <1>7, BudgetsStay DEF BudgetsInv, BudgetTypes

LEMMA ParentLeft ==
  ASSUME BudgetsInv, NEW w \in Renewers, renewing[w] # None, B!LeaveParent(w)
  PROVE  CopiesKept
<1>1. PICK run \in RenewalRuns : run = renewing[w]
  BY RunsAreTyped
<1>2. \A b \in DOMAIN run.rows : CopyOf(b, run.rows[b])
  BY <1>1, RunsAreTyped
<1> DEFINE left == [run EXCEPT !.current = None]
<1>3. left \in RenewalRuns /\ left.current = None /\ left.rows = run.rows
  BY DEF RenewalRuns
<1>4. renewing' = [renewing EXCEPT ![w] = left]
  BY <1>1 DEF B!LeaveParent, BudgetsInv, BudgetTypes
<1> HIDE DEF left
<1> QED
  BY <1>2, <1>3, <1>4, RunReplaced

LEMMA StopRenewingKeeps ==
  ASSUME BudgetsInv, NEW w \in Renewers, B!StopRenewing(w)
  PROVE  BudgetsInv'
<1>1. CopiesKept /\ UNCHANGED <<budget, changes, edited>>
  BY ParentLeft DEF B!StopRenewing
<1> QED
  BY <1>1, BudgetsStay DEF BudgetsInv, BudgetTypes

LEMMA SuspendRenewalKeeps ==
  ASSUME BudgetsInv, NEW w \in Renewers, B!SuspendRenewal(w)
  PROVE  BudgetsInv'
<1>1. CopiesKept /\ UNCHANGED <<changes, edited>> /\ renewing[w] # None
      /\ renewing[w].current # None
  BY ParentLeft DEF B!SuspendRenewal
<1>2. PICK b \in Budgets : b = renewing[w].current.id /\ budget[b] # None
  BY <1>1, RunsAreTyped DEF CopyOf
<1>3. budget' = [budget EXCEPT ![b].autoRenew = FALSE]
  BY <1>2 DEF B!SuspendRenewal
<1>4. changes' \in Nat /\ changes <= changes' /\ edited' = edited
  BY <1>1 DEF BudgetsInv, BudgetTypes
<1> QED
  BY <1>1, <1>2, <1>3, <1>4, SwitchedRow

LEMMA RenewalCrashKeeps ==
  ASSUME BudgetsInv, NEW w \in Renewers, B!RenewalCrash(w)
  PROVE  BudgetsInv'
<1>1. PICK run \in RenewalRuns \cup {None} : run = None
  OBVIOUS
<1>2. renewing' = [renewing EXCEPT ![w] = run] /\ UNCHANGED <<budget, changes, edited>>
  BY <1>1 DEF B!RenewalCrash
<1>3. CopiesKept
  BY <1>1, <1>2, RunReplaced
<1> QED
  BY <1>2, <1>3, BudgetsStay DEF BudgetsInv, BudgetTypes


LEMMA RenewKeeps ==
  ASSUME BudgetsInv, NEW w \in Renewers, B!Renew(w)
  PROVE  BudgetsInv'
<1>1. PICK run \in RenewalRuns : /\ run = renewing[w] /\ run # None /\ run.current # None
                                 /\ run.iteration \in 1 .. 3
  <2>1. renewing[w] # None /\ renewing[w].current # None /\ B!Renews(renewing[w])
    BY DEF B!Renew
  <2> QED
    BY <2>1, RunsAreTyped DEF B!Renews
<1>2. PICK parent \in Budgets, row \in ProperBudgets :
         parent = run.current.id /\ row = run.current.row /\ CopyOf(parent, row)
  BY <1>1, RunsAreTyped
<1>3. /\ row.end \in Nat /\ row.group \in Nat /\ row.until \in Int
      /\ row.group # 0 /\ row.group <= changes /\ changes \in Nat
  BY <1>2, BudgetFields DEF CopyOf, BudgetsInv, BudgetTypes
<1>4. PICK child \in ProperBudgets : /\ child = B!Child(row, parent) /\ child.start = row.end + 1
                                     /\ child.group = row.group /\ child.parent = parent
  <2>1. PICK start \in Nat : start = B!AddDays(row.end, 1) /\ start = row.end + 1
    BY <1>3 DEF B!AddDays
  <2>2. PICK yes \in BOOLEAN : yes = TRUE
    OBVIOUS
  <2>3. B!Child(row, parent) = B!Period(start, row.group, yes, row.until, parent)
    BY <2>1, <2>2 DEF B!Child
  <2> QED
    BY <1>3, <2>1, <2>3, PeriodTyped
<1>5. PICK old \in ProperBudgets : old = budget[parent] /\ budget[parent] # None
  BY <1>2 DEF CopyOf, BudgetsInv, BudgetTypes
<1>6. UNCHANGED <<changes, edited>>
  BY DEF B!Renew
<1>7. ASSUME NEW c \in Budgets, budget[c] = None,
             budget' = [budget EXCEPT ![parent].renewed = TRUE, ![c] = child],
             B!Unique(budget'),
             renewing' = [renewing EXCEPT ![w].iteration = @ + 1,
                                          ![w].current = [id |-> c, row |-> child]]
      PROVE  BudgetsInv'
  <2> DEFINE marked == [old EXCEPT !.renewed = TRUE]
             rows == [budget EXCEPT ![parent] = marked]
  <2>1. marked \in ProperBudgets /\ marked.start = old.start /\ marked.end = old.end
        /\ marked.group = old.group /\ marked.parent = old.parent
    BY DEF ProperBudgets
  <2>2. c # parent
    BY <1>5, <1>7
  <2>3. budget' = [rows EXCEPT ![c] = child]
    BY <1>5, <1>7 DEF BudgetsInv, BudgetTypes
  <2> HIDE DEF marked
  <2>4. /\ rows \in [Budgets -> ProperBudgets \cup {None}]
        /\ rows[parent] = marked /\ \A x \in Budgets : x # parent => rows[x] = budget[x]
    BY <2>1 DEF BudgetsInv, BudgetTypes
  <2> HIDE DEF rows
  <2>5. /\ budget' \in [Budgets -> ProperBudgets \cup {None}] /\ budget'[c] = child
        /\ \A x \in Budgets : x # c => budget'[x] = rows[x]
    BY <2>3, <2>4
  <2>6. \A x \in Budgets : x # c =>
            /\ budget[x] = None <=> budget'[x] = None
            /\ budget[x] # None => /\ budget'[x].start = budget[x].start
                                   /\ budget'[x].end = budget[x].end
                                   /\ budget'[x].group = budget[x].group
                                   /\ budget'[x].parent = budget[x].parent
    BY <1>5, <2>1, <2>4, <2>5, BudgetFields
  <2>7. child.parent # None =>
            /\ budget[child.parent] # None
            /\ child.parent \notin edited =>
                  /\ child.start = budget[child.parent].end + 1
                  /\ child.group = budget[child.parent].group /\ child.group # 0
    BY <1>2, <1>3, <1>4 DEF CopyOf
  <2> DEFINE now == [id |-> c, row |-> child]
             counted == [run EXCEPT !.iteration = @ + 1]
             next == [counted EXCEPT !.current = now]
  <2>8. now \in [id : Budgets, row : ProperBudgets] /\ now.id = c /\ now.row = child
    OBVIOUS
  <2>9. /\ counted \in RenewalRuns /\ counted.rows = run.rows
        /\ counted = [run EXCEPT !.iteration = @ + 1]
    <3>1. run.iteration + 1 \in 1 .. 4
      BY <1>1
    <3> QED
      BY <3>1 DEF RenewalRuns
  <2>10. renewing' = [renewing EXCEPT ![w] = next]
    BY <1>1, <1>7 DEF BudgetsInv, BudgetTypes
  <2> HIDE DEF now, counted
  <2>11. next \in RenewalRuns /\ next.current = now /\ next.rows = run.rows
    BY <2>8, <2>9 DEF RenewalRuns
  <2> HIDE DEF next
  <2>12. /\ renewing' \in [Renewers -> RenewalRuns \cup {None}]
         /\ renewing'[w] = next /\ \A v \in Renewers : v # w => renewing'[v] = renewing[v]
    BY <2>10, <2>11 DEF BudgetsInv, BudgetTypes
  <2>13. \A b \in DOMAIN run.rows : CopyOf(b, run.rows[b])
    BY <1>1, RunsAreTyped
  <2>14. ASSUME NEW v \in Renewers, renewing'[v] # None
         PROVE  /\ renewing'[v].current # None =>
                     \/ CopyOf(renewing'[v].current.id, renewing'[v].current.row)
                     \/ /\ renewing'[v].current.id = c /\ renewing'[v].current.row = child
                        /\ child.group # 0
                /\ \A b \in DOMAIN renewing'[v].rows : CopyOf(b, renewing'[v].rows[b])
    <3>1. CASE v = w
      <4>1. renewing'[v].current = now /\ renewing'[v].rows = run.rows
        BY <2>11, <2>12, <3>1
      <4>2. \A b \in DOMAIN renewing'[v].rows : CopyOf(b, renewing'[v].rows[b])
        BY <2>13, <4>1 DEF CopyOf
      <4> QED
        BY <1>3, <1>4, <2>8, <4>1, <4>2
    <3>2. CASE v # w
      BY <2>12, <2>14, <3>2 DEF BudgetsInv, CopiesHold
    <3> QED
      BY <3>1, <3>2
  <2>15. child.group <= changes' /\ changes' \in Nat /\ changes <= changes' /\ edited' = edited
    BY <1>3, <1>4, <1>6
  <2> QED
    <3>1. OthersStay(c)
      BY <2>6 DEF OthersStay
    <3>2. CopiesKeptOr(c, child)
      BY <2>12, <2>14 DEF CopiesKeptOr
    <3> QED
      BY <1>7, <2>5, <2>7, <2>15, <3>1, <3>2, BudgetAdded
<1>8. ASSUME B!LeaveParent(w), UNCHANGED budget
      PROVE  BudgetsInv'
  <2>1. CopiesKept
    BY <1>1, <1>8, ParentLeft
  <2> QED
    BY <1>6, <1>8, <2>1, BudgetsStay DEF BudgetsInv, BudgetTypes
<1>9. \E c \in Budgets :
         /\ budget[c] = None
         /\ \/ /\ budget' = [budget EXCEPT ![parent].renewed = TRUE, ![c] = child]
               /\ B!Unique(budget')
               /\ renewing' = [renewing EXCEPT ![w].iteration = @ + 1,
                                               ![w].current = [id |-> c, row |-> child]]
            \/ B!LeaveParent(w) /\ UNCHANGED budget
  BY <1>1, <1>2, <1>4 DEF B!Renew
<1> QED
  BY <1>7, <1>8, <1>9

LEMMA NextBudgetsKeeps ==
  ASSUME BudgetsInv, today \in Nat, B!NextBudgets
  PROVE  BudgetsInv'
<1>1. ASSUME NEW b \in Budgets, NEW start \in Starts, NEW recurring \in BOOLEAN,
             NEW auto \in BOOLEAN, NEW until \in Untils,
             \/ B!CreateBudget(b, start, recurring, auto, until)
             \/ B!UpdateBudget(b, start, recurring, auto, until)
      PROVE  BudgetsInv'
  BY <1>1, CreateBudgetKeeps, UpdateBudgetKeeps
<1>2. ASSUME NEW b \in Budgets, B!ToggleAutoRenew(b) \/ B!ArchiveBudget(b) \/ B!RestoreBudget(b)
      PROVE  BudgetsInv'
  BY <1>2, ToggleAutoRenewKeeps, ArchiveBudgetKeeps, RestoreBudgetKeeps
<1>3. CASE B!ToggleCategory
  BY <1>3, ToggleCategoryKeeps
<1>4. ASSUME NEW w \in Renewers,
             \/ B!ListRenewals(w) \/ B!TakeParent(w) \/ B!StopRenewing(w)
             \/ B!SuspendRenewal(w) \/ B!Renew(w) \/ B!RenewalCrash(w)
      PROVE  BudgetsInv'
  BY <1>4, ListRenewalsKeeps, TakeParentKeeps, StopRenewingKeeps, SuspendRenewalKeeps,
     RenewKeeps, RenewalCrashKeeps
<1>5. CASE B!NextDay
  <2>1. UNCHANGED <<budget, changes, edited, renewing>>
    BY <1>5 DEF B!NextDay
  <2> QED
    BY <2>1, CopiesStay, BudgetsStay DEF BudgetsInv, BudgetTypes
<1> QED
  BY <1>1, <1>2, <1>3, <1>4, <1>5 DEF B!NextBudgets

(* What the invariant says of the series of periods. *)
LEMMA SeriesFollow ==
  ASSUME BudgetsInv
  PROVE  B!PeriodsFollowOn
<1>1. SUFFICES ASSUME NEW c \in Budgets, budget[c] # None, c \notin edited,
                      budget[c].parent # None, budget[budget[c].parent] # None,
                      budget[c].parent \notin edited
               PROVE  /\ budget[c].start = budget[budget[c].parent].end + 1
                      /\ \A d \in Budgets :
                            (/\ budget[d] # None /\ d \notin edited
                             /\ budget[d].parent = budget[c].parent) => d = c
  BY DEF B!PeriodsFollowOn
<1>2. PICK p \in Budgets : p = budget[c].parent
  BY <1>1, BudgetFields DEF BudgetsInv, BudgetTypes
<1>3. \A d \in Budgets : budget[d] # None /\ d \notin edited /\ budget[d].parent = p => Follows(d, p)
  BY <1>1, <1>2 DEF BudgetsInv, ChildrenFollow
<1>4. \A d \in Budgets : Follows(d, p) /\ Follows(c, p) /\ budget[d] # None => d = c
  BY <1>1 DEF BudgetsInv, B!Unique, B!IsRecurring, Follows
<1> QED
  BY <1>1, <1>2, <1>3, <1>4 DEF Follows

-----------------------------------------------------------------------------
(* The jobs together.                                                      *)

InDay == /\ today \in Nat /\ today \in 0 .. FinalDay
         /\ scene # "renewing" => today \in Days

SchedulingInv == SchedulesInv /\ PostingTyped /\ RemindersInv /\ BudgetsInv /\ InDay

(* The initial states satisfy the invariant, component by component. *)
LEMMA SchedulesBegin ==
  ASSUME InitSchedules
  PROVE  SchedulesInv /\ PostingTyped
<1>1. ScheduleTypes
  BY DEF InitSchedules, ScheduleTypes, Exists
<1>2. PostedOrOvertaken
  BY DEF InitSchedules, PostedOrOvertaken
<1>3. CatchUpLeavesNoGap
  BY DEF InitSchedules, CatchUpLeavesNoGap, Exists
<1>4. PostingTyped
  BY DEF InitSchedules, PostingTyped
<1> QED
  BY <1>1, <1>2, <1>3, <1>4 DEF SchedulesInv

LEMMA RemindersBegin ==
  ASSUME InitReminders, writes = 0
  PROVE  RemindersInv
<1>1. ReminderTypes
  BY DEF InitReminders, ReminderTypes
<1>2. InTime /\ Numbered /\ NotifiedBefore
  BY DEF InitReminders, InTime, Numbered, NotifiedBefore
<1> QED
  BY <1>1, <1>2 DEF RemindersInv

LEMMA BudgetsBegin ==
  ASSUME B!InitBudgets
  PROVE  BudgetsInv
<1>1. BudgetTypes
  BY DEF B!InitBudgets, BudgetTypes
<1>2. B!Unique(budget) /\ Grouped /\ CopiesHold /\ ChildrenFollow
  BY DEF B!InitBudgets, B!Unique, Grouped, CopiesHold, ChildrenFollow
<1> QED
  BY <1>1, <1>2 DEF BudgetsInv

LEMMA BeginsWell == Init => SchedulingInv
<1>1. SUFFICES ASSUME Init PROVE SchedulingInv
  OBVIOUS
<1>2. today = 0
  BY <1>1 DEF Init, B!InitBudgets
<1>3. InDay
  BY <1>2, HorizonAssumption, BudgetsAssumption DEF InDay, Days
<1> QED
  BY <1>1, <1>3, SchedulesBegin, RemindersBegin, BudgetsBegin DEF Init, SchedulingInv

(* What the jobs of another scene leave alone. *)
LEMMA OthersRest ==
  ASSUME SchedulingInv
  PROVE  /\ UNCHANGED scheduleVars => SchedulesInv' /\ PostingTyped'
         /\ UNCHANGED <<budget, renewing, changes, edited>> => BudgetsInv'
<1>1. UNCHANGED scheduleVars => SchedulesInv' /\ PostingTyped'
  BY SchedulesStay DEF SchedulingInv, scheduleVars, PostingTyped
<1>2. UNCHANGED <<budget, renewing, changes, edited>> => BudgetsInv'
  BY CopiesStay, BudgetsStay DEF SchedulingInv, BudgetsInv, BudgetTypes
<1> QED
  BY <1>1, <1>2

(* A request for a schedule also writes its reminder. *)
LEMMA ScheduleRequest ==
  ASSUME SchedulesInv, PostingTyped, RemindersInv, today \in Days, NEW s \in Schedules,
         \/ \E t \in Timings \cup MCReminded, active \in BOOLEAN, days \in Nat \cup {None} :
               Create(s, t, active, days)
         \/ \E t \in Timings \cup MCReminded, days \in Nat \cup {None} : UpdateTiming(s, t, days)
         \/ \E days \in Nat \cup {None} : UpdateOther(s, days)
         \/ Pause(s) \/ Resume(s) \/ Remove(s)
  PROVE  SchedulesInv' /\ PostingTyped' /\ RemindersInv' /\ today' = today
<1>1. today \in Nat /\ writes \in Nat
  BY HorizonAssumption DEF Days, RemindersInv, ReminderTypes
<1>2. CASE \E t \in Timings \cup MCReminded, active \in BOOLEAN, days \in Nat \cup {None} :
              Create(s, t, active, days)
  <2>1. PICK t \in Timings \cup MCReminded, active \in BOOLEAN, days \in Nat \cup {None} :
           Create(s, t, active, days)
    BY <1>2
  <2>2. SchedulesInv'
    BY <1>1, <2>1, CreateKeeps
  <2>3. PICK next \in Dates : next = ResolveFirstRun(t, today)
    BY <1>1, TimingFields, FirstRun
  <2>4. PICK row \in ProperSchedules : row = Scheduled(t, next, active)
    BY TimingFields, ScheduledRow
  <2>5. SyncReminder(s, row, days)
    BY <2>1, <2>3, <2>4 DEF Create
  <2>6. Request /\ UNCHANGED <<today, notified, editor, batch, stale, posting>>
    BY <2>1 DEF Create, OnlySchedule
  <2>7. RemindersInv'
    BY <1>1, <2>5, <2>6, SyncKeeps
  <2> QED
    BY <2>2, <2>6, <2>7 DEF PostingTyped
<1>3. CASE \E t \in Timings \cup MCReminded, days \in Nat \cup {None} : UpdateTiming(s, t, days)
  <2>1. PICK t \in Timings \cup MCReminded, days \in Nat \cup {None} : UpdateTiming(s, t, days)
    BY <1>3
  <2>2. SchedulesInv'
    BY <1>1, <2>1, UpdateTimingKeeps
  <2>3. PICK next \in Dates : next = ResolveFirstRun(t, today)
    BY <1>1, TimingFields, FirstRun
  <2>4. PICK active \in BOOLEAN : active = schedule[s].isActive
    BY <2>1, ExistingRow, RowFields DEF UpdateTiming
  <2>5. PICK row \in ProperSchedules : row = Scheduled(t, next, active)
    BY TimingFields, ScheduledRow
  <2>6. SyncReminder(s, row, days) \/ UNCHANGED reminder
    BY <2>1, <2>3, <2>4, <2>5 DEF UpdateTiming
  <2>7. Request /\ UNCHANGED <<today, notified, editor, batch, stale, posting>>
    BY <2>1 DEF UpdateTiming, OnlySchedule
  <2>8. RemindersInv'
    BY <1>1, <2>6, <2>7, SyncKeeps, RemindersStay DEF Request
  <2> QED
    BY <2>2, <2>7, <2>8 DEF PostingTyped
<1>4. CASE \E days \in Nat \cup {None} : UpdateOther(s, days)
  <2>1. PICK days \in Nat \cup {None} : UpdateOther(s, days)
    BY <1>4
  <2>2. SchedulesInv'
    BY <2>1, UpdateOtherKeeps
  <2>3. PICK old \in ProperSchedules : old = schedule[s]
    BY <2>1, ExistingRow DEF UpdateOther
  <2>4. PICK row \in ProperSchedules : row = Scheduled(old, old.nextRunAt, old.isActive)
    BY RowFields, ScheduledRow
  <2>5. SyncReminder(s, row, days) \/ UNCHANGED reminder
    BY <2>1, <2>3, <2>4 DEF UpdateOther
  <2>6. Request /\ UNCHANGED <<today, notified, editor, batch, stale, posting>>
    BY <2>1 DEF UpdateOther, OnlySchedule
  <2>7. RemindersInv'
    BY <1>1, <2>5, <2>6, SyncKeeps, RemindersStay DEF Request
  <2> QED
    BY <2>2, <2>6, <2>7 DEF PostingTyped
<1>5. CASE Pause(s)
  <2>1. SchedulesInv'
    BY <1>5, PauseKeeps
  <2>2. /\ ReminderActive(s, FALSE)
        /\ UNCHANGED <<today, notified, editor, batch, stale, posting, writes>>
    BY <1>5 DEF Pause, OnlySchedule
  <2>3. FALSE \in BOOLEAN /\ writes' \in Nat /\ writes' >= writes
    BY <1>1, <2>2
  <2>4. RemindersInv'
    BY <1>1, <2>2, <2>3, SwitchKeeps
  <2> QED
    BY <2>1, <2>2, <2>4 DEF PostingTyped
<1>6. CASE Resume(s)
  <2>1. SchedulesInv'
    BY <1>1, <1>6, ResumeKeeps
  <2>2. /\ ReminderActive(s, TRUE) /\ Request
        /\ UNCHANGED <<today, notified, editor, batch, stale, posting>>
    BY <1>6 DEF Resume, OnlySchedule
  <2>3. TRUE \in BOOLEAN /\ writes' \in Nat /\ writes' >= writes
    BY <1>1, <2>2 DEF Request
  <2>4. RemindersInv'
    BY <1>1, <2>2, <2>3, SwitchKeeps
  <2> QED
    BY <2>1, <2>2, <2>4 DEF PostingTyped
<1>7. CASE Remove(s)
  <2>1. SchedulesInv'
    BY <1>7, RemoveKeeps
  <2>2. /\ reminder' = [reminder EXCEPT ![s] = None] /\ s \in ReminderIds
        /\ UNCHANGED <<today, notified, editor, batch, stale, posting, writes>>
    BY <1>7 DEF Remove, OnlySchedule, ReminderIds
  <2>3. PICK no \in ProperReminders \cup {None} : no = None
    OBVIOUS
  <2>4. reminder' = [reminder EXCEPT ![s] = no]
    BY <2>2, <2>3
  <2>5. writes' \in Nat /\ writes' >= writes
    BY <1>1, <2>2
  <2>6. RemindersInv'
    BY <1>1, <2>2, <2>3, <2>4, <2>5, SameReaders, ReminderWrittenKeeps
  <2> QED
    BY <2>1, <2>2, <2>6 DEF PostingTyped
<1> QED
  BY <1>2, <1>3, <1>4, <1>5, <1>6, <1>7

(* The next day changes no row, and dates of the past stay in the past. *)
LEMMA DayGoesBy ==
  ASSUME SchedulesInv, PostingTyped, RemindersInv, today \in Days, Tick
  PROVE  SchedulesInv' /\ PostingTyped' /\ RemindersInv' /\ today' \in Days
<1>1. today' = today + 1 /\ today' \in Days /\ today \in Nat /\ today' \in Nat
  BY HorizonAssumption DEF Tick, Days
<1>2. RemindersInv'
  BY <1>1, RemindersStay DEF Tick, RemindersInv, ReminderTypes
<1>3. SchedulesInv' /\ PostingTyped'
  BY SchedulesStay DEF Tick, scheduleVars, PostingTyped
<1> QED
  BY <1>1, <1>2, <1>3

LEMMA PostingKeeps ==
  ASSUME SchedulingInv, Posting
  PROVE  SchedulingInv'
<1>1. /\ scene = "posting" /\ scene' = scene /\ today \in Days
      /\ UNCHANGED <<budget, renewing, changes, edited>>
  BY DEF SchedulingInv, InDay, Posting, OfPosting
<1>2. SchedulesInv' /\ PostingTyped' /\ RemindersInv' /\ today' \in Days
  <2>1. SchedulesInv /\ PostingTyped /\ RemindersInv /\ today \in Nat /\ writes \in Nat
    BY DEF SchedulingInv, InDay, RemindersInv, ReminderTypes
  <2>2. CASE ScheduleUser
    <3>1. CASE ToggleUsable
      <4>1. writes' = writes + 1
            /\ UNCHANGED <<today, schedule, occurrence, entries, posting, overtaken>>
            /\ UNCHANGED <<reminder, notified, editor, batch, stale>>
        BY <3>1 DEF ToggleUsable, Request, reminderVars
      <4>2. RemindersInv'
        BY <2>1, <4>1, RemindersStay
      <4> QED
        BY <1>1, <2>1, <4>1, <4>2, SchedulesStay DEF PostingTyped
    <3>2. CASE ~ToggleUsable
      <4>1. PICK s \in Schedules :
               \/ \E t \in Timings \cup MCReminded, active \in BOOLEAN,
                     days \in Nat \cup {None} : Create(s, t, active, days)
               \/ \E t \in Timings \cup MCReminded, days \in Nat \cup {None} :
                     UpdateTiming(s, t, days)
               \/ \E days \in Nat \cup {None} : UpdateOther(s, days)
               \/ Pause(s) \/ Resume(s) \/ Remove(s)
        BY <2>2, <3>2, RemindDaysAssumption DEF ScheduleUser
      <4> QED
        BY <1>1, <2>1, <4>1, ScheduleRequest
    <3> QED
      BY <3>1, <3>2
  <2>3. CASE ScheduleWorker
    <3>1. PICK w \in Posters :
             \/ FindDueSchedules(w) \/ ProcessSchedule(w) \/ SuspendFailed(w) \/ PostingCrash(w)
      BY <2>3 DEF ScheduleWorker
    <3>2. SchedulesInv' /\ PostingTyped'
      BY <1>1, <2>1, <3>1, FindDueKeeps, SkipKeeps, PostKeeps, RefuseKeeps, RecordFailureKeeps,
         PostingCrashKeeps DEF ProcessSchedule, SuspendFailed
    <3>3. UNCHANGED <<today, reminder, notified, editor, batch, writes, stale>>
      BY <3>1 DEF FindDueSchedules, ProcessSchedule, Skip, Post, Refuse, SuspendFailed,
         RecordFailure, PostingCrash, OnlyWorker, reminderVars
    <3>4. RemindersInv'
      BY <2>1, <3>3, RemindersStay
    <3> QED
      BY <1>1, <3>2, <3>3, <3>4
  <2>4. CASE Tick
    BY <1>1, <2>1, <2>4, DayGoesBy
  <2> QED
    BY <2>2, <2>3, <2>4 DEF Posting
<1>3. BudgetsInv'
  BY <1>1, OthersRest
<1>4. InDay'
  BY <1>1, <1>2, HorizonAssumption, BudgetsAssumption DEF InDay, Days
<1> QED
  BY <1>2, <1>3, <1>4 DEF SchedulingInv

LEMMA ReminderUserKeeps ==
  ASSUME RemindersInv, today \in Days, ReminderUser
  PROVE  RemindersInv' /\ today' = today
<1>1. today \in Nat /\ writes \in Nat
  BY HorizonAssumption DEF Days, RemindersInv, ReminderTypes
<1>2. ASSUME NEW r \in Generals, NEW p \in Plans, NEW active \in BOOLEAN,
             CreateReminder(r, p, active)
      PROVE  RemindersInv' /\ today' = today
  BY <1>1, <1>2, CreateReminderKeeps DEF CreateReminder
<1>3. ASSUME NEW r \in ReminderIds, RemoveReminder(r)
      PROVE  RemindersInv' /\ today' = today
  BY <1>3, RemoveReminderKeeps DEF RemoveReminder
<1>4. ASSUME NEW e \in Editors, NEW r \in ReminderIds, ReadForUpdate(e, r)
      PROVE  RemindersInv' /\ today' = today
  BY <1>1, <1>4, ReadForUpdateKeeps DEF ReadForUpdate
<1>5. ASSUME NEW e \in Editors, editor[e] # None, editor[e].row # None,
             NEW p \in Plans \cup {editor[e].row}, NEW active \in BOOLEAN,
             WriteUpdate(e, p, active)
      PROVE  RemindersInv' /\ today' = today
  <2>1. RemindersInv'
    BY <1>1, <1>5, WriteUpdateKeeps
  <2> QED
    BY <1>5, <2>1 DEF WriteUpdate
<1>6. ASSUME NEW e \in Editors, ReadDaily(e)
      PROVE  RemindersInv' /\ today' = today
  BY <1>1, <1>6, ReadDailyKeeps DEF ReadDaily
<1>7. ASSUME NEW e \in Editors, NEW active \in BOOLEAN, WriteDaily(e, active)
      PROVE  RemindersInv' /\ today' = today
  <2>1. RemindersInv'
    BY <1>1, <1>7, WriteDailyKeeps DEF WriteDaily
  <2> QED
    BY <1>7, <2>1 DEF WriteDaily
<1>8. ASSUME RecordTransaction
      PROVE  RemindersInv' /\ today' = today
  BY <1>1, <1>8, RemindersStay DEF RecordTransaction
<1> QED
  BY <1>2, <1>3, <1>4, <1>5, <1>6, <1>7, <1>8 DEF ReminderUser

LEMMA ReminderWorkerKeeps ==
  ASSUME RemindersInv, today \in Days, ReminderWorker
  PROVE  RemindersInv' /\ today' = today
<1>1. today \in Nat
  BY HorizonAssumption DEF Days
<1>2. ASSUME NEW w \in Workers, FindDue(w) \/ ReminderCrash(w)
      PROVE  RemindersInv' /\ today' = today
  BY <1>1, <1>2, FindDueReminders, ReminderCrashKeeps DEF FindDue, ReminderCrash
<1>3. ASSUME NEW w \in Workers, batch[w] # None, NEW r \in DOMAIN batch[w].rows, SkipDaily(w, r)
      PROVE  RemindersInv' /\ today' = today
  <2>1. RemindersInv'
    BY <1>1, <1>3, SkipDailyKeeps
  <2> QED
    BY <1>3, <2>1 DEF SkipDaily
<1>4. ASSUME NEW w \in Workers, batch[w] # None, NEW r \in DOMAIN batch[w].rows,
             NEW channels \in BOOLEAN, TriggerDue(w, r, channels)
      PROVE  RemindersInv' /\ today' = today
  <2>1. RemindersInv'
    BY <1>4, TriggerDueKeeps
  <2> QED
    BY <1>4, <2>1 DEF TriggerDue
<1> QED
  BY <1>2, <1>3, <1>4 DEF ReminderWorker

LEMMA RemindingKeeps ==
  ASSUME SchedulingInv, Reminding
  PROVE  SchedulingInv'
<1>1. /\ scene = "reminding" /\ scene' = scene /\ today \in Days
      /\ UNCHANGED <<budget, renewing, changes, edited>>
  BY DEF SchedulingInv, InDay, Reminding
<1>2. SchedulesInv' /\ PostingTyped' /\ RemindersInv' /\ today' \in Days
  <2>1. SchedulesInv /\ PostingTyped /\ RemindersInv
    BY DEF SchedulingInv
  <2>2. CASE (ReminderUser \/ ReminderWorker) /\ UNCHANGED scheduleVars
    BY <1>1, <2>1, <2>2, ReminderUserKeeps, ReminderWorkerKeeps, OthersRest
  <2>3. CASE \/ \E s \in Schedules, t \in MCReminded :
                   Create(s, t, TRUE, 1) \/ UpdateTiming(s, t, 1) \/ UpdateOther(s, 1)
             \/ \E s \in Schedules : Pause(s) \/ Resume(s) \/ Remove(s)
    <3>1. TRUE \in BOOLEAN /\ 1 \in Nat \cup {None}
      OBVIOUS
    <3>2. PICK s \in Schedules :
             \/ \E t \in Timings \cup MCReminded, active \in BOOLEAN,
                   days \in Nat \cup {None} : Create(s, t, active, days)
             \/ \E t \in Timings \cup MCReminded, days \in Nat \cup {None} :
                   UpdateTiming(s, t, days)
             \/ \E days \in Nat \cup {None} : UpdateOther(s, days)
             \/ Pause(s) \/ Resume(s) \/ Remove(s)
      BY <2>3, <3>1
    <3> QED
      BY <1>1, <2>1, <3>2, ScheduleRequest
  <2>4. CASE Tick
    BY <1>1, <2>1, <2>4, DayGoesBy
  <2> QED
    BY <2>2, <2>3, <2>4 DEF Reminding
<1>3. BudgetsInv'
  BY <1>1, OthersRest
<1>4. InDay'
  BY <1>1, <1>2, HorizonAssumption, BudgetsAssumption DEF InDay, Days
<1> QED
  BY <1>2, <1>3, <1>4 DEF SchedulingInv

LEMMA RenewingKeeps ==
  ASSUME SchedulingInv, Renewing
  PROVE  SchedulingInv'
<1>1. /\ scene = "renewing" /\ scene' = scene /\ B!NextBudgets
      /\ UNCHANGED scheduleVars /\ UNCHANGED <<reminder, notified, editor, batch, writes, stale>>
  BY DEF Renewing, reminderVars
<1>2. today \in Nat /\ today \in 0 .. FinalDay /\ FinalDay \in Nat
  BY BudgetsAssumption DEF SchedulingInv, InDay
<1>3. today' \in Nat /\ today <= today' /\ today' \in 0 .. FinalDay
  <2>1. today' = today \/ (today < FinalDay /\ today' = today + 1)
    BY <1>1 DEF B!NextBudgets, B!CreateBudget, B!UpdateBudget, B!ToggleAutoRenew,
       B!ArchiveBudget, B!RestoreBudget, B!ToggleCategory, B!ListRenewals, B!TakeParent,
       B!StopRenewing, B!SuspendRenewal, B!Renew, B!RenewalCrash, B!NextDay, B!Quiet
  <2> QED
    BY <1>2, <2>1
<1>4. BudgetsInv'
  BY <1>1, <1>2, NextBudgetsKeeps DEF SchedulingInv
<1>5. SchedulesInv' /\ PostingTyped'
  BY <1>1, OthersRest
<1>6. RemindersInv'
  BY <1>1, <1>2, <1>3, RemindersStay DEF SchedulingInv, RemindersInv, ReminderTypes
<1>7. InDay'
  BY <1>1, <1>3 DEF InDay
<1> QED
  BY <1>4, <1>5, <1>6, <1>7 DEF SchedulingInv

LEMMA NothingHappens ==
  ASSUME SchedulingInv, UNCHANGED vars
  PROVE  SchedulingInv'
<1>1. /\ UNCHANGED <<today, scene, writes>> /\ UNCHANGED scheduleVars
      /\ UNCHANGED <<reminder, notified, editor, batch, stale>>
      /\ UNCHANGED <<budget, renewing, changes, edited>>
  BY DEF vars, reminderVars
<1>2. SchedulesInv' /\ PostingTyped' /\ BudgetsInv'
  BY <1>1, OthersRest
<1>3. InDay'
  BY <1>1 DEF SchedulingInv, InDay
<1>4. RemindersInv'
  BY <1>1, RemindersStay DEF SchedulingInv, InDay, RemindersInv, ReminderTypes
<1> QED
  BY <1>2, <1>3, <1>4 DEF SchedulingInv

(* The invariant of the calendar's jobs holds in every reachable state.    *)
THEOREM SchedulingHolds == Spec => []SchedulingInv
PROOF
<1>1. Init => SchedulingInv
  BY BeginsWell
<1>2. SchedulingInv /\ [Next]_vars => SchedulingInv'
  BY PostingKeeps, RemindingKeeps, RenewingKeeps, NothingHappens DEF Next
<1> QED
  BY <1>1, <1>2, PTL DEF Spec

(* Every variable of the calendar's jobs has the type of its column.       *)
THEOREM JobsTyped == Spec => []TypeOK
PROOF
<1>1. ASSUME SchedulingInv PROVE TypeOK
  <2>1. TypeOKReminders
    <3>1. ProperReminders \subseteq ReminderRows
      BY DEF ProperReminders, ReminderRows, Dates, NoDate
    <3>2. reminder \in [ReminderIds -> ProperReminders \cup {None}]
      BY <1>1 DEF SchedulingInv, RemindersInv, ReminderTypes
    <3>3. \A key \in notified : key[1] \in ReminderIds /\ key[3] \in 0 .. Horizon
      BY <1>1 DEF SchedulingInv, RemindersInv, ReminderTypes, Keys, Days
    <3> QED
      BY <1>1, <3>1, <3>2, <3>3 DEF TypeOKReminders, SchedulingInv, RemindersInv, ReminderTypes
  <2>2. TypeOKSchedules
    <3>1. ProperSchedules \subseteq ScheduleRows
      BY DEF ProperSchedules, ScheduleRows, Dates, NoDate
    <3>2. schedule \in [Schedules -> ProperSchedules \cup {None}]
      BY <1>1 DEF SchedulingInv, SchedulesInv, ScheduleTypes
    <3> QED
      BY <1>1, <3>1, <3>2 DEF TypeOKSchedules, SchedulingInv, SchedulesInv, ScheduleTypes
  <2>3. B!TypeOKBudgets
    <3>1. ProperBudgets \subseteq B!BudgetRows
      BY DEF ProperBudgets, B!BudgetRows
    <3>2. budget \in [Budgets -> ProperBudgets \cup {None}]
      BY <1>1 DEF SchedulingInv, BudgetsInv, BudgetTypes
    <3>3. \A w \in Renewers : renewing[w] = None \/ renewing[w].iteration \in 1 .. 4
      BY <1>1, RunsAreTyped DEF SchedulingInv
    <3> QED
      BY <1>1, <3>1, <3>2, <3>3 DEF B!TypeOKBudgets, SchedulingInv, InDay
  <2> QED
    BY <2>1, <2>2, <2>3 DEF TypeOK
<1> QED
  BY <1>1, SchedulingHolds, PTL

(* No date is posted twice or left out, no reminder is stuck and no budget *)
(* period is out of line, whatever races, edits, refusals and crashes      *)
(* there were (processDue of the recurring transactions and the reminders, *)
(* processDueRenewals), but for what is marked as overtaken or stale.      *)
THEOREM DatesKept == Spec => []DatesAreKept
PROOF
<1>1. ASSUME SchedulingInv PROVE DatesAreKept
  <2>1. PostedOnce
    <3>1. ASSUME NEW s \in Schedules, NEW d \in Days, entries[s][d] > 1, <<s, d>> \notin overtaken
          PROVE  FALSE
      <4>1. entries[s][d] <= 1 /\ entries[s][d] \in Nat
        BY <1>1, <3>1 DEF SchedulingInv, SchedulesInv, PostedOrOvertaken, ScheduleTypes
      <4> QED
        BY <3>1, <4>1
    <3> QED
      BY <3>1 DEF PostedOnce
  <2>2. CatchUpLeavesNoGap
    BY <1>1 DEF SchedulingInv, SchedulesInv
  <2>3. StuckOnlyByStaleWrite
    <3>1. SUFFICES ASSUME NEW r \in ReminderIds, reminder[r] # None, r \notin stale,
                          <<r, reminder[r].born, reminder[r].nextTriggerAt>> \in notified
                   PROVE  FALSE
      BY DEF StuckOnlyByStaleWrite
    <3>2. PICK key \in notified :
             key[1] = r /\ key[2] = reminder[r].born /\ key[3] = reminder[r].nextTriggerAt
      BY <3>1
    <3>3. key[3] \in Nat
      BY <1>1, HorizonAssumption DEF SchedulingInv, RemindersInv, ReminderTypes, Keys, Days
    <3>4. key[3] = NoDate \/ key[3] < key[3]
      BY <1>1, <3>1, <3>2 DEF SchedulingInv, RemindersInv, NotifiedBefore
    <3> QED
      BY <3>3, <3>4, DateIsNoNull
  <2>4. B!PeriodsFollowOn
    BY <1>1, SeriesFollow DEF SchedulingInv
  <2> QED
    BY <2>1, <2>2, <2>3, <2>4 DEF DatesAreKept
<1> QED
  BY <1>1, SchedulingHolds, PTL
===============================================================================
