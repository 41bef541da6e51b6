----------------------------- MODULE Recurrence -----------------------------
(***************************************************************************)
(* Business dates (src/common/date-time/business-time.ts) and the dates    *)
(* that recur (recurring-transaction.engine.ts, and the next-trigger       *)
(* arithmetic of ReminderService).  A business date 'YYYY-MM-DD' is the    *)
(* number of days since 1970-01-01, which is what businessDateToPrismaDate *)
(* stores (midnight UTC of that date); the text form and the time zone of  *)
(* an instant are left out.                                                *)
(***************************************************************************)
EXTENDS Integers, Sequences

NoDate == -1                    \* null in a date column

\* The proleptic Gregorian calendar behind Date.UTC and getUTC*.
DayNumber(year, month, day) ==
    LET y   == IF month <= 2 THEN year - 1 ELSE year
        era == y \div 400
        yoe == y - era * 400
        doy == (153 * ((month + 9) % 12) + 2) \div 5 + day - 1
    IN era * 146097 + yoe * 365 + yoe \div 4 - yoe \div 100 + doy - 719468

Civil(date) ==
    LET OfMonth(year, doy, mp) ==               \* mp counts the months from March
            [year  |-> year + (IF mp < 10 THEN 0 ELSE 1),
             month |-> IF mp < 10 THEN mp + 3 ELSE mp - 9,
             day   |-> doy - (153 * mp + 2) \div 5 + 1]
        OfYear(year, doy) == OfMonth(year, doy, (5 * doy + 2) \div 153)
        OfEra(era, doe, yoe) ==
            OfYear(era * 400 + yoe, doe - (365 * yoe + yoe \div 4 - yoe \div 100))
        YearOf(doe) == (doe - doe \div 1460 + doe \div 36524 - doe \div 146096) \div 365
        InEra(era, doe) == OfEra(era, doe, YearOf(doe))
        z == date + 719468
    IN InEra(z \div 146097, z % 146097)

\* Date.UTC takes a month outside 1..12 into the neighbouring years.
FirstOfMonth(year, month) ==
    DayNumber(year + (month - 1) \div 12, ((month - 1) % 12) + 1, 1)

AddDays(date, amount) == date + amount

LastDay(year, month) == Civil(FirstOfMonth(year, month + 1) - 1).day

AddMonthsClamped(date, months) ==
    LET Clamped(year, month, day, last) ==
            FirstOfMonth(year, month) + (IF day < last THEN day ELSE last) - 1
        From(c) ==
            Clamped(c.year, c.month + months, c.day, LastDay(c.year, c.month + months))
    IN From(Civil(date))

MonthsBetween(start, end) ==
    LET Months(c) == c.year * 12 + c.month
    IN Months(Civil(end)) - Months(Civil(start))

\* SQL comparison: null is neither before nor after anything.
OnOrBefore(date, limit) == date # NoDate /\ date <= limit

\* The end date of a schedule, a reminder or a budget: null is open.
Within(date, end) == end = NoDate \/ date <= end

OrNone(date, end) == IF Within(date, end) THEN date ELSE NoDate
-----------------------------------------------------------------------------
\* Occurrences.  The engine and the reminders guess the index of one by a
\* division and walk on from the guess.

Frequencies == {"DAILY", "WEEKLY", "MONTHLY", "YEARLY"}

InDays(frequency) == frequency \in {"DAILY", "WEEKLY"}

Unit(frequency, interval) ==
    IF frequency \in {"DAILY", "MONTHLY"} THEN interval
    ELSE interval * (IF frequency = "WEEKLY" THEN 7 ELSE 12)

OccurrenceAt(anchor, frequency, interval, i) ==
    IF InDays(frequency) THEN AddDays(anchor, i * Unit(frequency, interval))
    ELSE AddMonthsClamped(anchor, i * Unit(frequency, interval))

\* The guess: whole units between two dates, rounded down.
Elapsed(anchor, frequency, interval, date) ==
    (IF InDays(frequency) THEN date - anchor ELSE MonthsBetween(anchor, date))
        \div Unit(frequency, interval)

\* From the guess the loop goes forward; a unit later at most two steps do.
WalkFrom(anchor, frequency, interval, guess, earliest) ==
    LET At(i) == OccurrenceAt(anchor, frequency, interval, i)
        i     == CHOOSE j \in guess .. guess + 2 :
                     At(j) >= earliest /\ \A k \in guess .. j - 1 : At(k) < earliest
    IN At(i)

FirstOnOrAfter(anchor, frequency, interval, date) ==
    IF anchor >= date THEN anchor
    ELSE WalkFrom(anchor, frequency, interval,
                  Elapsed(anchor, frequency, interval, date), date)

NextAfter(anchor, frequency, interval, date) ==
    FirstOnOrAfter(anchor, frequency, interval, AddDays(date, 1))

Preview(anchor, frequency, interval, from, count, end) ==
    LET date[n \in 1 .. count] ==
            IF n = 1 THEN FirstOnOrAfter(anchor, frequency, interval, from)
            ELSE NextAfter(anchor, frequency, interval, date[n - 1])
    IN SelectSeq(date, LAMBDA d : Within(d, end))

\* ReminderService.nextOccurrenceAfter, at one time of the day: instants are
\* compared by their dates, so the first index tried is 1.
NextTrigger(remindAt, frequency, interval, after) ==
    IF remindAt > after THEN remindAt
    ELSE LET guess == Elapsed(remindAt, frequency, interval, after)
         IN WalkFrom(remindAt, frequency, interval,
                     IF guess < 1 THEN 1 ELSE guess, after + 1)

\* The guess never skips an occurrence: a preview lists the occurrences from
\* its start on, up to the end date, one after the other (preview,
\* firstOccurrenceOnOrAfter and nextOccurrenceAfter against occurrenceAt).
PreviewAgrees(anchor, frequency, interval, from, count, end, dates) ==
    LET Occurrences == {OccurrenceAt(anchor, frequency, interval, i) :
                            i \in 0 .. count + (IF from <= anchor THEN 0 ELSE from - anchor)}
        Shown == {dates[n] : n \in DOMAIN dates}
    IN /\ Shown \subseteq Occurrences
       /\ \A d \in Shown : d >= from /\ Within(d, end)
       /\ \A n \in 1 .. Len(dates) - 1 :
             /\ dates[n] < dates[n + 1]
             /\ \A d \in Occurrences : ~(dates[n] < d /\ d < dates[n + 1])
       /\ \A d \in Occurrences :
             d >= from /\ Within(d, end) /\ Len(dates) < count => d \in Shown
=============================================================================
