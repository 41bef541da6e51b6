------------------------------ MODULE Insights -------------------------------
(***************************************************************************)
(* The engines behind the forecast, anomaly, simulation and subscription   *)
(* pages.  They are pure: a sample goes in, a result comes out.  Numbers   *)
(* of the code that are fractions are compared by multiplying out; what    *)
(* the floating point arithmetic rounds is left out.                       *)
(***************************************************************************)
EXTENDS Recurrence, FiniteSets, SequencesExt

CONSTANTS
    Weights,        \* Weights[a + 1]: exp(-0.04 a) for a bucket of age a
    Horizon,        \* MAX_RUNWAY_PROJECTION_DAYS
    None

Least(S) == CHOOSE x \in S : \A y \in S : x <= y
Greatest(S) == CHOOSE x \in S : \A y \in S : x >= y
Sum(s) == FoldLeft(LAMBDA a, b : a + b, 0, s)
Ceiling(a, b) == (a + b - 1) \div b
\* Math.round of a / b, b > 0
Rounded(a, b) == (2 * a + b) \div (2 * b)

(***************************************************************************)
(* ForecastMathEngine.computeRunway.  A bucket is a day with transactions, *)
(* oldest first.                                                           *)
(***************************************************************************)
\* averageDailyIncome - weightedDailyExpense, a fraction.
NetFlow(buckets) ==
    LET n      == Len(buckets)
        weight == [i \in 1 .. n |-> Weights[n - i + 1]]
        income == Sum([i \in 1 .. n |-> buckets[i].income])
        spent  == Sum([i \in 1 .. n |-> weight[i] * buckets[i].expense])
    IN [num |-> income * Sum(weight) - spent * n, den |-> n * Sum(weight)]

Runway(balance, buckets) ==
    LET flow       == NetFlow(buckets)
        daysToZero == (balance * flow.den) \div (-flow.num)
    IN CASE balance <= 0 -> 0
         [] balance > 0 /\ (buckets = <<>> \/ flow.num >= 0) -> None
         [] OTHER -> IF daysToZero <= Horizon THEN daysToZero ELSE None

\* The projected balance after h days, times the denominator of the flow.
Projected(balance, flow, h) == balance * flow.den + h * flow.num

(***************************************************************************)
(* computeBudgetDepletions of one budget: its amount, what was spent, its  *)
(* first and last day and today.                                           *)
(***************************************************************************)
Depletion(b) ==
    LET total     == Greatest({1, b.end - b.start + 1})
        elapsed   == Least({total, Greatest({1, b.today - b.start + 1})})
        remaining == total - elapsed
        left      == Greatest({0, b.amount - b.spent})
        used      == b.spent >= b.amount
        toExhaust == (left * elapsed) \div b.spent      \* of a positive burn
        projected == used \/ (b.spent > 0 /\ toExhaust < remaining)
        early     == IF used THEN remaining ELSE remaining - toExhaust
    IN [elapsed   |-> elapsed,
        remaining |-> remaining,
        left      |-> left,
        projected |-> projected,
        date      |-> CASE used -> b.today
                        [] projected /\ ~used -> b.today + toExhaust
                        [] OTHER -> NoDate,
        risk      |-> CASE used \/ (projected /\ early > 5) -> "CRITICAL"
                        [] projected /\ ~used /\ early <= 5 -> "HIGH"
                        [] ~projected /\ 20 * b.spent * total > 17 * b.amount * elapsed
                              -> "MEDIUM"
                        [] OTHER -> "LOW"]

(***************************************************************************)
(* AnomalyMathEngine.evaluate.  Amounts are in units of 100,000 VND and    *)
(* scores in hundredths.                                                   *)
(***************************************************************************)
\* Twice the median: of an even number of values, the sum of the middle two.
TwiceMedian(values) ==
    LET sorted == SortSeq(values, <)
        mid    == Len(values) \div 2
    IN IF Len(values) % 2 = 0 THEN sorted[mid] + sorted[mid + 1] ELSE 2 * sorted[mid + 1]

Distance(a, b) == IF a < b THEN b - a ELSE a - b

\* Twenty times effectiveMad: max(mad, 0.1 median, 0.1 units).
TwentyMads(history) ==
    LET median2 == TwiceMedian(history)
        mad4    == TwiceMedian([i \in DOMAIN history |-> Distance(2 * history[i], median2)])
    IN Greatest({5 * mad4, median2, 2})

\* modifiedZScore = 0.6745 (amount - median) / effectiveMad, in 1/1000.
SpikeScore(amount, history) ==
    LET z   == 6745 * (2 * amount - TwiceMedian(history))
        mad == TwentyMads(history)
    IN IF z < 3500 * mad THEN 0
       ELSE Least({85, Rounded(70000 * mad + 3 * (z - 3500 * mad), 1000 * mad)})

FirstTimeScore(t) ==
    IF t.amount >= 50 \/ (t.balance > 0 /\ 2 * t.amount >= t.balance) THEN 55 ELSE 0

Score(t) ==
    Least({100,
        (IF Len(t.history) >= 3 THEN SpikeScore(t.amount, t.history) ELSE FirstTimeScore(t))
        + (IF t.recent >= 3 THEN 25 ELSE 0)
        + (IF t.hour \in 2 .. 5 THEN 15 ELSE 0)
        + (IF t.balance > 0 /\ 5 * t.amount >= 3 * t.balance /\ t.amount >= 10
           THEN 20 ELSE 0)})

Severity(score) ==
    CASE score >= 85 -> "CRITICAL"
      [] score >= 70 /\ score < 85 -> "HIGH"
      [] score >= 50 /\ score < 70 -> "ELEVATED"
      [] OTHER -> "NORMAL"

IsAnomaly(score) == score >= 70

(***************************************************************************)
(* SimulationEngine.run.  A perturbation changes the income or the expense *)
(* of some months; a category adjustment is given by its monthly amount.   *)
(***************************************************************************)
PerturbationTypes ==
    {"RECURRING_EXPENSE", "RECURRING_INCOME", "ONE_OFF_EXPENSE", "ONE_OFF_INCOME",
     "CATEGORY_ADJUSTMENT"}

Or(value, default) == IF value = None THEN default ELSE value

\* What p adds to the net flow of month m.
Effect(p, m, horizon) ==
    LET start  == Or(p.start, 1)
        during == m >= start /\ m < start + Or(p.duration, horizon)
    IN CASE p.type = "RECURRING_EXPENSE" -> IF during THEN -p.amount ELSE 0
         [] p.type = "RECURRING_INCOME" -> IF during THEN p.amount ELSE 0
         [] p.type = "ONE_OFF_EXPENSE" -> IF m = start THEN -p.amount ELSE 0
         [] p.type = "ONE_OFF_INCOME" -> IF m = start THEN p.amount ELSE 0
         [] p.type = "CATEGORY_ADJUSTMENT" -> -p.amount

\* allocated / divisor per month towards the goal, 20% of the flow.
MonthsNeeded(missing, flow, months) ==
    IF flow <= 0 THEN None ELSE Ceiling(5 * months * missing, flow)

GoalStatus(missing, before, after) ==
    CASE before # None /\ after # None ->
            (CASE after > before -> "DELAYED"
               [] after < before -> "ACCELERATED"
               [] OTHER -> "ON_TRACK")
      [] before = None /\ after # None -> "ON_TRACK"
      [] after = None -> IF missing > 0 THEN "UNACHIEVABLE" ELSE "ON_TRACK"

Simulated(s) ==
    LET net[m \in 0 .. s.horizon] ==
            IF m = 0 THEN s.balance
            ELSE net[m - 1] + s.flow
                 + Sum([i \in DOMAIN s.changes |-> Effect(s.changes[i], m, s.horizon)])
        minimum == Least({net[m] : m \in 0 .. s.horizon})
        delta   == net[s.horizon] - (s.balance + s.horizon * s.flow)
    IN [delta   |-> delta,
        minimum |-> minimum,
        risk    |-> CASE minimum < 0 -> "HIGH_DEFICIT_RISK"
                      [] minimum >= 0 /\ 20 * delta < -3 * Greatest({1, s.balance})
                            -> "MODERATE_IMPACT"
                      [] OTHER -> "LOW_IMPACT",
        goal    |-> GoalStatus(s.missing, MonthsNeeded(s.missing, s.flow, 1),
                        MonthsNeeded(s.missing, net[s.horizon] - s.balance, s.horizon))]

\* formatMonthDate: year and month after some months.
MonthDate(year, month, offset) ==
    LET months == year * 12 + (month - 1) + offset
    IN [year |-> months \div 12, month |-> (months % 12) + 1]

(***************************************************************************)
(* SubscriptionDiscoveryEngine.discover, for one merchant and currency:    *)
(* charges [date, amount], oldest first.  normalizeMerchant, which groups  *)
(* them, is left out.                                                      *)
(***************************************************************************)
Steady(amounts) ==
    LET total == Sum(amounts)
    IN \A i \in DOMAIN amounts :
           100 * Distance(Len(amounts) * amounts[i], total) <= 18 * total

Intervals(charges) ==
    SelectSeq([i \in 1 .. Len(charges) - 1 |-> charges[i + 1].date - charges[i].date],
              LAMBDA days : days > 0)

\* The standard deviation is at most part / of of the mean interval.
SpreadWithin(intervals, part, of) ==
    LET k     == Len(intervals)
        total == Sum(intervals)
        above == k * Sum([i \in 1 .. k |-> intervals[i] * intervals[i]]) - total * total
    IN of * of * k * above <= part * part * (k - 1) * total * total

\* regularity >= 0.75
Regular(intervals) == SpreadWithin(intervals, 1, 4)

FrequencyOf(intervals) ==
    LET total == Sum(intervals)
        MeanIn(low, high) == total \in low * Len(intervals) .. high * Len(intervals)
    IN CASE MeanIn(6, 8) -> "WEEKLY"
         [] MeanIn(26, 35) -> "MONTHLY"
         [] MeanIn(345, 380) -> "YEARLY"
         [] OTHER -> None

Found(charges) ==
    LET amounts   == [i \in DOMAIN charges |-> charges[i].amount]
        intervals == Intervals(charges)
        n         == Len(charges)
        total     == Sum(amounts)
    IN IF /\ n >= 3 /\ Steady(amounts)
          /\ Len(intervals) >= 2 /\ Regular(intervals)
          /\ FrequencyOf(intervals) # None
       THEN [frequency |-> FrequencyOf(intervals),
             next      |-> charges[n].date + Rounded(Sum(intervals), Len(intervals)),
             \* confidenceScore >= 0.85 after rounding
             confident |-> SpreadWithin(intervals, 31 - 12 * (5 - Least({5, n})), 140),
             drift     |-> 100 * (n * amounts[n] - total) > 5 * total]
       ELSE None

\* The reminder convertToReminder makes of a renewal date.
ReminderDate(renewal, frequency, given) ==
    LET default == CASE frequency = "MONTHLY" -> 2
                     [] frequency = "YEARLY" -> 7
                     [] OTHER -> 0
    IN AddDays(renewal, -Greatest({0, Or(given, default)}))

(***************************************************************************)
(* What the results have to agree with.                                    *)
(***************************************************************************)

\* The balance is projected to last exactly as long as the runway says: it
\* is covered on day h, up to the horizon, just when h is within the runway
\* (runwayDays against the projected series of computeRunway).
RunwayAgrees(balance, buckets, runway) ==
    balance > 0 /\ buckets # <<>> =>
        \A h \in 0 .. Horizon :
            Projected(balance, NetFlow(buckets), h) >= 0
                <=> (runway = None \/ h <= runway)

\* A budget is projected to run out just when the spending so far, continued
\* to the last day, exceeds it or it is used up; the day it runs out is one of
\* its own days and not in the past, and the risk is LOW or MEDIUM otherwise
\* (computeBudgetDepletions).
DepletionAgrees(b, d) ==
    /\ d.projected <=>
          b.spent >= b.amount
          \/ b.spent * (d.elapsed + d.remaining) > b.amount * d.elapsed
    /\ d.projected => d.date \in b.today .. b.end
    /\ d.projected <=> d.risk \in {"CRITICAL", "HIGH"}

\* A larger amount is never less suspicious, a spending is flagged just when
\* it is HIGH or CRITICAL, and an ordinary one -- no more than the median, by
\* day, no burst, less than 60% of the wallet -- never is (evaluate).
AnomalyAgrees(t, score) ==
    /\ t.amount > 0 => Score([t EXCEPT !.amount = @ - 1]) <= score
    /\ IsAnomaly(score) <=> Severity(score) \in {"HIGH", "CRITICAL"}
    /\ /\ Len(t.history) >= 3 /\ 2 * t.amount <= TwiceMedian(t.history)
       /\ t.hour \notin 2 .. 5 /\ t.recent < 3
       /\ 5 * t.amount < 3 * t.balance
       => score = 0

\* What a perturbation moves over the horizon, month by month, is its amount
\* times the months of the horizon it covers, and a plan that moves nothing
\* neither delays nor accelerates a goal, while one that only costs never
\* accelerates one (run).
MovedBy(p, horizon) ==
    LET start  == Or(p.start, 1)
        months == CASE p.type \in {"RECURRING_EXPENSE", "RECURRING_INCOME"} ->
                          Cardinality((start .. start + Or(p.duration, horizon) - 1)
                                          \cap (1 .. horizon))
                    [] p.type \in {"ONE_OFF_EXPENSE", "ONE_OFF_INCOME"} ->
                          IF start \in 1 .. horizon THEN 1 ELSE 0
                    [] p.type = "CATEGORY_ADJUSTMENT" -> horizon
    IN months * (IF p.type \in {"RECURRING_INCOME", "ONE_OFF_INCOME"} THEN p.amount
                 ELSE -p.amount)

SimulationAgrees(s, r) ==
    /\ r.delta = Sum([i \in DOMAIN s.changes |-> MovedBy(s.changes[i], s.horizon)])
    /\ r.delta = 0 => r.goal \notin {"DELAYED", "ACCELERATED"}
    /\ r.delta < 0 => r.goal # "ACCELERATED"

\* A charge that follows a weekly or a monthly schedule of the system at one
\* price is discovered with that frequency, without a price drift, the next
\* charge is expected on its day or, for months, within three days of it, and a
\* reminder made of it comes between the last charge and the next; a weekly
\* charge is announced at once, a daily one is not discovered (discover and
\* convertToReminder, against occurrenceAt).
DiscoveryAgrees(anchor, frequency, charges, found) ==
    LET n    == Len(charges)
        next == OccurrenceAt(anchor, frequency, 1, n)
    IN IF frequency \in {"WEEKLY", "MONTHLY"}
       THEN /\ found # None /\ found.frequency = frequency
            /\ ~found.drift /\ (frequency = "WEEKLY" => found.confident)
            /\ ReminderDate(found.next, frequency, None) \in charges[n].date + 1 .. found.next
            /\ Distance(found.next, next) <= (IF frequency = "WEEKLY" THEN 0 ELSE 3)
       ELSE found = None
=============================================================================
