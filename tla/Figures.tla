------------------------------- MODULE Figures -------------------------------
(***************************************************************************)
(* The figures shown to a user: reports, questions, budget usage,          *)
(* statements and the interest of savings, computed from the same rows by  *)
(* different code.  Dates are day numbers (Recurrence); an instant is in   *)
(* hours of local time, so local midnight of date d is 24 d, and the       *)
(* midnight UTC that stands for d in a date column is 24 d + 7.            *)
(***************************************************************************)
EXTENDS Recurrence, FiniteSets, SequencesExt

CONSTANTS
    MaxPoints,      \* MAX_SERIES_POINTS
    MaxRange,       \* MAX_CUSTOM_RANGE_DAYS
    None

Midnight(date) == 24 * date
ColumnInstant(date) == 24 * date + 7
DateOf(instant) == instant \div 24

Larger(a, b) == IF a < b THEN b ELSE a
Smaller(a, b) == IF a < b THEN a ELSE b

\* A transaction: [date, type, amount, currency, category].
Total(txs) == FoldLeft(LAMBDA sum, t : sum + t.amount, 0, txs)
OfType(txs, type) == SelectSeq(txs, LAMBDA t : t.type = type)
Between(txs, from, to) == SelectSeq(txs, LAMBDA t : t.date \in from .. to)

(***************************************************************************)
(* QueryCompiler: the dates of a question and its totals.                  *)
(***************************************************************************)
\* 1970-01-01 was a Thursday; Monday is 0.
Weekday(date) == (date + 3) % 7
Monday(date) == date - Weekday(date)

FirstDayOf(date) == FirstOfMonth(Civil(date).year, Civil(date).month)
FirstDayAfter(date) == FirstOfMonth(Civil(date).year, Civil(date).month + 1)

DateRange(type, today) ==
    LET before == FirstDayOf(today) - 1
    IN CASE type = "TODAY" -> [from |-> today, to |-> today]
         [] type = "THIS_WEEK" -> [from |-> Monday(today), to |-> Monday(today) + 6]
         [] type = "LAST_WEEK" -> [from |-> Monday(today) - 7, to |-> Monday(today) - 1]
         [] type = "THIS_MONTH" -> [from |-> FirstDayOf(today), to |-> FirstDayAfter(today) - 1]
         [] type = "LAST_MONTH" -> [from |-> FirstDayOf(before), to |-> before]
         [] type = "THIS_YEAR" -> [from |-> DayNumber(Civil(today).year, 1, 1),
                                   to   |-> DayNumber(Civil(today).year, 12, 31)]
         [] type = "LAST_7_DAYS" -> [from |-> today - 6, to |-> today]
         [] type = "LAST_30_DAYS" -> [from |-> today - 29, to |-> today]

\* execute: the transactions of a type in the range, their total, and the
\* totals of a breakdown by category or by wallet (here: by currency).
Answer(txs, range, type, key) ==
    LET rows == SelectSeq(txs, LAMBDA t :
                    t.date \in range.from .. range.to /\ (type = "ALL" \/ t.type = type))
    IN [total  |-> Total(rows),
        groups |-> [k \in {rows[i][key] : i \in DOMAIN rows} |->
                       Total(SelectSeq(rows, LAMBDA t : t[key] = k))]]

(***************************************************************************)
(* ReportService: the period, the series and the budgets of a report.      *)
(***************************************************************************)
\* resolvePeriod: [from, to) in instants.
Period(preset, today, custom) ==
    LET Days(from, to) == [from |-> Midnight(from), to |-> Midnight(to)]
    IN CASE preset = "CUSTOM" -> custom
         [] preset = "DAY" -> Days(today, today + 1)
         [] preset = "WEEK" -> Days(Monday(today), Monday(today) + 7)
         [] preset = "MONTH" -> Days(FirstDayOf(today), FirstDayAfter(today))
         [] preset = "YEAR" -> Days(DayNumber(Civil(today).year, 1, 1),
                                    DayNumber(Civil(today).year + 1, 1, 1))

\* findTransactions compares dates.
Fetched(txs, period) ==
    SelectSeq(txs, LAMBDA t : t.date >= DateOf(period.from) /\ t.date < DateOf(period.to))

Granularity(requested, preset, period) ==
    LET hours == period.to - period.from
    IN CASE requested # "AUTO" -> requested
         [] requested = "AUTO" /\ preset \in {"DAY", "WEEK", "MONTH"} -> "DAY"
         [] requested = "AUTO" /\ preset = "YEAR" -> "MONTH"
         [] requested = "AUTO" /\ preset = "CUSTOM" ->
               IF hours <= 90 * 24 THEN "DAY"
               ELSE IF hours <= 730 * 24 THEN "MONTH" ELSE "YEAR"

BucketStart(instant, granularity) ==
    LET date == DateOf(instant)
    IN CASE granularity = "HOUR" -> instant
         [] granularity = "DAY" -> Midnight(date)
         [] granularity = "WEEK" -> Midnight(Monday(date))
         [] granularity = "MONTH" -> Midnight(FirstDayOf(date))
         [] granularity = "YEAR" -> Midnight(DayNumber(Civil(date).year, 1, 1))

NextBucketStart(start, granularity) ==
    LET date == DateOf(start)
    IN CASE granularity = "HOUR" -> start + 1
         [] granularity = "DAY" -> start + 24
         [] granularity = "WEEK" -> start + 7 * 24
         [] granularity = "MONTH" -> Midnight(FirstDayAfter(date))
         [] granularity = "YEAR" -> Midnight(DayNumber(Civil(date).year + 1, 1, 1))

\* createBuckets: the starts of buckets from the one the period begins in up to
\* the end of the period, and what of each lies in the period; None when there
\* are more than MaxPoints.
Buckets(period, granularity) ==
    LET first  == BucketStart(period.from, granularity)
        starts == {i \in first .. period.to - 1 : BucketStart(i, granularity) = i}
        count  == Cardinality(starts)
        At(n)  == CHOOSE i \in starts : Cardinality({j \in starts : j < i}) = n - 1
    IN IF count > MaxPoints THEN None
       ELSE [n \in 1 .. count |->
                [key  |-> At(n),
                 from |-> Larger(At(n), period.from),
                 to   |-> Smaller(NextBucketStart(At(n), granularity), period.to)]]

\* getCashFlow: what each bucket and the whole period sum up, a currency at a
\* time (toMoneyFlows).
Flow(txs, currency) ==
    LET own == SelectSeq(txs, LAMBDA t : t.currency = currency)
    IN [income  |-> Total(OfType(own, "INCOME")),
        expense |-> Total(OfType(own, "EXPENSE")),
        count   |-> Len(own)]

CashFlow(txs, period, granularity, currency) ==
    LET fetched == Fetched(txs, period)
        buckets == Buckets(period, granularity)
        Of(b)   == SelectSeq(fetched, LAMBDA t :
                       BucketStart(ColumnInstant(t.date), granularity) = b.key)
    IN IF period.to - period.from > MaxRange * 24 \/ buckets = None THEN None
       ELSE [total   |-> Flow(fetched, currency),
             buckets |-> buckets,
             series  |-> [n \in DOMAIN buckets |-> Flow(Of(buckets[n]), currency)]]

\* A budget: [start, end, amount, threshold, category, currency].
Matches(b, t) ==
    /\ t.type = "EXPENSE" /\ t.currency = b.currency
    /\ b.category = None \/ t.category = b.category

\* buildBudgetItems
ReportedSpending(b, txs, period) ==
    LET from == Larger(period.from, Midnight(b.start))
        to   == Smaller(period.to, Midnight(b.end + 1))
    IN Total(SelectSeq(Fetched(txs, period), LAMBDA t :
           Matches(b, t) /\ Midnight(t.date) >= from /\ Midnight(t.date) < to))

\* getSpendingSummary of a budget without a wallet
Spending(b, txs) == Total(SelectSeq(Between(txs, b.start, b.end), LAMBDA t : Matches(b, t)))

\* calculateUsage and buildBudgetItems; an amount of 0 is a budget whose
\* deficit took all of it.
UsageStatus(b, spent) ==
    IF spent > b.amount THEN "EXCEEDED"
    ELSE IF b.amount > 0 /\ 100 * spent >= b.threshold * b.amount THEN "NEAR_LIMIT"
    ELSE "ON_TRACK"

\* findBudgets: the budgets a report lists.
Listed(b, period) == b.start < DateOf(period.to) /\ b.end >= DateOf(period.from)

TimeStatus(b, today) ==
    IF today < b.start THEN "UPCOMING" ELSE IF today > b.end THEN "ENDED" ELSE "ACTIVE"

\* processDueRenewals: the amount of the period after one with this remainder.
RolledAmount(mode, amount, remaining) ==
    CASE mode = "RESET" -> amount
      [] mode = "ROLLOVER_SURPLUS" -> amount + Larger(0, remaining)
      [] mode = "ROLLOVER_DEFICIT" -> Larger(0, amount + Smaller(0, remaining))
      [] mode = "ROLLOVER_NET" -> Larger(0, amount + remaining)

(***************************************************************************)
(* Whose rows a report and the list of transactions cover.  A wallet is    *)
(* [owner, shared, members, currency, balance], a transaction here also    *)
(* has its user and its wallet.                                            *)
(***************************************************************************)
\* findWallets
SeesWallet(u, w, scope) ==
    CASE scope = "ALL"      -> u = w.owner \/ u \in w.members
      [] scope = "PERSONAL" -> u = w.owner /\ ~w.shared
      [] scope = "SHARED"   -> (u = w.owner /\ w.shared) \/ u \in w.members

\* findTransactions and findAll say the same of a transaction, but for "ALL":
\* a report leaves out what others enter in a wallet of u.  A currency is a
\* second condition on the wallet, which takes the place of the scope's.
SeesTransaction(u, t, w, scope, currency) ==
    CASE scope = "ALL"      -> (t.user = u \/ u \in w.members) /\ currency \in {None, w.currency}
      [] scope = "PERSONAL" -> t.user = u /\ (IF currency = None THEN ~w.shared
                                               ELSE w.currency = currency)
      [] scope = "SHARED"   -> IF currency = None THEN SeesWallet(u, w, scope)
                               ELSE w.currency = currency

\* resolveScope: a selected wallet sets the currency; None is an error.
ScopeCurrency(u, wallets, wallet, currency) ==
    IF wallet = None THEN [currency |-> currency]
    ELSE IF ~SeesWallet(u, wallets[wallet], "ALL")
            \/ currency \notin {None, wallets[wallet].currency} THEN None
    ELSE [currency |-> wallets[wallet].currency]

ScopedWallets(u, wallets, wallet, currency, scope) ==
    {k \in DOMAIN wallets : /\ wallet \in {None, k} /\ currency \in {None, wallets[k].currency}
                            /\ SeesWallet(u, wallets[k], scope)}

Scoped(u, txs, wallets, wallet, currency, scope) ==
    SelectSeq(txs, LAMBDA t : /\ wallet \in {None, t.wallet}
                              /\ SeesTransaction(u, t, wallets[t.wallet], scope, currency))

\* findAll: the rows that match, a page of them and the number of pages.
ListsTransaction(u, t, w, scope) ==
    IF scope = "ALL" THEN t.user = u \/ SeesWallet(u, w, "ALL")
    ELSE SeesTransaction(u, t, w, scope, None)

ListPage(u, txs, wallets, scope, page, limit) ==
    LET rows == SelectSeq(txs, LAMBDA t : ListsTransaction(u, t, wallets[t.wallet], scope))
        skip == (page - 1) * limit
    IN [data  |-> SubSeq(rows, skip + 1, Smaller(skip + limit, Len(rows))),
        total |-> Len(rows),
        pages |-> (Len(rows) + limit - 1) \div limit]

(***************************************************************************)
(* The other reports.  Percentages are in hundredths, rounded half away    *)
(* from zero.                                                              *)
(***************************************************************************)
Percentage(part, whole) ==
    LET Rounded(n) == (20000 * n + whole) \div (2 * whole)
    IN IF whole = 0 THEN 0 ELSE IF part < 0 THEN -Rounded(-part) ELSE Rounded(part)

\* getKnownCurrencies
KnownCurrencies(wallets, kept, txs, requested) ==
    ({requested} \ {None}) \cup {wallets[k].currency : k \in kept}
        \cup {txs[i].currency : i \in DOMAIN txs}

\* getSpendingByCategory
SpendingByCategory(txs, currency) ==
    LET own   == OfType(SelectSeq(txs, LAMBDA t : t.currency = currency), "EXPENSE")
        Of(c) == SelectSeq(own, LAMBDA t : t.category = c)
    IN [total |-> Total(own), count |-> Len(own),
        categories |-> [c \in {own[i].category : i \in DOMAIN own} |->
            [amount |-> Total(Of(c)), count |-> Len(Of(c)),
             percentage |-> Percentage(Total(Of(c)), Total(own))]]]

\* buildBudgetSummary, of one currency and type: a budget without a category is
\* an OVERALL one.
BudgetSummary(budgets, txs, period, currency, overall) ==
    LET items    == SelectSeq(budgets, LAMBDA b :
                        b.currency = currency /\ (b.category = None <=> overall))
        Spent(b) == ReportedSpending(b, txs, period)
        With(st) == Len(SelectSeq(items, LAMBDA b : UsageStatus(b, Spent(b)) = st))
        Added(f(_)) == FoldLeft(LAMBDA sum, b : sum + f(b), 0, items)
    IN [count |-> Len(items), amount |-> Added(LAMBDA b : b.amount), spent |-> Added(Spent),
        onTrack |-> With("ON_TRACK"), nearLimit |-> With("NEAR_LIMIT"),
        exceeded |-> With("EXCEEDED")]

\* findSavingGoals, findContributionSummaries and buildSavingGoalSummary: goals
\* are [target, currency, status, archived], contributions [goal, at, amount].
GoalSummary(goals, contributions, period, currency) ==
    LET own      == {g \in DOMAIN goals : goals[g].currency = currency /\ ~goals[g].archived}
        Saved(S) == Total(SelectSeq(contributions, LAMBDA c : c.goal \in own /\ c.at \in S))
        target   == FoldSet(LAMBDA g, sum : sum + goals[g].target, 0, own)
        saved    == Saved({contributions[i].at : i \in DOMAIN contributions})
        With(st) == Cardinality({g \in own : goals[g].status = st})
    IN [active |-> With("ACTIVE"), paused |-> With("PAUSED"), completed |-> With("COMPLETED"),
        count |-> Cardinality(own), target |-> target, saved |-> saved,
        remaining |-> Larger(target - saved, 0),
        inPeriod |-> Saved(period.from .. period.to - 1),
        progress |-> Percentage(saved, target)]

\* getOverview: the flows of a currency with the balances now and their ratios;
\* None without an income.
Overview(wallets, kept, txs, currency) ==
    LET flow == Flow(txs, currency)
    IN [flow    |-> flow,
        balance |-> FoldSet(LAMBDA k, sum : sum + wallets[k].balance, 0,
                            {k \in kept : wallets[k].currency = currency}),
        savingsRate |-> IF flow.income = 0 THEN None
                        ELSE Percentage(flow.income - flow.expense, flow.income),
        expenseRatio |-> IF flow.income = 0 THEN None
                         ELSE Percentage(flow.expense, flow.income)]

(***************************************************************************)
(* The pages of budgets and shared wallets.  A budget here also has its    *)
(* wallet, None for all of its currency, its period and rollover mode; a   *)
(* shared wallet is [owner, limits], with the monthly limit, 0 for none,   *)
(* of each active member; a transfer into it is [user, amount, at].        *)
(***************************************************************************)
CountedIn(b, t) ==
    t.type = "EXPENSE" /\ t.date \in b.start .. b.end /\ b.category \in {None, t.category}

\* getSpendingSummary, on the budget's own page
PageSpending(u, b, txs, wallets) ==
    Total(SelectSeq(txs, LAMBDA t :
        /\ CountedIn(b, t)
        /\ IF b.wallet # None THEN t.wallet = b.wallet
           ELSE t.user = u /\ wallets[t.wallet].currency = b.currency))

\* getBatchSpendingSummaries, in the list of budgets: of a budget without a
\* wallet only what was spent from wallets of its user.
ListSpending(u, b, txs, wallets) ==
    Total(SelectSeq(txs, LAMBDA t :
        /\ CountedIn(b, t)
        /\ IF b.wallet # None THEN t.wallet = b.wallet
           ELSE /\ t.user = u /\ wallets[t.wallet].owner = u
                /\ wallets[t.wallet].currency = b.currency))

\* resolveEndDate
EndDate(period, start) ==
    CASE period = "WEEKLY" -> start + 6
      [] period = "MONTHLY" -> AddMonthsClamped(start, 1) - 1
      [] period = "YEARLY" -> AddMonthsClamped(start, 12) - 1

\* renewSingleBudget neither asks for the wallet of a budget nor keeps it.
Renewed(u, b, txs, wallets) ==
    LET spent == PageSpending(u, [b EXCEPT !.wallet = None], txs, wallets)
    IN [b EXCEPT !.amount = RolledAmount(b.mode, b.amount, b.amount - spent),
                 !.wallet = None, !.start = b.end + 1, !.end = EndDate(b.period, b.end + 1)]

\* getMemberSpentInDateRange
MemberSpent(u, txs, from, to) ==
    Total(OfType(SelectSeq(Between(txs, from, to), LAMBDA t : t.user = u), "EXPENSE"))

\* getMembers: the owner and the active members with what they spent this month.
Members(wallet, txs, today) ==
    [u \in {wallet.owner} \cup DOMAIN wallet.limits |->
        MemberSpent(u, txs, FirstDayOf(today), FirstDayAfter(today) - 1)]

\* getAnalytics: transactions are compared by their date, transfers by their
\* instant with the midnights UTC of the dates.  Percentages are in tenths.
Analytics(wallet, txs, transfers, from, to) ==
    LET rows     == Between(txs, from, to)
        moved    == SelectSeq(transfers, LAMBDA t : t.at \in ColumnInstant(from) .. ColumnInstant(to))
        Of(u, seq) == SelectSeq(seq, LAMBDA t : t.user = u)
        expense  == Total(OfType(rows, "EXPENSE"))
        Tenths(part, whole) == IF whole = 0 THEN 0 ELSE (2000 * part + whole) \div (2 * whole)
    IN [income  |-> Total(OfType(rows, "INCOME")) + Total(moved),
        expense |-> expense,
        members |-> [u \in {wallet.owner} \cup DOMAIN wallet.limits |->
            LET spent == MemberSpent(u, rows, from, to)
                limit == IF u = wallet.owner THEN 0 ELSE wallet.limits[u]
                put   == Total(Of(u, OfType(rows, "INCOME"))) + Total(Of(u, moved))
            IN [spent |-> spent, count |-> Len(Of(u, OfType(rows, "EXPENSE"))),
                percentage |-> Tenths(spent, expense),
                limitUsage |-> IF limit = 0 THEN None ELSE Tenths(spent, limit),
                injected |-> put, net |-> put - spent]]]

(***************************************************************************)
(* A statement: opening balance, then the rows of [from, to] in batches,   *)
(* each after the cursor of the one before (processJob,                    *)
(* findBatchForExport).  The rows are sorted by date and id.               *)
(***************************************************************************)
Signed(txs) == Total(OfType(txs, "INCOME")) - Total(OfType(txs, "EXPENSE"))

After(cursor, i, txs) ==
    cursor = None \/ txs[i].date > cursor.date \/ (txs[i].date = cursor.date /\ i > cursor.id)

\* Mutant: the cursor is only a date.
LaterBatch(txs, from, to, cursor, size) ==
    LET ids == SelectSeq([i \in DOMAIN txs |-> i], LAMBDA i :
                   txs[i].date \in from .. to /\ (cursor = None \/ txs[i].date > cursor.date))
    IN SubSeq(ids, 1, Smaller(size, Len(ids)))

Batch(txs, from, to, cursor, size) ==
    LET ids == SelectSeq([i \in DOMAIN txs |-> i], LAMBDA i :
                   txs[i].date \in from .. to /\ After(cursor, i, txs))
    IN SubSeq(ids, 1, Smaller(size, Len(ids)))

Collected(txs, from, to, size) ==
    LET after[n \in 0 .. Len(txs) + 1] ==      \* rows so far, and the next cursor
            IF n = 0 THEN [rows |-> <<>>, cursor |-> None, more |-> TRUE]
            ELSE IF ~after[n - 1].more THEN after[n - 1]
            ELSE LET batch == Batch(txs, from, to, after[n - 1].cursor, size)
                     full  == Len(batch) = size
                 IN [rows   |-> after[n - 1].rows \o batch,
                     cursor |-> IF full THEN [date |-> txs[Last(batch)].date,
                                              id   |-> Last(batch)]
                                ELSE None,
                     more   |-> full]
    IN after[Len(txs) + 1].rows

Statement(txs, from, to, size) ==
    LET rows    == Collected(txs, from, to, size)
        opening == Signed(SelectSeq(txs, LAMBDA t : t.date < from))
    IN [rows    |-> rows,
        opening |-> opening,
        closing |-> opening + Signed([i \in DOMAIN rows |-> txs[rows[i]]])]

(***************************************************************************)
(* SavingsCalculatorEngine: amounts in cents, rates in percent.            *)
(***************************************************************************)
ActualDays(start, end) == Larger(0, end - start)

TermInterest(principal, rate, days) ==
    (2 * principal * rate * days + 36500) \div 73000        \* half up

MaturityDate(start, months) == AddMonthsClamped(start, months)

Accrued(d, today) ==
    LET days    == ActualDays(d.start, d.maturity)
        elapsed == Smaller(days, ActualDays(d.start, today))
    IN [elapsed |-> elapsed, remaining |-> days - elapsed,
        interest |-> TermInterest(d.principal, d.rate, elapsed)]

EarlyWithdrawal(d, today) ==
    LET days     == ActualDays(d.start, d.maturity)
        term     == TermInterest(d.principal, d.rate, days)
        received == TermInterest(d.principal, d.nonTerm,
                                 Smaller(days, ActualDays(d.start, today)))
    IN [received |-> received, lost |-> Larger(0, term - received),
        total |-> d.principal + received]

\* findById and findAll: a deposit here also has its status and the interest
\* estimated when it was made; a list sums up the deposits of its page.
DueSoon(d, today) == d.status = "ACTIVE" /\ Accrued(d, today).remaining \in 0 .. 3

SavingsSummary(deposits, today) ==
    LET In(statuses) == SelectSeq(deposits, LAMBDA d : d.status \in statuses)
        Sum(seq, f(_)) == FoldLeft(LAMBDA sum, d : sum + f(d), 0, seq)
    IN [principal |-> Sum(In({"ACTIVE", "MATURED"}), LAMBDA d : d.principal),
        accrued   |-> Sum(In({"ACTIVE"}), LAMBDA d : Accrued(d, today).interest),
        estimated |-> Sum(In({"ACTIVE"}), LAMBDA d : d.estimated),
        active    |-> Len(In({"ACTIVE"})),
        matured   |-> Len(In({"MATURED"})),
        settled   |-> Len(deposits) - Len(In({"ACTIVE", "MATURED"})),
        dueSoon   |-> Len(SelectSeq(deposits, LAMBDA d : DueSoon(d, today)))]

(***************************************************************************)
(* What the figures have to agree with.                                    *)
(***************************************************************************)

\* A question about a day, week, month or year covers the dates of the report
\* of that name, "last" ends where "this" begins, and its answer is the sum of
\* its groups and of the report's currencies (resolveDateRange and execute
\* against resolvePeriod and toMoneyFlows).
PresetOf == [TODAY |-> "DAY", THIS_WEEK |-> "WEEK", THIS_MONTH |-> "MONTH", THIS_YEAR |-> "YEAR"]

QueryAgrees(txs, today, Currencies) ==
    /\ \A type \in DOMAIN PresetOf :
          LET range  == DateRange(type, today)
              period == Period(PresetOf[type], today, None)
              answer == Answer(txs, range, "EXPENSE", "currency")
          IN /\ period = [from |-> Midnight(range.from), to |-> Midnight(range.to + 1)]
             /\ \A c \in Currencies :
                   Flow(Fetched(txs, period), c).expense =
                       (IF c \in DOMAIN answer.groups THEN answer.groups[c] ELSE 0)
             /\ answer.total = FoldFunction(LAMBDA a, b : a + b, 0, answer.groups)
    /\ DateRange("LAST_WEEK", today).to + 1 = DateRange("THIS_WEEK", today).from
    /\ DateRange("LAST_MONTH", today).to + 1 = DateRange("THIS_MONTH", today).from
    /\ Civil(DateRange("LAST_MONTH", today).from).day = 1

\* The buckets of a series follow on from the start of the period to its end,
\* and add up to the totals of the period: every transaction is in one of them.
\* Hourly series of a custom period that starts within a day are left out: its
\* transactions count at 07:00 of their day, before the first bucket.
SeriesAgrees(period, granularity, result) ==
    result # None =>
        LET b == result.buckets
            n == Len(b)
            Added(field) ==
                LET upTo[i \in 0 .. n] ==
                        IF i = 0 THEN 0 ELSE upTo[i - 1] + result.series[i][field]
                IN upTo[n]
        IN /\ b[1].from = period.from /\ b[n].to = period.to
           /\ \A i \in 1 .. n - 1 : b[i].to = b[i + 1].from
           /\ \A i \in 1 .. n : b[i].from < b[i].to
           /\ granularity # "HOUR" \/ period.from = Midnight(DateOf(period.from))
              => \A field \in {"income", "expense", "count"} :
                     Added(field) = result.total[field]

\* A report over all days of a budget shows the spending and the status of the
\* budget's own page, and over some of its days no more spending; today's report
\* lists the budgets that are active today; what one period of a budget has left
\* or overspent changes the next by no more.
BudgetAgrees(b, txs, period, today) ==
    LET reported == ReportedSpending(b, txs, period)
        page     == Spending(b, txs)
    IN /\ reported <= page
       /\ Listed(b, Period("DAY", today, None)) <=> TimeStatus(b, today) = "ACTIVE"
       /\ ~Listed(b, period) => reported = 0
       /\ period.from <= Midnight(b.start) /\ period.to >= Midnight(b.end + 1)
          => reported = page /\ UsageStatus(b, reported) = UsageStatus(b, page)
       /\ LET left == b.amount - page
              Rolled(mode) == RolledAmount(mode, b.amount, left)
          IN /\ Rolled("ROLLOVER_NET") =
                   Rolled(IF left > 0 THEN "ROLLOVER_SURPLUS" ELSE "ROLLOVER_DEFICIT")
             /\ \A mode \in {"RESET", "ROLLOVER_SURPLUS", "ROLLOVER_DEFICIT", "ROLLOVER_NET"} :
                   Rolled(mode) \in Larger(0, b.amount - page) .. b.amount + Larger(0, left)

\* The personal and the shared report of a user have no transaction in common,
\* and list the wallets of the whole report; without a currency their rows are
\* those of the list of transactions, whose pages hold each row once.  What the
\* list has and no report is what a former member entered in a wallet that is
\* no longer shared.  With a currency the scopes of transactions do not hold:
\* see SeesTransaction.
ScopesAgree(u, txs, wallets, currency) ==
    LET In(scope) == Scoped(u, txs, wallets, None, currency, scope)
        Kept(scope) == ScopedWallets(u, wallets, None, currency, scope)
        Held(seq) == {seq[i] : i \in DOMAIN seq}
        Listing(scope, page) == ListPage(u, txs, wallets, scope, page, 2)
        Pages(scope) ==
            LET upTo[n \in 0 .. Len(txs)] ==
                    IF n = 0 THEN <<>> ELSE upTo[n - 1] \o Listing(scope, n).data
            IN upTo[Listing(scope, 1).pages]
    IN /\ Kept("ALL") = Kept("PERSONAL") \cup Kept("SHARED")
       /\ Kept("PERSONAL") \cap Kept("SHARED") = {}
       /\ currency = None =>
            /\ Held(In("PERSONAL")) \cap Held(In("SHARED")) = {}
            /\ \A scope \in {"PERSONAL", "SHARED"} : Pages(scope) = In(scope)
            /\ LET reported == UNION {Held(In(scope)) : scope \in {"ALL", "PERSONAL", "SHARED"}}
               IN /\ reported \subseteq Held(Pages("ALL"))
                  /\ \A t \in Held(Pages("ALL")) \ reported :
                        t.user # u /\ t.wallet \in Kept("PERSONAL")
            /\ \A t \in Held(In("SHARED")) : t.wallet \in Kept("SHARED")
       /\ \A k \in DOMAIN wallets :
            LET own == ScopeCurrency(u, wallets, k, currency)
            IN own # None => k \in ScopedWallets(u, wallets, k, own.currency, "ALL")

\* The reports of one period agree: the spending of the categories is that of
\* the cash flow, its percentages differ from the whole by their rounding; what
\* is saved and what is spent of an income make it up; every budget has one
\* status, and the budgets of categories spend no more than those without; the
\* goals' contributions of the period are among all of them, and nothing
\* remains exactly when the targets are saved; every row and every balance is
\* in the figures of one currency.
ReportsAgree(txs, wallets, kept, budgets, goals, contributions, period, currency) ==
    LET fetched  == Fetched(txs, period)
        spending == SpendingByCategory(fetched, currency)
        parts    == spending.categories
        Parts(f(_)) == FoldSet(LAMBDA c, sum : sum + f(c), 0, DOMAIN parts)
        percent  == Parts(LAMBDA c : parts[c].percentage)
        overview == Overview(wallets, kept, fetched, currency)
        Sums(overall) == BudgetSummary(budgets, txs, period, currency, overall)
        saved    == GoalSummary(goals, contributions, period, currency)
    IN /\ spending.total = overview.flow.expense
       /\ Parts(LAMBDA c : parts[c].amount) = spending.total
       /\ Parts(LAMBDA c : parts[c].count) = spending.count
       /\ spending.total > 0 =>
            2 * percent \in 20000 - Cardinality(DOMAIN parts) .. 20000 + Cardinality(DOMAIN parts)
       /\ overview.savingsRate # None =>
            overview.savingsRate + overview.expenseRatio \in 10000 .. 10001
       /\ \A overall \in BOOLEAN :
            LET sum == Sums(overall)
            IN sum.count = sum.onTrack + sum.nearLimit + sum.exceeded
       /\ Sums(TRUE).count = 1 => Sums(FALSE).spent <= Sums(TRUE).spent
       /\ saved.count = saved.active + saved.paused + saved.completed
       /\ saved.inPeriod <= saved.saved
       /\ saved.remaining = 0 <=> saved.saved >= saved.target
       /\ LET known == KnownCurrencies(wallets, kept, fetched, None)
              Over(f(_)) == FoldSet(LAMBDA c, sum : sum + f(c), 0, known)
          IN /\ Over(LAMBDA c : Flow(fetched, c).count) = Len(fetched)
             /\ Over(LAMBDA c : Overview(wallets, kept, fetched, c).balance)
                  = FoldSet(LAMBDA k, sum : sum + wallets[k].balance, 0, kept)

\* The list of budgets and the page of one differ in what was spent from the
\* wallets of others, and only there.  A period is followed by the next, from
\* the same weekday or to the day before that of the next month: of a budget
\* without a wallet every expense counts in one of them, and what is left or
\* overspent on its page rolls over.  The next period of a wallet's budget is
\* one of all wallets of its currency, and what rolls over is what such a
\* budget shows.
BudgetPagesAgree(u, b, txs, wallets, next) ==
    LET page  == PageSpending(u, b, txs, wallets)
        whole == [b EXCEPT !.wallet = None]
        OwnWallets(seq) == SelectSeq(seq, LAMBDA t : wallets[t.wallet].owner = u)
    IN /\ b.period = "WEEKLY" => Weekday(next.start) = Weekday(b.start)
       /\ b.period = "MONTHLY" =>
            \A d \in next.start + 1 .. next.end : Civil(d).day # Civil(next.start).day
       /\ ListSpending(u, b, txs, wallets) =
             (IF b.wallet = None THEN PageSpending(u, b, OwnWallets(txs), wallets) ELSE page)
       /\ next.start = b.end + 1 /\ next.end >= next.start /\ next.wallet = None
       /\ PageSpending(u, whole, txs, wallets) + PageSpending(u, next, txs, wallets)
             = PageSpending(u, [whole EXCEPT !.end = next.end], txs, wallets)
       /\ b.wallet = None =>
            /\ next.amount = RolledAmount(b.mode, b.amount, b.amount - page)
            /\ b.mode = "ROLLOVER_NET" /\ next.amount > 0
               => next.amount + page = 2 * b.amount

\* The analytics of a shared wallet for a month show what the list of members
\* shows; what came in and went out is that of its participants and of former
\* members; shares differ from the whole by their rounding, and a limit that is
\* spent is shown as used up.  Of two periods that follow one another none counts
\* a transfer of the other, and neither counts what is transferred from 07:00 of
\* the last day of the first to 07:00 of the next.
AnalyticsAgree(wallet, txs, transfers, today, result) ==
    LET users == DOMAIN result.members
        first == FirstDayOf(today)
        last  == FirstDayAfter(today) - 1
        Sum(f(_)) == FoldSet(LAMBDA u, sum : sum + f(u), 0, users)
        Left(seq) == SelectSeq(seq, LAMBDA t : t.user \notin users)
        gone  == Analytics([owner |-> None, limits |-> <<>>], Left(txs), Left(transfers),
                           first, last)
        share == Sum(LAMBDA u : result.members[u].percentage)
        Income(from, to) == Analytics(wallet, <<>>, transfers, from, to).income
        between == SelectSeq(transfers, LAMBDA t :
                       t.at > 24 * last + 7 /\ t.at < 24 * (last + 1) + 7)
    IN /\ [u \in users |-> result.members[u].spent] = Members(wallet, txs, today)
       /\ result.income - result.expense
             = Sum(LAMBDA u : result.members[u].net) + gone.income - gone.expense
       /\ result.expense > 0 /\ gone.expense = 0 =>
            2 * share \in 2000 - Cardinality(users) .. 2000 + Cardinality(users)
       /\ \A u \in DOMAIN wallet.limits :
            LET m == result.members[u]
            IN /\ wallet.limits[u] > 0 /\ m.spent >= wallet.limits[u] => m.limitUsage >= 1000
               /\ wallet.limits[u] > 0 /\ m.limitUsage > 1000 => m.spent > wallet.limits[u]
       /\ Income(first, last) + Income(last + 1, last + 40) + Total(between)
             = Income(first, last + 40)

\* The summary of a list of deposits is made up of those of its pages: each
\* deposit is in one count, what has accrued is at most what is estimated, and
\* all of it from maturity on; an active deposit is due soon until it is rolled
\* over, however late that is.
SavingsAgree(deposits, today, size, summary) ==
    LET Page(n) == SavingsSummary(SubSeq(deposits, (n - 1) * size + 1,
                                         Smaller(n * size, Len(deposits))), today)
        Pages(field) == FoldSet(LAMBDA n, sum : sum + Page(n)[field], 0, 1 .. Len(deposits))
        active == SelectSeq(deposits, LAMBDA d : d.status = "ACTIVE")
    IN /\ \A field \in DOMAIN summary : summary[field] = Pages(field)
       /\ summary.active + summary.matured + summary.settled = Len(deposits)
       /\ summary.accrued <= summary.estimated
       /\ (\A i \in DOMAIN active : today >= active[i].maturity) =>
            summary.accrued = summary.estimated /\ summary.dueSoon = summary.active
       /\ summary.dueSoon = Len(SelectSeq(active, LAMBDA d : d.maturity <= today + 3))

\* Whatever the batch size, a statement holds every transaction of its dates
\* once and in order, and the next statement opens where it closes.
StatementAgrees(txs, from, to, size, statement) ==
    /\ statement.rows = SelectSeq([i \in DOMAIN txs |-> i], LAMBDA i : txs[i].date \in from .. to)
    /\ statement.closing = Statement(txs, to + 1, to + 1, size).opening

\* Interest grows with the days, is the interest of the term from maturity on
\* and never more, and who leaves early at a lower rate gets no more than at
\* maturity: what is received and what is lost make up the interest of the term.
InterestAgrees(d, today) ==
    LET term  == TermInterest(d.principal, d.rate, ActualDays(d.start, d.maturity))
        early == EarlyWithdrawal(d, today)
    IN /\ Accrued(d, today).interest <= Accrued(d, today + 1).interest
       /\ Accrued(d, today).interest <= term
       /\ today >= d.maturity => Accrued(d, today).interest = term
       /\ Accrued(d, today).remaining = 0 <=> today >= d.maturity
       /\ d.nonTerm <= d.rate => early.received + early.lost = term
=============================================================================
