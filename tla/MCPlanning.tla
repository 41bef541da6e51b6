----------------------------- MODULE MCPlanning ------------------------------
(***************************************************************************)
(* What a user plans with: saving goals, categories, the figures the       *)
(* system computes, backups, and the files of receipts and of the audit    *)
(* log.  The parts share no rows, so a behaviour follows one of them.      *)
(***************************************************************************)
EXTENDS SavingGoals, Categories, FiniteSets, FiniteSetsExt, Sequences, TLC

CONSTANTS
    None, Scenes, Weights, Horizon, MaxPoints, MaxRange,
    Owners, Exporter, System, Own, Keys, Fresh, MaxOwned, MaxPlans, MaxSample, MaxGroups,
    Rows, Receipts, Callers, Entries, Archivers, ChunkSize

VARIABLES
    scene, sample, result,
    estate, exporting, file, torn, imported, spare,
    receipt, stored, frozen, caller, issued, exported, copied, unheard, left,
    auditLog, old, made, copies, pass, disturbed

I == INSTANCE Insights
F == INSTANCE Figures
K == INSTANCE Backup
D == INSTANCE Files
P == INSTANCE MicroParser
M == INSTANCE AssistantFigures

figureVars == <<sample, result>>
backupVars == <<estate, exporting, file, torn, imported, spare>>
receiptVars == <<receipt, stored, frozen, caller, issued, exported, copied, unheard, left>>
archiveVars == <<auditLog, old, made, copies, pass, disturbed>>
fileVars == <<receiptVars, archiveVars>>
vars == <<goalVars, categoryVars, figureVars, backupVars, fileVars, scene>>

-----------------------------------------------------------------------------
(***************************************************************************)
(* The samples: today is a day around the end of a year and of a short     *)
(* month; amounts are small, and lie on both sides of every threshold.     *)
(***************************************************************************)
Day(year, month, day) == F!DayNumber(year, month, day)

MCWeights == <<25, 24>>

SeqsUpTo(S, n) == UNION {[1 .. k -> S] : k \in 0 .. n}

RunwaySamples ==
    [of : {"runway"}, balance : {-1, 0, 1, 4, 9},
     buckets : SeqsUpTo([income : {0, 2}, expense : {0, 1, 3}], 2)]

DepletionSamples ==
    {b \in [of : {"depletion"}, start : {0}, end : {0, 6, 13}, today : {0, 3, 6, 12, 13},
            amount : {6, 10}, spent : 0 .. 12] : b.today <= b.end}

AnomalySamples ==
    [of : {"anomaly"}, amount : {0, 1, 4, 9, 10, 11, 20, 50},
     history : {<<>>, <<1, 1>>, <<1, 1, 1>>, <<9, 1, 2>>, <<10, 40, 12, 10>>},
     recent : {2, 3}, hour : {1, 2, 5, 6}, balance : {0, 10, 30, 100}]

Changes ==
    [type : I!PerturbationTypes, amount : {1, 3}, start : {None, 2}, duration : {None}]
        \cup [type : {"RECURRING_EXPENSE", "RECURRING_INCOME"}, amount : {2},
              start : {None, 2}, duration : {1, 2}]

SimulationSamples ==
    [of : {"simulation"}, horizon : {1, 3}, balance : {0, 5}, flow : {-1, 0, 2},
     missing : {0, 3}, changes : SeqsUpTo(Changes, 1)]
      \cup [of : {"simulation"}, horizon : {3}, balance : {5}, flow : {-1, 2},
            missing : {3}, changes : [1 .. 2 -> Changes]]

Anchors == {Day(2025, 11, 28), Day(2025, 12, 31), Day(2026, 1, 1), Day(2028, 1, 30)}

ChargeSamples ==
    [of : {"charges"}, anchor : Anchors, frequency : {"DAILY", "WEEKLY", "MONTHLY"},
     count : 3 .. 6]

MonthSamples ==
    [of : {"month"}, year : {2025, 2028}, month : 1 .. 12, offset : {0, 1, 2, 11, 12, 25}]

PreviewSamples ==
    [of : {"preview"}, anchor : Anchors, frequency : I!Frequencies, interval : {1, 2},
     from : {Day(2025, 12, 30), Day(2026, 2, 28), Day(2026, 3, 1), Day(2028, 2, 29)},
     count : {3}, end : {F!NoDate, Day(2026, 4, 30), Day(2028, 2, 29)}]

Days == Day(2025, 12, 27) .. Day(2026, 1, 5) \cup Day(2026, 2, 26) .. Day(2026, 3, 2)

QuerySamples == [of : {"query"}, today : Days]

\* Transactions around a day, sorted by date.
Around(today) ==
    LET at == <<-40, -8, -6, -1, 0, 0, 1, 5, 33>>
    IN [i \in 1 .. 9 |->
          [date |-> today + at[i], amount |-> i,
           type |-> IF i % 3 = 0 THEN "INCOME" ELSE "EXPENSE",
           currency |-> IF i % 4 = 0 THEN "USD" ELSE "VND",
           category |-> IF i % 2 = 0 THEN "food" ELSE "rent"]]

Middle == Day(2026, 1, 15)

CustomPeriods ==
    {p \in [from : {24 * (Middle - 30), 24 * (Middle - 1) + 9, 24 * Middle},
            to   : {24 * Middle + 5, 24 * (Middle + 1), 24 * (Middle + 33) + 9,
                    24 * (Middle + 400)}] : p.from < p.to}

SeriesSamples ==
    [of : {"series"}, today : {Middle}, preset : {"CUSTOM"}, custom : CustomPeriods,
     granularity : {"AUTO", "HOUR", "DAY", "WEEK", "MONTH", "YEAR"}]
      \cup [of : {"series"}, today : {Middle, Day(2025, 12, 31)},
            granularity : {"AUTO", "HOUR", "DAY", "WEEK", "MONTH"},
            preset : {"DAY", "WEEK", "MONTH", "YEAR"}, custom : {None}]

BudgetSamples ==
    [of : {"budget"}, start : {Middle - 10, Middle}, end : {Middle, Middle + 6},
     amount : {0, 5, 10}, threshold : {50, 80}, category : {None, "food"},
     currency : {"VND", "USD"}, preset : {"DAY", "MONTH", "YEAR"}]

StatementSamples ==
    [of : {"statement"}, today : {Middle}, from : {Middle - 8, Middle, Middle + 1},
     to : {Middle, Middle + 5}, size : 1 .. 4]

InterestSamples ==
    [of : {"interest"}, start : {Day(2025, 8, 31), Day(2026, 1, 31)}, months : {1, 6},
     principal : {100, 99999}, rate : {0, 5, 11}, nonTerm : {0, 1, 6},
     today : {Day(2025, 8, 30), Day(2025, 9, 1), Day(2026, 2, 28), Day(2026, 7, 31)}]

\* Wallets of two users, one of each shared with the other; w1 was shared once.
ReportWallets ==
    [w1 |-> [owner |-> "u1", shared |-> FALSE, members |-> {}, currency |-> "VND", balance |-> 3],
     w2 |-> [owner |-> "u1", shared |-> TRUE, members |-> {"u2"}, currency |-> "USD", balance |-> 5],
     w3 |-> [owner |-> "u2", shared |-> TRUE, members |-> {"u1"}, currency |-> "VND", balance |-> 0],
     w4 |-> [owner |-> "u2", shared |-> FALSE, members |-> {}, currency |-> "USD", balance |-> 7]]

EntryPlaces == <<<<"u1", "w1">>, <<"u2", "w1">>, <<"u2", "w2">>, <<"u1", "w3">>, <<"u2", "w4">>>>
ScopeSamples ==
    [of : {"scope"}, user : {"u1", "u2"}, wallet : {None} \cup DOMAIN ReportWallets,
     currency : {None, "VND", "USD"}, places : {<<i, 2, j, 4>> : i, j \in 1 .. 5} \cup {<<>>}]
Entered(s) ==
    [i \in DOMAIN s.places |->
        [id |-> i, user |-> EntryPlaces[s.places[i]][1], wallet |-> EntryPlaces[s.places[i]][2]]]

Capped(amount, of) ==
    [start |-> Middle - 10, end |-> Middle + 6, amount |-> amount, threshold |-> 80,
     category |-> of, currency |-> "VND"]
ReportSamples ==
    [of : {"reports"}, preset : {"DAY", "WEEK", "MONTH", "YEAR"}, today : {Middle, Middle - 3},
     currency : {"VND", "USD", "JPY"}, kept : {{}, {"w1"}, {"w1", "w2", "w3"}},
     budgets : {<<Capped(a, None), Capped(b, "food"), Capped(6, "rent")>> :
                    a \in {10, 14, 20}, b \in {0, 7}},
     goals : {<<>>} \cup {<<[target |-> t, currency |-> "VND", status |-> st, archived |-> FALSE],
                           [target |-> 2, currency |-> "VND", status |-> "PAUSED", archived |-> x],
                           [target |-> 9, currency |-> "USD", status |-> "ACTIVE",
                            archived |-> FALSE]>> :
                             t \in {1, 5}, st \in {"ACTIVE", "COMPLETED"}, x \in BOOLEAN}]
Contributed == <<[goal |-> 1, at |-> 24 * Middle, amount |-> 2],
                 [goal |-> 1, at |-> 24 * Middle - 1, amount |-> 1],
                 [goal |-> 2, at |-> 24 * (Middle - 40), amount |-> 4]>>

\* The expenses of a user in wallets of both, and budgets with and without a wallet.
BudgetPageSamples ==
    [of : {"budget page"}, user : {"u1", "u2"}, places : {<<i, j, 3>> : i, j \in 1 .. 5},
     start : {Middle - 14, Day(2026, 1, 31)}, amount : {4, 9}, wallet : {None, "w1", "w3"},
     period : {"WEEKLY", "MONTHLY"}, mode : {"ROLLOVER_NET", "ROLLOVER_SURPLUS"}]
CappedIn(s) ==
    [start |-> s.start, end |-> F!EndDate(s.period, s.start), period |-> s.period,
     amount |-> s.amount, mode |-> s.mode, category |-> None, currency |-> "VND",
     wallet |-> s.wallet]
SpentIn(s) ==
    [i \in 1 .. 6 |->
        [date |-> s.start + 3 * (i - 1) * (i - 1), amount |-> i, category |-> "food",
         type |-> "EXPENSE", user |-> EntryPlaces[s.places[1 + (i % 3)]][1],
         wallet |-> EntryPlaces[s.places[1 + (i % 3)]][2]]]

\* A wallet of u1 shared with u2, with a limit or without; u3 left it.
AnalyticsSamples ==
    [of : {"analytics"}, today : {Middle, Day(2026, 2, 28)}, limit : {0, 5, 7},
     users : [1 .. 3 -> {"u1", "u2", "u3"}], hour : {0, 7, 8, 23}]
SharedBy(s) == [owner |-> "u1", limits |-> [u \in {"u2"} |-> s.limit]]
SpentBy(s) ==
    [i \in 1 .. 9 |-> [Around(s.today)[i] EXCEPT !.category = None]
                        @@ [user |-> s.users[1 + (i % 3)]]]
MovedBy(s) ==
    <<[user |-> s.users[1], amount |-> 8, at |-> 24 * (F!FirstDayAfter(s.today) - 1) + s.hour],
      [user |-> s.users[2], amount |-> 16, at |-> 24 * F!FirstDayAfter(s.today) + s.hour],
      [user |-> s.users[3], amount |-> 32, at |-> 24 * F!FirstDayOf(s.today) + s.hour]>>

SavingsSamples ==
    [of : {"savings"}, size : {1, 2}, status : [1 .. 3 -> {"ACTIVE", "MATURED", "SETTLED"}],
     today : {Day(2026, 2, 25), Day(2026, 2, 28), Day(2026, 4, 1), Day(2026, 7, 31)}]
Deposited(s) ==
    [i \in 1 .. 3 |->
        LET months == <<1, 2, 6>>[i]
            start  == Day(2026, 1, 31)
            end    == F!MaturityDate(start, months)
        IN [start |-> start, maturity |-> end, principal |-> 9999 * i, rate |-> 5,
            status |-> s.status[i], estimated |-> F!TermInterest(9999 * i, 5, end - start)]]

\* What the Zalo bot shows, and what is typed as thousands or millions.
AmountSamples ==
    {[of |-> "amount", token |-> P!FormatMoney(n), amount |-> n] :
         n \in {1, 40, 999, 1000, 40000, 99999, 100500, 1000000, 1050000, 999000001}}
      \cup {[of |-> "amount", token |-> [runs |-> <<P!Digits(w, 2), P!Digits(f, d)>>,
                                        separators |-> <<c>>, unit |-> u],
             amount |-> P!Multiplier[u] * w + (P!Multiplier[u] \div 10 ^ d) * f] :
                w \in {10, 35}, f \in {0, 5}, d \in {1, 2, 3}, c \in {".", ","}, u \in {"k", "tr"}}

\* Words of two wallets and of two categories, of a wallet the user does not
\* have, and of none.
EntrySamples ==
    [of : {"entry"}, words : SeqsUpTo({"vi", "heo", "tien", "an", "trua", "momo"}, 4),
     type : {"EXPENSE", "INCOME"}, default : {None, "w1"},
     income : BOOLEAN]

Purses ==
    <<[id |-> "w1", phrase |-> <<"tien">>], [id |-> "w2", phrase |-> <<"heo">>],
      [id |-> "w3", phrase |-> <<"heo", "an">>]>>
CategoriesOf(s) ==
    <<[id |-> "c1", type |-> "EXPENSE", by |-> "name", phrase |-> <<"trua">>],
      [id |-> "c2", type |-> "EXPENSE", by |-> "synonym", phrase |-> <<"an">>],
      [id |-> "c3", type |-> "EXPENSE", by |-> "synonym", phrase |-> <<"an", "trua">>],
      [id |-> "c4", type |-> IF s.income THEN "INCOME" ELSE "EXPENSE", by |-> "synonym",
       phrase |-> <<"tien">>]>>

\* Wallet w2 is of another user, who shares it.
Wallets == [w1 |-> "VND", w3 |-> "USD"]
Places == [w1 |-> "VND", w2 |-> "VND", w3 |-> "USD"]
ContextRow(days, types, amounts) ==
    [date : days, wallet : DOMAIN Places, category : {"food", "pay"}, type : types, amount : amounts]
PromptSamples ==
    [of : {"prompt"}, currency : {None, "VND"}, days : {1, 2},
     rows : {<<x, y, z>> : x \in ContextRow({1}, {"EXPENSE"}, {3}),
                          y \in ContextRow({1, 2}, {"EXPENSE", "INCOME"}, {4}),
                          z \in ContextRow({2}, {"EXPENSE"}, {0, 4})}]
UsageSamples ==
    [of : {"usage"},
     rows : SeqsUpTo({[feature |-> f, status |-> st, latency |-> n] :
                f \in {"CHAT", "RECEIPT"}, st \in {"SUCCESS", "FAILED", "RATE_LIMITED"},
                n \in {0, 3}}, 3)]
SinceSamples == [of : {"since"}, now : 1000 .. 1047]
RateSamples ==
    [of : {"rate"}, from : {"VND", "USD", "JPY", "CHF"}, to : {"VND", "USD", "CHF"},
     feeds : [1 .. 2 -> {None, 0, 2, 3}]]

Samples ==
    UNION {RunwaySamples, DepletionSamples, AnomalySamples, SimulationSamples, ChargeSamples,
           MonthSamples, PreviewSamples, QuerySamples, SeriesSamples, BudgetSamples,
           StatementSamples, InterestSamples, AmountSamples, EntrySamples, PromptSamples,
           UsageSamples, SinceSamples, RateSamples, ScopeSamples, ReportSamples,
           BudgetPageSamples, AnalyticsSamples, SavingsSamples}

Charges(s) ==
    [i \in 1 .. s.count |->
        [date |-> I!OccurrenceAt(s.anchor, s.frequency, 1, i - 1), amount |-> 7]]

PeriodOf(s) == F!Period(s.preset, s.today, s.custom)
GranularityOf(s) == F!Granularity(s.granularity, s.preset, PeriodOf(s))
Deposit(s) ==
    [start |-> s.start, maturity |-> F!MaturityDate(s.start, s.months),
     principal |-> s.principal, rate |-> s.rate, nonTerm |-> s.nonTerm]

\* What the code computes for a sample.
Computed(s) ==
    CASE s.of = "runway"     -> I!Runway(s.balance, s.buckets)
      [] s.of = "depletion"  -> I!Depletion(s)
      [] s.of = "anomaly"    -> I!Score(s)
      [] s.of = "simulation" -> I!Simulated(s)
      [] s.of = "charges"    -> I!Found(Charges(s))
      [] s.of = "month"      -> I!MonthDate(s.year, s.month, s.offset)
      [] s.of = "preview"    -> I!Preview(s.anchor, s.frequency, s.interval, s.from,
                                          s.count, s.end)
      [] s.of = "query"      -> F!DateRange("THIS_MONTH", s.today)
      [] s.of = "series"     -> F!CashFlow(Around(s.today), PeriodOf(s), GranularityOf(s), "VND")
      [] s.of = "budget"     -> F!ReportedSpending(s, Around(Middle),
                                                     F!Period(s.preset, Middle, None))
      [] s.of = "statement"  -> F!Statement(Around(s.today), s.from, s.to, s.size)
      [] s.of = "interest"   -> F!EarlyWithdrawal(Deposit(s), s.today)
      [] s.of = "amount"     -> P!ParseAmount(s.token)
      [] s.of = "entry"      -> P!Entry(s.words, s.type, Purses, s.default, CategoriesOf(s))
      [] s.of = "prompt"     -> M!PromptData(s.rows, Wallets, Places, 1, s.days, s.currency)
      [] s.of = "usage"      -> M!UsageSummary(s.rows)
      [] s.of = "since"      -> M!UsageFrom("today", s.now)
      [] s.of = "rate"       -> M!ExchangeRate(s.from, s.to, s.feeds)
      [] s.of = "scope"      -> F!ScopeCurrency(s.user, ReportWallets, s.wallet, s.currency)
      [] s.of = "reports"    -> F!SpendingByCategory(Around(s.today), s.currency)
      [] s.of = "budget page" -> F!Renewed(s.user, CappedIn(s), SpentIn(s), ReportWallets)
      [] s.of = "analytics"  -> F!Analytics(SharedBy(s), SpentBy(s), MovedBy(s),
                                            F!FirstDayOf(s.today), F!FirstDayAfter(s.today) - 1)
      [] s.of = "savings"    -> F!SavingsSummary(Deposited(s), s.today)

Agrees(s, r) ==
    CASE s.of = "runway"     -> I!RunwayAgrees(s.balance, s.buckets, r)
      [] s.of = "depletion"  -> I!DepletionAgrees(s, r)
      [] s.of = "anomaly"    -> I!AnomalyAgrees(s, r)
      [] s.of = "simulation" -> I!SimulationAgrees(s, r)
      [] s.of = "charges"    -> I!DiscoveryAgrees(s.anchor, s.frequency, Charges(s), r)
      [] s.of = "month"      ->
            F!FirstOfMonth(s.year, s.month + s.offset) = Day(r.year, r.month, 1)
      [] s.of = "preview"    -> I!PreviewAgrees(s.anchor, s.frequency, s.interval, s.from,
                                                s.count, s.end, r)
      [] s.of = "query"      -> F!QueryAgrees(Around(s.today), s.today, {"VND", "USD"})
      [] s.of = "series"     -> F!SeriesAgrees(PeriodOf(s), GranularityOf(s), r)
      [] s.of = "budget"     -> F!BudgetAgrees(s, Around(Middle),
                                               F!Period(s.preset, Middle, None), Middle)
      [] s.of = "statement"  -> F!StatementAgrees(Around(s.today), s.from, s.to, s.size, r)
      [] s.of = "interest"   -> F!InterestAgrees(Deposit(s), s.today)
      [] s.of = "amount"     -> P!AmountAgrees(s.token, s.amount)
      [] s.of = "entry"      -> P!EntryAgrees(s.words, s.type, Purses, s.default,
                                              CategoriesOf(s), r)
      [] s.of = "prompt"     ->
            M!PromptAgrees(s.rows, Wallets, Places, 1, s.days, s.currency, r)
      [] s.of = "usage"      -> M!UsageAgrees(s.rows, r)
      [] s.of = "since"      -> M!PeriodAgrees(s.now, r)
      [] s.of = "rate"       -> M!RateAgrees(s.from, s.to, s.feeds, r)
      [] s.of = "scope"      -> F!ScopesAgree(s.user, Entered(s), ReportWallets, s.currency)
      [] s.of = "reports"    ->
            F!ReportsAgree(Around(s.today), ReportWallets, s.kept, s.budgets, s.goals,
                           Contributed, F!Period(s.preset, s.today, None), s.currency)
      [] s.of = "budget page" ->
            F!BudgetPagesAgree(s.user, CappedIn(s), SpentIn(s), ReportWallets, r)
      [] s.of = "analytics"  ->
            F!AnalyticsAgree(SharedBy(s), SpentBy(s), MovedBy(s), s.today, r)
      [] s.of = "savings"    -> F!SavingsAgree(Deposited(s), s.today, s.size, r)
-----------------------------------------------------------------------------
MCFresh == {<<2>>}

\* The account that is exported has a child category older than its parent.
Start(u) ==
    IF u # Exporter THEN [writes |-> 1, tables |-> K!Empty]
    ELSE [writes |-> 2, tables |-> [K!Empty EXCEPT
            !.wallets = <<[name |-> <<1>>, balance |-> 1, type |-> "STANDARD",
                           isArchived |-> FALSE, isDefault |-> TRUE]>>,
            !.categories = <<[name |-> "c2", parent |-> "c1", isArchived |-> FALSE],
                             [name |-> "c1", parent |-> None, isArchived |-> FALSE]>>,
            !.plans = 1]]

Init ==
    /\ scene \in Scenes
    /\ InitGoals /\ InitCategories
    /\ K!InitBackup([u \in Owners |-> Start(u)])
    /\ D!InitFiles({CHOOSE t \in Rows : TRUE})
    /\ sample \in IF scene = "figures" THEN Samples ELSE {None}
    /\ result = <<>>

Saving == scene = "goals" /\ NextGoals /\ UNCHANGED <<categoryVars, figureVars, backupVars, fileVars, scene>>

\* Three categories and a request, or two and two.
Sorting ==
    /\ scene = "categories"
    /\ NextCategories
    /\ Cardinality({c \in Categories : category'[c] # Absent})
          + Cardinality({r \in Requests : asked'[r] # Absent}) <= 4
    /\ UNCHANGED <<goalVars, figureVars, backupVars, fileVars, scene>>

Compute ==
    /\ scene = "figures" /\ result = <<>>
    /\ result' = <<Computed(sample)>>
    /\ UNCHANGED <<goalVars, categoryVars, backupVars, fileVars, scene, sample>>

\* One account is exported; of two imports the second has no resolutions;
\* the accounts are not used between imports.
BackingUp ==
    /\ scene = "backup" /\ K!NextBackup
    /\ exporting' # None => exporting'.of = Exporter
    /\ MapThenSumSet(LAMBDA u : spare'[u], Owners) >= 1
    /\ \A u \in Owners : imported[u] # None =>
         /\ spare' = spare
         /\ \A v \in Owners : imported'[v] # imported[v] => K!Plain(imported'[v])
    /\ UNCHANGED <<goalVars, categoryVars, figureVars, fileVars, scene>>

Filing ==
    /\ \/ scene = "receipts" /\ D!NextReceipts /\ UNCHANGED archiveVars
       \/ scene = "archives" /\ D!NextArchives /\ UNCHANGED receiptVars
    /\ UNCHANGED <<goalVars, categoryVars, figureVars, backupVars, scene>>

Next == Saving \/ Sorting \/ Compute \/ BackingUp \/ Filing

Spec == Init /\ [][Next]_vars

\* CategoriesFormForest says nothing of what follows a race.
UntilRaced == ~raced

\* Every variable of every scene has its type.
TypeOK == TypeOKGoals /\ TypeOKCategories /\ K!TypeOKBackup /\ D!TypeOKFiles

\* What the code computes agrees with what it is about: a runway with the
\* projected balances, a budget's exhaustion with its spending, an anomaly with
\* the amounts before, a simulation with the changes put in, a discovered
\* subscription with its schedule, a preview with the occurrences, an answer
\* a series and the reports with the transactions, a scope with the list, a
\* budget's page with the list of budgets and its next period, a shared wallet's
\* analytics with its members, a statement with the next one, a summary of
\* deposits with its pages and early interest with the term's, an amount and an entry with what was typed, a
\* prompt and the usage of the assistant with their rows, and an exchange
\* with the way back.
CalculationsAgree == result # <<>> => Agrees(sample, result[1])

\* An import adds what the file holds, once, and spoils nothing: see module
\* Backup (backup.service.ts).  Receipts and entries of the audit log are not
\* lost between the database and their files: see module Files.
BackupsAddUp == K!BackupsAddUp /\ D!FilesAreKept

Symmetry == Permutations(Contributions) \cup Permutations(Categories) \cup Permutations(Requests)
=============================================================================
