--------------------------- MODULE AssistantFigures -------------------------
(***************************************************************************)
(* What the AI assistant puts into its prompts from the rows of a user,    *)
(* the usage an administrator is shown, and the rates of exchange it       *)
(* tells without a model.                                                  *)
(***************************************************************************)
EXTENDS Integers, FiniteSets, SequencesExt, FiniteSetsExt

CONSTANTS MaxSample,    \* AI_MAX_CONTEXT_TRANSACTIONS
          MaxGroups,    \* category groups in a prompt
          None

\* A row: [date, wallet, category, type, amount]; wallets is a function from
\* the user's own wallets to their currencies, places from all wallets.
SumOf(rows) == FoldLeft(LAMBDA sum, t : sum + t.amount, 0, rows)

\* getFinancialContext: the user's rows of the days from .. to, whoever owns
\* the wallet.
ContextRows(rows, places, from, to, currency) ==
    SelectSeq(rows, LAMBDA t :
        t.date \in from .. to /\ currency \in {None, places[t.wallet]})
ContextWallets(wallets, currency) ==
    {w \in DOMAIN wallets : currency \in {None, wallets[w]}}

\* toPromptData goes through the groups by wallet, category and type; one of
\* a wallet that is not the user's is skipped.
KeyOf(wallets, t) == [category |-> t.category, currency |-> wallets[t.wallet], type |-> t.type]
Larger(a, b) == a.amount > b.amount
PromptData(rows, wallets, places, from, to, currency) ==
    LET found == ContextRows(rows, places, from, to, currency)
        owned == ContextWallets(wallets, currency)
        kept == SelectSeq(found, LAMBDA t : t.wallet \in owned)
        In(c, type) == SelectSeq(kept, LAMBDA t : wallets[t.wallet] = c /\ t.type = type)
        totals == {[key |-> k, amount |-> SumOf(SelectSeq(kept, LAMBDA t : KeyOf(wallets, t) = k))] :
                       k \in {KeyOf(wallets, kept[i]) : i \in DOMAIN kept}}
        sorted == SetToSortSeq(totals, Larger)
    IN [flow |-> [c \in {wallets[kept[i].wallet] : i \in DOMAIN kept} |->
                     [income |-> SumOf(In(c, "INCOME")), expense |-> SumOf(In(c, "EXPENSE")),
                      count |-> Len(In(c, "INCOME")) + Len(In(c, "EXPENSE"))]],
        groups |-> SubSeq(sorted, 1, IF Len(sorted) < MaxGroups THEN Len(sorted) ELSE MaxGroups),
        groupCount |-> Cardinality(totals),
        count |-> Len(found),
        sample |-> IF Len(found) < MaxSample THEN Len(found) ELSE MaxSample,
        truncated |-> Len(found) > MaxSample]

\* The groups that are left out are the smallest, those that are in the
\* prompt add up to the cash flow of their currency when none is left out,
\* and a prompt counts more rows than its flows only for rows in wallets of
\* other users.
PromptAgrees(rows, wallets, places, from, to, currency, p) ==
    LET Of(c, type) == SelectSeq(p.groups, LAMBDA g : g.key.currency = c /\ g.key.type = type)
        foreign == SelectSeq(rows, LAMBDA t :
            /\ t.date \in from .. to /\ t.wallet \notin DOMAIN wallets
            /\ currency \in {None, places[t.wallet]})
    IN /\ \A c \in DOMAIN p.flow :
            IF p.groupCount <= MaxGroups
            THEN SumOf(Of(c, "INCOME")) = p.flow[c].income /\ SumOf(Of(c, "EXPENSE")) = p.flow[c].expense
            ELSE SumOf(Of(c, "INCOME")) <= p.flow[c].income /\ SumOf(Of(c, "EXPENSE")) <= p.flow[c].expense
       /\ \A i \in 1 .. Len(p.groups) - 1 : p.groups[i].amount >= p.groups[i + 1].amount
       /\ p.count = MapThenSumSet(LAMBDA c : p.flow[c].count, DOMAIN p.flow) + Len(foreign)
       /\ p.truncated <=> p.sample < p.count

\* getUsageSummary.  A row: [feature, status, latency].  Rates are in tenths
\* of a percent; a mean is rounded half up.
Rounded(n, d) == (2 * n + d) \div (2 * d)
WithStatus(rows, status) == SelectSeq(rows, LAMBDA t : t.status = status)
SumLatency(rows) == FoldLeft(LAMBDA sum, t : sum + t.latency, 0, rows)

\* Groups of a feature and a status whose mean is 0 are not counted.
FeatureUsage(rows, f) ==
    LET mine == SelectSeq(rows, LAMBDA t : t.feature = f)
        timed == {s \in {mine[i].status : i \in DOMAIN mine} : SumLatency(WithStatus(mine, s)) > 0}
        count == MapThenSumSet(LAMBDA s : Len(WithStatus(mine, s)), timed)
    IN [total |-> Len(mine), success |-> Len(WithStatus(mine, "SUCCESS")),
        failed |-> Len(WithStatus(mine, "FAILED")),
        latency |-> IF count = 0 THEN 0
                    ELSE Rounded(MapThenSumSet(LAMBDA s : SumLatency(WithStatus(mine, s)), timed), count)]

UsageSummary(rows) ==
    LET success == Len(WithStatus(rows, "SUCCESS"))
        failed == Len(WithStatus(rows, "FAILED"))
    IN [total |-> Len(rows), success |-> success, failed |-> failed,
        limited |-> Len(WithStatus(rows, "RATE_LIMITED")),
        rate |-> IF success + failed = 0 THEN 1000 ELSE Rounded(1000 * success, success + failed),
        latency |-> IF rows = <<>> THEN 0 ELSE Rounded(SumLatency(rows), Len(rows)),
        byFeature |-> [f \in {rows[i].feature : i \in DOMAIN rows} |-> FeatureUsage(rows, f)]]

\* The features add up to the whole, requests over the rate limit count
\* neither for nor against it, and no feature looks faster than its requests.
UsageAgrees(rows, u) ==
    LET Over(Field(_)) == MapThenSumSet(LAMBDA f : Field(u.byFeature[f]), DOMAIN u.byFeature)
    IN /\ Over(LAMBDA x : x.total) = u.total /\ Over(LAMBDA x : x.success) = u.success
       /\ Over(LAMBDA x : x.failed) = u.failed
       /\ u.success + u.failed + u.limited = u.total
       /\ u.rate \in 0 .. 1000
       /\ u.failed = 0 <=> u.rate = 1000
       /\ \A f \in DOMAIN u.byFeature :
            LET mine == SelectSeq(rows, LAMBDA t : t.feature = f)
            IN u.byFeature[f].latency >= Rounded(SumLatency(mine), Len(mine))

\* The hour, in UTC, at which the usage of a period begins.
UsageFrom(period, now) ==
    CASE period = "today" -> (((now + 7) \div 24) * 24) - 7
      [] period = "week"  -> now - 7 * 24
      [] period = "month" -> now - 30 * 24

\* Today is the hours since midnight in Vietnam.
PeriodAgrees(now, from) ==
    \A h \in now - 48 .. now : h >= from <=> (h + 7) \div 24 = (now + 7) \div 24

\* getExchangeRate: what the first feed that knows a rate says, and else the
\* rate in the table, by way of the dong; a currency that is not in the
\* table counts as dong.  A rate is a fraction.
Table == [VND |-> 1, JPY |-> 168, USD |-> 25922]
InVnd(c) == IF c \in DOMAIN Table THEN Table[c] ELSE 1
ExchangeRate(from, to, feeds) ==
    LET knowing == {i \in DOMAIN feeds : feeds[i] \notin {None, 0}}
    IN IF from = to THEN <<1, 1>>
       ELSE IF knowing # {} THEN <<feeds[Min(knowing)], 1>>
       ELSE <<InVnd(from), InVnd(to)>>

\* A rate is positive whatever the feeds say; offline, and between currencies
\* of the table, there and back again is what one had.
RateAgrees(from, to, feeds, r) ==
    LET back == ExchangeRate(to, from, feeds) IN
    /\ r[1] > 0 /\ r[2] > 0
    /\ from = to => r[1] = r[2]
    /\ (\A i \in DOMAIN feeds : feeds[i] = None) => r[1] * back[1] = r[2] * back[2]
    /\ \A i \in DOMAIN feeds :
         from # to /\ (\A j \in 1 .. i - 1 : feeds[j] = None) /\ feeds[i] \notin {None, 0}
           => r[1] = feeds[i]
=============================================================================
