------------------------------ MODULE Reports ------------------------------
(***************************************************************************)
(* Sales reports.  Half of them read the sales themselves (by cashier,     *)
(* VAT, customers, the list of voids), the other half read two summary     *)
(* tables: a row per business day and a row per day and product.  Only     *)
(* SummaryRebuildService writes the tables: it reads the sales of a day,   *)
(* then its credit notes, then replaces the rows in one transaction.  It   *)
(* runs at 00:15 for yesterday and today, and by hand for any range, while *)
(* sales, voids and returns go on.                                         *)
(*                                                                         *)
(* A day is a number; an amount is a whole number; a sale is what its      *)
(* basket says, and a product keeps its category and its kind of VAT.  Day *)
(* 1 is a Monday and the first of a month.                                 *)
(***************************************************************************)
EXTENDS Integers, Sequences, FiniteSets, FiniteSetsExt, Functions

CONSTANTS
    MaxSales,   \* bound on the sales
    Basket,     \* what each sale holds, in the order they are rung up
    Products,
    Category,   \* the category of each product
    Methods,    \* payment methods
    Hours,      \* business hours (24 of them in the code)
    MaxDay,     \* bound on the business days
    WeekLength, \* days of a week (7 in the code)
    ByHand,     \* the ranges of days somebody rebuilds by hand, as <<from, to>>
    ReturnKinds, \* the notes a rebuild counts: RETURN and EXCHANGE in the code
    MonthStarts, \* the days that open a calendar month
    OnHand,     \* stock of each product (the stock ledger's, fixed here)
    MaxStock,   \* the most of it to keep; 0 sets no limit
    RateDays,   \* days an overstock's sales rate is taken over (90 in the code)
    CoverDays,  \* days of sales a stock may cover before it is too much
    DeadDays    \* windows of the dead-stock report (30, 60, 90, 180 in the code)

ASSUME ReportsAssumption ==
    /\ MaxSales \in Nat /\ MaxDay \in Nat \ {0} /\ WeekLength \in Nat \ {0}
    /\ \A r \in ByHand : r[1] \in 1..r[2] /\ r[2] \in 1..MaxDay
    /\ ReturnKinds \subseteq {"RETURN", "EXCHANGE"}
    /\ 1 \in MonthStarts /\ MonthStarts \subseteq Nat
    /\ IsFiniteSet(Products) /\ IsFiniteSet(Methods) /\ IsFiniteSet(Hours)
    /\ OnHand \in [Products -> Nat] /\ MaxStock \in [Products -> Nat]
    /\ RateDays \in Nat \ {0} /\ CoverDays \in Nat /\ DeadDays \subseteq Nat \ {0}

\* sales.service.ts:408, 832, 981, 1042: what a sale holds and must add up to; only
\* a line of the standard rate has tax
IsBasket(b) ==
    /\ b.hour \in Hours /\ b.cartDiscount \in Nat
    /\ IsFiniteSet(b.lines)
    /\ b.lines \subseteq [product : Products, quantity : Nat \ {0}, total : Nat, discount : Nat,
                          tax : Nat, cost : Nat, kind : {"STANDARD", "ZERO", "EXEMPT"}]
    /\ \A l \in b.lines : l.kind # "STANDARD" => l.tax = 0
    /\ b.pay \in [Methods -> Nat]

Sales == 1..MaxSales

ASSUME BasketAssumption ==
    /\ DOMAIN Basket = Sales
    /\ \A s \in Sales : IsBasket(Basket[s])

(***************************************************************************)
(* The amounts of the sales and of their lines.                            *)
(***************************************************************************)
Lines == UNION {{<<s, l>> : l \in Basket[s].lines} : s \in Sales}
LinesIn(ss) == {x \in Lines : x[1] \in ss}
LinesOf(ss, p) == {x \in LinesIn(ss) : x[2].product = p}
LineSum(field, xs) == SumFunction([x \in xs |-> x[2][field]])

SubtotalOf == [s \in Sales |-> LineSum("total", LinesIn({s}))]
DiscountOf == [s \in Sales |-> LineSum("discount", LinesIn({s})) + Basket[s].cartDiscount]
GrandOf == [s \in Sales |-> SubtotalOf[s] - Basket[s].cartDiscount]
TaxOf == [s \in Sales |-> LineSum("tax", LinesIn({s}))]
CostOf == [s \in Sales |-> LineSum("cost", LinesIn({s}))]
PaidBy(m) == [s \in Sales |-> Basket[s].pay[m]]

ASSUME PaidAssumption == \A s \in Sales : SumFunction(Basket[s].pay) = GrandOf[s]

NoRow == [saleCount |-> -1]
Jobs == {"cron", "manual"}

VARIABLES
    today,        \* the business day
    sale,         \* Sales -> NoSale or [day, status]
    notes,        \* credit notes: [sale, kind, day]
    summary,      \* DailySalesSummary: day -> NoRow or its row
    productSales, \* DailyProductSales: day -> the products' rows
    lock,         \* day -> the rebuild whose transaction holds its row
    job,          \* each rebuild: [pc, days, row, products, missed]
    fired,        \* the nightly job of today has started
    dirty,        \* history: days whose rows are older than the day's data
    late,         \* history: days whose sales changed after the day ended
    skipped       \* history: days whose nightly job, the day after, never came or failed

shop == <<today, sale, notes>>
tables == <<summary, productSales, lock>>
history == <<dirty, late, skipped>>
reportsVars == <<today, sale, notes, summary, productSales, lock, job, fired, dirty, late, skipped>>

Days == 1..MaxDay
NoSale == [day |-> 0]
Rung == {s \in Sales : sale[s] # NoSale}
Standing(s) == sale[s].status # "VOIDED"

(***************************************************************************)
(* What a rebuild computes: the row of a day from its sales, the rows of   *)
(* its products, and the count of returns, which is that of the day's      *)
(* credit notes when there are any and of the day's sales otherwise.       *)
(***************************************************************************)
OfDay(d) == {s \in Rung : sale[s].day = d}
\* mutant: a voided sale is counted as voided and still as paid
PaymentsOfAll(ss) == [m \in Methods |-> SumFunctionOnSet(PaidBy(m), ss)]

PaymentsOf(ss) == [m \in Methods |-> SumFunctionOnSet(PaidBy(m), {s \in ss : Standing(s)})]

RowOf(ss) ==
    LET standing == {s \in ss : Standing(s)} IN
    [saleCount |-> Cardinality(standing),
     voidCount |-> Cardinality(ss \ standing),
     returnCount |-> Cardinality({n \in notes : n.sale \in standing /\ n.kind \in ReturnKinds}),
     subtotal |-> SumFunctionOnSet(SubtotalOf, standing),
     discount |-> SumFunctionOnSet(DiscountOf, standing),
     tax |-> SumFunctionOnSet(TaxOf, standing),
     grand |-> SumFunctionOnSet(GrandOf, standing),
     cost |-> SumFunctionOnSet(CostOf, standing),
     payments |-> PaymentsOf(ss),
     byHour |-> [h \in Hours |-> SumFunctionOnSet(GrandOf, {s \in standing : Basket[s].hour = h})]]

ProductRow(ss, p) ==
    [product |-> p, quantity |-> LineSum("quantity", LinesOf(ss, p)),
     revenue |-> LineSum("total", LinesOf(ss, p)), cost |-> LineSum("cost", LinesOf(ss, p)),
     lineCount |-> Cardinality(LinesOf(ss, p))]
ProductRows(d) ==
    LET standing == {s \in OfDay(d) : Standing(s)} IN
    {ProductRow(standing, p) : p \in {q \in Products : LinesOf(standing, q) # {}}}

NotesOfDay(d) == {n \in notes : n.day = d /\ n.kind \in ReturnKinds}

(***************************************************************************)
(* The shop goes on: sales, voids (any day, with approval), returns.       *)
(***************************************************************************)
Idle == [pc |-> "idle", days |-> <<>>, row |-> NoRow, products |-> {}, missed |-> FALSE]

ReportsInit ==
    /\ today = 1
    /\ sale = [s \in Sales |-> NoSale]
    /\ notes = {}
    /\ summary = [d \in Days |-> NoRow]
    /\ productSales = [d \in Days |-> {}]
    /\ lock = [d \in Days |-> "none"]
    /\ job = [j \in Jobs |-> Idle]
    /\ fired = TRUE
    /\ dirty = {} /\ late = {} /\ skipped = {}

\* History only: a change of day d's data makes its rows, and what a rebuild
\* has read of it, out of date.
Touch(ds) ==
    /\ dirty' = dirty \cup ds
    /\ job' = [j \in Jobs |->
        IF job[j].pc \in {"read", "ready", "writing"} /\ Head(job[j].days) \in ds
        THEN [job[j] EXCEPT !.missed = TRUE] ELSE job[j]]
    /\ late' = late \cup {d \in ds : d < today}

\* Sales are numbered in the order they are rung up.
Ring(s) ==
    /\ sale[s] = NoSale /\ s = Cardinality(Rung) + 1
    /\ sale' = [sale EXCEPT ![s] = [day |-> today, status |-> "COMPLETED"]]
    /\ Touch({today})
    /\ UNCHANGED <<today, notes, tables, fired, skipped>>

VoidSale(s) ==
    /\ s \in Rung
    /\ sale[s].status = "COMPLETED"
    /\ sale' = [sale EXCEPT ![s].status = "VOIDED"]
    /\ notes' = notes \cup {[sale |-> s, kind |-> "VOID", day |-> today]}
    /\ Touch({sale[s].day})
    /\ UNCHANGED <<today, tables, fired, skipped>>

ReturnSale(s, kind) ==
    /\ s \in Rung
    /\ sale[s].status = "COMPLETED"
    /\ sale' = [sale EXCEPT ![s].status = "REFUNDED"]
    /\ notes' = notes \cup {[sale |-> s, kind |-> kind, day |-> today]}
    /\ Touch({sale[s].day, today})
    /\ UNCHANGED <<today, tables, fired, skipped>>

\* Midnight.  A nightly job that did not start (the server was down) is not
\* caught up later.
NextDay ==
    /\ today < MaxDay
    /\ today' = today + 1
    /\ fired' = FALSE
    /\ skipped' = IF fired THEN skipped ELSE skipped \cup {today - 1}
    /\ UNCHANGED <<sale, notes, tables, job, dirty, late>>

(***************************************************************************)
(* Rebuilding: for each day in turn, read its sales, read its notes, take  *)
(* the row in a transaction, replace the products' rows, commit.           *)
(***************************************************************************)
\* mutant: the nightly job rebuilds the new day only
NightDaysToday == <<today>>

NightDays == IF today = 1 THEN <<today>> ELSE <<today - 1, today>>

StartJob(j, days) == job' = [job EXCEPT ![j] = [Idle EXCEPT !.pc = "next", !.days = days]]

Nightly ==
    /\ ~fired /\ job["cron"].pc = "idle"
    /\ fired' = TRUE
    /\ StartJob("cron", NightDays)
    /\ UNCHANGED <<shop, tables, history>>

RebuildRange(from, to) ==
    /\ job["manual"].pc = "idle"
    /\ StartJob("manual", [i \in 1..(to - from + 1) |-> from + i - 1])
    /\ UNCHANGED <<shop, tables, fired, history>>

DayOf(j) == Head(job[j].days)

ReadSales(j) ==
    /\ job[j].pc = "next"
    /\ job' = [job EXCEPT ![j] = [@ EXCEPT !.pc = "read", !.missed = FALSE,
                                           !.row = RowOf(OfDay(DayOf(j))),
                                           !.products = ProductRows(DayOf(j))]]
    /\ UNCHANGED <<shop, tables, fired, history>>

ReadNotes(j) ==
    /\ job[j].pc = "read"
    /\ LET count == Cardinality(NotesOfDay(DayOf(j))) IN
       job' = [job EXCEPT ![j].pc = "ready",
                          ![j].row.returnCount = IF count > 0 THEN count ELSE @]
    /\ UNCHANGED <<shop, tables, fired, history>>

\* mutant: the row is written outside the transaction that replaces the products' rows
UpsertRowAlone(j) ==
    /\ job[j].pc = "ready" /\ lock[DayOf(j)] = "none"
    /\ lock' = [lock EXCEPT ![DayOf(j)] = j]
    /\ summary' = [summary EXCEPT ![DayOf(j)] = job[j].row]
    /\ job' = [job EXCEPT ![j].pc = "writing"]
    /\ UNCHANGED <<shop, productSales, fired, history>>

\* The upsert holds the day's row until the commit: a second rebuild of the day
\* waits here, with what it read before.
UpsertRow(j) ==
    /\ job[j].pc = "ready" /\ lock[DayOf(j)] = "none"
    /\ lock' = [lock EXCEPT ![DayOf(j)] = j]
    /\ job' = [job EXCEPT ![j].pc = "writing"]
    /\ UNCHANGED <<shop, summary, productSales, fired, history>>

CommitDay(j) ==
    /\ job[j].pc = "writing"
    /\ LET d == DayOf(j) IN
        /\ summary' = [summary EXCEPT ![d] = job[j].row]
        /\ productSales' = [productSales EXCEPT ![d] = job[j].products]
        /\ lock' = [lock EXCEPT ![d] = "none"]
        /\ dirty' = IF job[j].missed THEN dirty \cup {d} ELSE dirty \ {d}
    /\ job' = [job EXCEPT ![j] = IF Len(job[j].days) = 1 THEN Idle
                                 ELSE [Idle EXCEPT !.pc = "next", !.days = Tail(job[j].days)]]
    /\ UNCHANGED <<shop, fired, late, skipped>>

\* The database refuses: the transaction rolls back and the days still to do are
\* left as they were (the cron only logs it, the request answers 500).
FailJob(j) ==
    /\ job[j].pc \in {"next", "read", "ready", "writing"}
    /\ lock' = [d \in Days |-> IF lock[d] = j THEN "none" ELSE lock[d]]
    /\ job' = [job EXCEPT ![j] = Idle]
    /\ skipped' = IF j = "cron" /\ Len(job[j].days) = 2 THEN skipped \cup {DayOf(j)} ELSE skipped
    /\ UNCHANGED <<shop, summary, productSales, fired, dirty, late>>

JobStep(j) == ReadSales(j) \/ ReadNotes(j) \/ UpsertRow(j) \/ CommitDay(j)

ReportsNext ==
    \/ \E s \in Sales : Ring(s) \/ VoidSale(s)
    \/ \E s \in Sales, k \in ReturnKinds : ReturnSale(s, k)
    \/ NextDay
    \/ Nightly
    \/ \E r \in ByHand : RebuildRange(r[1], r[2])
    \/ \E j \in Jobs : JobStep(j) \/ FailJob(j)

ReportsSpec == ReportsInit /\ [][ReportsNext]_reportsVars

\* A rebuild that started goes on: Node.js runs the continuation of every query
\* that answers, and a query answers once the lock it waits for is released.
ReportsFairSpec ==
    /\ ReportsSpec
    /\ WF_reportsVars(Nightly)
    /\ \A j \in Jobs : SF_reportsVars(JobStep(j))

(***************************************************************************)
(* The reports.  A range of days is closed; the live periods of            *)
(* sales.service.ts are half-open and run to the end of the week or month. *)
(***************************************************************************)
WeekStart(d) == d - ((d - 1) % WeekLength)
MonthStart(d) == Max({m \in MonthStarts : m <= d} \cup {0})  \* 0: before the first month

Ranges == {r \in [from : Days, to : Days] : r.from <= r.to}
Preset == [today |-> [from |-> today, to |-> today],
           yesterday |-> [from |-> today - 1, to |-> today - 1],
           last_month |-> [from |-> MonthStart(MonthStart(today) - 1), to |-> MonthStart(today) - 1],
           this_week |-> [from |-> WeekStart(today), to |-> today],
           this_month |-> [from |-> MonthStart(today), to |-> today]]

Within(r) == {d \in Days : r.from <= d /\ d <= r.to}
\* aggregateSummaries: a day without a row counts as nothing
Recorded(r) == {d \in Within(r) : summary[d] # NoRow}
SummaryTotal(r, field) == SumFunction([d \in Recorded(r) |-> summary[d][field]])
SummaryPayments(r, m) == SumFunction([d \in Recorded(r) |-> summary[d].payments[m]])
SummaryByHour(r, h) == SumFunction([d \in Recorded(r) |-> summary[d].byHour[h]])
\* The weekday is that of 21:00 UTC the evening before: a Monday counts as a Sunday.
WeekdayHeatmap(r, w, h) ==
    SumFunction([d \in {e \in Recorded(r) : (e - 1) % WeekLength = w} |-> summary[d].byHour[h]])
SalesByDay(r) == [d \in Recorded(r) |-> summary[d]]

RowsWithin(r) == UNION {{<<d, row>> : row \in productSales[d]} : d \in Within(r)}
Summed(rows) ==
    [quantity |-> LineSum("quantity", rows), revenue |-> LineSum("revenue", rows),
     cost |-> LineSum("cost", rows)]
SalesByCategory(r, c) == Summed({dr \in RowsWithin(r) : Category[dr[2].product] = c})
ProductTotals(r, p) == Summed({dr \in RowsWithin(r) : dr[2].product = p})
SoldSince(r) == {dr[2].product : dr \in RowsWithin(r)}

\* The period the dashboard compares with: as long, and just before.
Before(r) == [from |-> r.from - (r.to - r.from + 1), to |-> r.from - 1]
Dashboard(r) ==
    [sales |-> SummaryTotal(r, "grand"), transactions |-> SummaryTotal(r, "saleCount"),
     profit |-> SummaryTotal(r, "grand") - SummaryTotal(r, "cost"),
     salesPrev |-> SummaryTotal(Before(r), "grand"),
     byHour |-> [h \in Hours |-> SummaryByHour(r, h)],
     byMethod |-> [m \in Methods |-> SummaryPayments(r, m)]]

\* Products in falling order of revenue (ties in either order), each with the class
\* its cumulated share falls in; shares are rounded to hundredths of a per cent.
Rankings(r) ==
    LET sold == SoldSince(r) IN
    {q \in [1..Cardinality(sold) -> sold] :
        \A i, j \in DOMAIN q : i < j =>
            q[i] # q[j] /\ ProductTotals(r, q[i]).revenue >= ProductTotals(r, q[j]).revenue}
AbcClass(r, q, i) ==
    LET revenue == [k \in DOMAIN q |-> ProductTotals(r, q[k]).revenue]
        running == SumFunctionOnSet(revenue, 1..i)
        total == SumFunction(revenue)
        share == IF total > 0 THEN (20000 * running + total) \div (2 * total) ELSE 10000
    IN  IF share <= 8000 THEN "A" ELSE IF share <= 9500 THEN "B" ELSE "C"

\* Days of inventory in tenths: what is left over what sells in a day.
Turnover(r) ==
    [p \in SoldSince(r) |->
        LET sold == ProductTotals(r, p).quantity IN
        (20 * OnHand[p] * (r.to - r.from + 1) + sold) \div (2 * sold)]

LastDays(n) == [from |-> today - (n - 1), to |-> today]
DeadStock(n) == {p \in Products : OnHand[p] > 0} \ SoldSince(LastDays(n))
OverLimit(p) == MaxStock[p] > 0 /\ OnHand[p] > MaxStock[p]
Overstock ==
    LET sold(p) == ProductTotals(LastDays(RateDays), p).quantity IN
    {p \in Products : OnHand[p] > 0 /\
        IF sold(p) = 0 THEN MaxStock[p] = 0 \/ OverLimit(p)
        ELSE OnHand[p] * RateDays > CoverDays * sold(p) \/ OverLimit(p)}

LiveSales(from, before) ==
    {s \in Rung : from <= sale[s].day /\ sale[s].day < before /\ Standing(s)}
SalesInRange(from, before) ==
    [saleCount |-> Cardinality(LiveSales(from, before)),
     grand |-> SumFunctionOnSet(GrandOf, LiveSales(from, before))]
LegacyPeriods ==
    [today |-> SalesInRange(today, today + 1),
     this_week |-> SalesInRange(WeekStart(today), WeekStart(today) + WeekLength),
     this_month |-> SalesInRange(MonthStart(today),
                        Min({m \in MonthStarts : m > today} \cup {MaxDay + 1}))]
LiveOf(r) == LiveSales(r.from, r.to + 1)
SalesByCashier(r, u) ==
    LET own == {s \in LiveOf(r) : Basket[s].cashier = u} IN
    [saleCount |-> Cardinality(own), grand |-> SumFunctionOnSet(GrandOf, own),
     cost |-> SumFunctionOnSet(CostOf, own)]
VatSummary(r) ==
    LET Rated(kind) == {x \in LinesIn(LiveOf(r)) : x[2].kind = kind} IN
    [net |-> SumFunction([x \in Rated("STANDARD") |-> x[2].total - x[2].tax]),
     zero |-> LineSum("total", Rated("ZERO")), exempt |-> LineSum("total", Rated("EXEMPT")),
     tax |-> SumFunctionOnSet(TaxOf, LiveOf(r)), grand |-> SumFunctionOnSet(GrandOf, LiveOf(r))]
CustomersReport(r, c) ==
    LET own == {s \in LiveOf(r) : Basket[s].customer = c} IN
    [visits |-> Cardinality(own), total |-> SumFunctionOnSet(GrandOf, own)]
Profile(c) ==
    LET own == {s \in Rung : Basket[s].customer = c /\ Standing(s)} IN
    [saleCount |-> Cardinality(own), totalSpend |-> SumFunctionOnSet(GrandOf, own),
     returnCount |-> Cardinality({n \in notes : Basket[n.sale].customer = c /\ n.kind = "RETURN"})]
Voids(r) == {s \in Rung : sale[s].day \in Within(r) /\ ~Standing(s)}
Discounts(r) == {s \in LiveOf(r) : DiscountOf[s] > 0}
Refunds(r) == {n \in notes : n.day \in Within(r)}

(***************************************************************************)
(* Properties                                                              *)
(***************************************************************************)
Settled(r) == \A d \in Within(r) : summary[d] # NoRow /\ d \notin dirty

Cashiers == {Basket[s].cashier : s \in Sales}
Customers == {Basket[s].customer : s \in Sales}

\* The dashboard shows today, the week and the month twice, from the tables up to
\* today and from the sales to the end of the period: the figures agree when the
\* tables are settled (reporting.service.ts:74-151, sales.service.ts:2106-2135).
DashboardAgrees ==
    /\ \A period \in DOMAIN LegacyPeriods : Settled(Preset[period]) =>
        LET shown == Dashboard(Preset[period]) IN
        LegacyPeriods[period] = [saleCount |-> shown.transactions, grand |-> shown.sales]
    /\ Dashboard(Preset.today).salesPrev = Dashboard(Preset.yesterday).sales

\* The reports read from the tables and those read from the sales say the same of
\* a range whose days were all rebuilt and have not changed since: as many sales,
\* voids and returns, the same revenue by hour, payment method, category, cashier
\* and VAT rate, the same cost (summary-rebuild.service.ts:32-171 against
\* reporting.service.ts:159-1074).
TablesFollowSales ==
    \A r \in Ranges : Settled(r) =>
        LET vat == VatSummary(r) IN
        /\ SummaryTotal(r, "saleCount") = SumFunction([u \in Cashiers |-> SalesByCashier(r, u).saleCount])
        /\ SummaryTotal(r, "voidCount") = Cardinality(Voids(r))
        /\ SummaryTotal(r, "grand") = SumFunction([u \in Cashiers |-> SalesByCashier(r, u).grand])
        /\ SummaryTotal(r, "grand") = SumFunction([m \in Methods |-> SummaryPayments(r, m)])
        /\ SummaryTotal(r, "grand") = SumFunction([h \in Hours |-> SummaryByHour(r, h)])
        /\ SummaryTotal(r, "grand") = SumFunction([c \in Customers |-> CustomersReport(r, c).total])
        /\ SummaryTotal(r, "grand") = vat.grand
        /\ SummaryTotal(r, "discount") = SumFunctionOnSet(DiscountOf, Discounts(r))
        /\ SumFunction([d \in DOMAIN SalesByDay(r) |-> SalesByDay(r)[d].tax]) = vat.tax
        /\ SummaryTotal(r, "cost") = SumFunction([u \in Cashiers |-> SalesByCashier(r, u).cost])
        /\ SummaryTotal(r, "subtotal") = vat.net + vat.tax + vat.zero + vat.exempt
        /\ SummaryTotal(r, "returnCount") >= Cardinality({n \in Refunds(r) : n.kind \in ReturnKinds})
        /\ \A c \in {Category[p] : p \in Products} :
            SalesByCategory(r, c).revenue =
                LineSum("total", {x \in LinesIn(LiveOf(r)) : Category[x[2].product] = c})
        /\ SoldSince(r) = {p \in Products : LinesOf(LiveOf(r), p) # {}}

\* The products of class A make 80% of the revenue at most, but for the rounding,
\* and none of a lower class sold for more.
ClassALeads(r, q) ==
    LET A == {i \in DOMAIN q : AbcClass(r, q, i) = "A"}
        revenue == [i \in DOMAIN q |-> ProductTotals(r, q[i]).revenue]
    IN  /\ 10000 * SumFunctionOnSet(revenue, A) <= 8001 * SumFunction(revenue)
        /\ \A i \in A, j \in DOMAIN q \ A : revenue[i] >= revenue[j]

\* The stock reports follow the same tables: nothing in the dead stock was sold in
\* its window and nothing else with stock is missing from it; dead stock above its
\* limit, or with none, is overstock too, and what sells is when its days of
\* inventory exceed the cover; the products of class A make 80% of the
\* revenue at most and none of a lower class sold for more; the heatmap's weekdays
\* add up to the hours (reporting.service.ts:690-716, 1271-1340, 1409-1546).
StockReportsAgree ==
    /\ \A n \in DeadDays : Settled(LastDays(n)) =>
        DeadStock(n) = {p \in Products : OnHand[p] > 0 /\ LinesOf(LiveOf(LastDays(n)), p) = {}}
    /\ \A p \in DeadStock(RateDays) : OverLimit(p) \/ MaxStock[p] = 0 <=> p \in Overstock
    /\ \A p \in {q \in SoldSince(LastDays(RateDays)) : OnHand[q] > 0 /\ ~OverLimit(q)} :
        IF p \in Overstock THEN Turnover(LastDays(RateDays))[p] >= 10 * CoverDays
        ELSE Turnover(LastDays(RateDays))[p] <= 10 * CoverDays
    /\ \A r \in Ranges : \A q \in Rankings(r) : ClassALeads(r, q)
    /\ \A r \in Ranges, h \in Hours :
        SummaryByHour(r, h) = SumFunction([w \in 0..(WeekLength - 1) |-> WeekdayHeatmap(r, w, h)])

\* Reports that show the same figure agree on it when the tables are settled: each
\* report of a range with each other, and the two halves of the dashboard; a
\* customer's profile and the customers' report always do.
ReportsAgree ==
    /\ TablesFollowSales /\ DashboardAgrees /\ StockReportsAgree
    /\ \A c \in Customers :
        LET all == CustomersReport([from |-> 1, to |-> MaxDay], c) IN
        Profile(c).saleCount = all.visits /\ Profile(c).totalSpend = all.total

\* The day's row and its products' rows always come from one rebuild, whatever the
\* nightly job and a rebuild by hand do at once (summary-rebuild.service.ts:113-161).
TablesAgree ==
    \A d \in Days : summary[d] # NoRow =>
        LET r == [from |-> d, to |-> d] IN
        /\ summary[d].subtotal = LineSum("revenue", RowsWithin(r))
        /\ summary[d].cost = LineSum("cost", RowsWithin(r))

\* Midnight starts a rebuild after which the day that ended has a row with all its
\* sales, unless that rebuild failed or never ran or a sale of the day changed after
\* midnight.  (It need not last: a rebuild by hand that read the day earlier may
\* still overwrite it.)  summary-rebuild.service.ts:188-200
EveryDaySettles ==
    \A d \in Days :
        (today = d + 1 /\ ~fired)
            ~> (summary[d] # NoRow /\ d \notin dirty) \/ d \in late \/ d \in skipped
=============================================================================
