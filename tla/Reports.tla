------------------------------ MODULE Reports ------------------------------
(***************************************************************************)
(* What is read of the books while they are written: the dashboard and the *)
(* exports (erp/reporting.py), the statement of a customer                 *)
(* (erp/partner_api.py), the answer that shows one invoice and the trial   *)
(* balance (erp/api.py).                                                   *)
(*                                                                         *)
(* A report is made of several queries, and each sees what is committed at *)
(* its own moment.  Only the dashboard holds the lock of the company,      *)
(* under which no service can write.  One reader is followed: readers      *)
(* change nothing.                                                         *)
(*                                                                         *)
(* Due dates are left out, as in Ledger, and so is what depends on them    *)
(* (the overdue amounts); a statement fits in one page.                    *)
(***************************************************************************)
EXTENDS Ledger

CONSTANTS
  Bounds,      \* the pairs of dates a report may be limited to
  Unbounded,   \* no limit
  ExportLimit  \* ExportView.limit

VARIABLE
  report       \* the report being made, or the last one that was shown

reports == <<vars, report>>

NoReport == [kind |-> "none", step |-> "shown"]

\* bounded_dates: the days from the first to the last one asked for.
Within(day, bounds) ==
  bounds = Unbounded \/ day \in bounds.start .. bounds.end

TotalOf(some) == SumFunction([i \in some |-> Total(i)])
PaidOf(some) == SumFunction([i \in some |-> Paid(i)])
AmountOf(rows) == SumFunction([row \in rows |-> row[2].amount])
PaymentsOf(some) == {<<p, payments[p]>> : p \in {q \in Recorded : payments[q].invoice \in some}}

\* DashboardView.get holds the lock the services wait for.
LockedNever == report.kind = "locked"
Locked == report.kind = "dashboard" /\ report.step # "shown"

Service ==
  /\ ~Locked
  /\ Next
  /\ UNCHANGED report

Ask(query) == report.step = "shown" /\ report' = query /\ UNCHANGED vars
At(kind, step) == report.kind = kind /\ report.step = step /\ UNCHANGED vars

(***************************************************************************)
(* DashboardView.get: what was invoiced and received between two dates,    *)
(* and what remains of every validated invoice whatever the dates          *)
(* (with_balance).                                                         *)
(***************************************************************************)
Invoiced(bounds) == TotalOf({i \in Validated : Within(invoices[i].issue, bounds)})
Received(bounds) == AmountOf({row \in PaymentsOf(Invoices) : Within(row[2].date, bounds)})
Outstanding ==
  LET unpaid == {i \in Validated : Balance(i) > 0} IN TotalOf(unpaid) - PaidOf(unpaid)

Dashboard(bounds) ==
  Ask([kind |-> "dashboard", step |-> "invoiced", bounds |-> bounds,
       invoiced |-> 0, received |-> 0, outstanding |-> 0])

QueryInvoiced ==
  /\ At("dashboard", "invoiced")
  /\ report' = [report EXCEPT !.step = "received", !.invoiced = Invoiced(report.bounds)]

QueryReceived ==
  /\ At("dashboard", "received")
  /\ report' = [report EXCEPT !.step = "outstanding", !.received = Received(report.bounds)]

QueryOutstanding ==
  /\ At("dashboard", "outstanding")
  /\ report' = [report EXCEPT !.step = "shown", !.outstanding = Outstanding]

(***************************************************************************)
(* customer_statement: the sums over the invoices of a customer, their     *)
(* count, the rows of a page no longer than that count, and the payments   *)
(* of these rows.                                                          *)
(***************************************************************************)
SelectedWithDrafts(customer, bounds) ==
  {i \in Invoices : customer \in invoices[i].refs /\ Within(invoices[i].issue, bounds)}
Selected(customer, bounds) ==
  {i \in Validated : customer \in invoices[i].refs /\ Within(invoices[i].issue, bounds)}

\* The oldest invoices first; the primary keys decide between those of one day.
Pages(some, count) ==
  {page \in SUBSET some :
     /\ Cardinality(page) = count
     /\ \A i \in page, j \in some \ page : invoices[i].issue <= invoices[j].issue}

Statement(customer, bounds) ==
  Ask([kind |-> "statement", step |-> "sums", customer |-> customer, bounds |-> bounds,
       total |-> 0, paid |-> 0, count |-> 0, rows |-> <<>>, listed |-> {}])

QuerySums ==
  /\ At("statement", "sums")
  /\ LET some == Selected(report.customer, report.bounds)
     IN report' = [report EXCEPT !.step = "count", !.total = TotalOf(some), !.paid = PaidOf(some)]

QueryCount ==
  /\ At("statement", "count")
  /\ report' = [report EXCEPT !.step = "rows",
                              !.count = Cardinality(Selected(report.customer, report.bounds))]

QueryRows ==
  /\ At("statement", "rows")
  /\ \E page \in Pages(Selected(report.customer, report.bounds), report.count) :
       report' = [report EXCEPT !.step = "payments",
                                !.rows = [i \in page |-> [total |-> Total(i), paid |-> Paid(i)]]]

QueryListed ==
  /\ At("statement", "payments")
  /\ report' = [report EXCEPT !.step = "shown", !.listed = PaymentsOf(DOMAIN report.rows)]

(***************************************************************************)
(* InvoiceViewSet._response: after a validation or a payment, the row of   *)
(* the invoice, its lines and its payments; InvoiceSerializer adds up the  *)
(* payments it shows.  A draft may change between these queries, and       *)
(* nothing is promised of it.                                              *)
(***************************************************************************)
Detail(i) ==
  /\ i \in Validated
  /\ Ask([kind |-> "detail", step |-> "lines", invoice |-> i, net |-> invoices[i].net,
          tax |-> invoices[i].tax, lines |-> <<>>, listed |-> {}])

QueryLines ==
  /\ At("detail", "lines")
  /\ report' = [report EXCEPT !.step = "payments", !.lines = invoices[report.invoice].lines]

QueryPayments ==
  /\ At("detail", "payments")
  /\ report' = [report EXCEPT !.step = "shown", !.listed = PaymentsOf({report.invoice})]

ShownBalance == report.net + report.tax - AmountOf(report.listed)

(***************************************************************************)
(* TrialBalanceView.get: the sums of the lines of a period by account, in  *)
(* one query.                                                              *)
(***************************************************************************)
Movements(q, account) == LinesOn(account, {e \in entries : e.period = q})

TrialBalance(q) ==
  Ask([kind |-> "trial", step |-> "shown",
       debit |-> SumFunction([account \in Accounts |->
                   SumFunction([m \in Movements(q, account) |-> m[2].debit])]),
       credit |-> SumFunction([account \in Accounts |->
                    SumFunction([m \in Movements(q, account) |-> m[2].credit])])])

(***************************************************************************)
(* ExportView.get: the company is read with the user, then the invoices in *)
(* one query; drafts are shown in the currency read first.                 *)
(***************************************************************************)
Export(bounds) ==
  Ask([kind |-> "export", step |-> "rows", bounds |-> bounds, currency |-> company.currency,
       rows |-> <<>>])

ExportRow(i, currency) ==
  [status |-> invoices[i].status, number |-> invoices[i].number, issue |-> invoices[i].issue,
   net |-> invoices[i].net, tax |-> invoices[i].tax,
   currency |-> IF invoices[i].status = "draft" THEN currency ELSE invoices[i].currency]

QueryExport ==
  /\ At("export", "rows")
  /\ LET some == {i \in Invoices : /\ invoices[i].status # "absent"
                                   /\ Within(invoices[i].issue, report.bounds)}
     IN report' = IF Cardinality(some) > ExportLimit
          THEN NoReport
          ELSE [report EXCEPT !.step = "shown",
                              !.rows = [i \in some |-> ExportRow(i, report.currency)]]

ReportsInit == Init /\ report = NoReport

ReportsNext ==
  \/ Service
  \/ \E bounds \in Bounds \cup {Unbounded} :
       \/ Dashboard(bounds)
       \/ Export(bounds)
       \/ \E customer \in References : Statement(customer, bounds)
  \/ \E i \in Invoices : Detail(i)
  \/ \E q \in PeriodIds : TrialBalance(q)
  \/ QueryInvoiced \/ QueryReceived \/ QueryOutstanding
  \/ QuerySums \/ QueryCount \/ QueryRows \/ QueryListed
  \/ QueryLines \/ QueryPayments
  \/ QueryExport

ReportsSpec == ReportsInit /\ [][ReportsNext]_reports

(***************************************************************************)
(* Properties.                                                             *)
(***************************************************************************)
Shown(kind) == report.kind = kind /\ report.step = "shown"

\* The figures shown together add up: on an unlimited dashboard, what was invoiced less
\* what was received is what remains open, although three queries read them and payments
\* are recorded all the time; and the accounts of a trial balance balance.
FiguresAddUp ==
  /\ Shown("dashboard") /\ report.bounds = Unbounded =>
       report.outstanding = report.invoiced - report.received
  /\ Shown("trial") => report.debit = report.credit

\* What a report says of one issued invoice is what the books say of it now, for it is
\* final: the totals of a statement, the amounts and the lines of an invoice shown alone,
\* the rows of an export, and every payment that is listed.
RowsAreFinal ==
  /\ report.kind = "statement" =>
       /\ \A i \in DOMAIN report.rows : i \in Validated /\ report.rows[i].total = Total(i)
       /\ report.listed \subseteq PaymentsOf(Invoices)
  /\ report.kind = "detail" =>
       LET row == invoices[report.invoice] IN
       /\ report.invoice \in Validated
       /\ report.net = row.net /\ report.tax = row.tax
       /\ report.step # "lines" => report.lines = row.lines
       /\ report.listed \subseteq PaymentsOf({report.invoice})
  /\ Shown("export") =>
       \A i \in DOMAIN report.rows : report.rows[i].status = "validated" =>
         i \in Validated /\ report.rows[i] = ExportRow(i, report.currency)

\* A reading made without the lock may lag behind the books and never contradicts them.
\* A statement has as many rows as it says, and the payments listed under a row cover what
\* the row calls paid and no more than was paid.  An invoice shown alone has the lines its
\* amounts come from, and its balance is no less than the present one.
ReadingsOnlyLag ==
  /\ RowsAreFinal
  /\ Shown("statement") =>
       /\ report.paid <= report.total
       /\ Cardinality(DOMAIN report.rows) = report.count
       /\ \A i \in DOMAIN report.rows :
            LET under == AmountOf({row \in report.listed : row[2].invoice = i})
            IN report.rows[i].paid <= under /\ under <= Paid(i)
  /\ Shown("detail") =>
       /\ report.net = Net(report.lines, company.precision)
       /\ report.tax = Tax(report.lines, company.precision)
       /\ Balance(report.invoice) <= ShownBalance
=============================================================================
