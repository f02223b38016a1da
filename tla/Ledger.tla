------------------------------- MODULE Ledger -------------------------------
(***************************************************************************)
(* The financial core of one company: erp/services.py over the rows of     *)
(* erp/models.py.                                                          *)
(*                                                                         *)
(* Every service is one database transaction that starts by locking the    *)
(* company's row, so here a service is one action.  A request that raises  *)
(* DomainError is rolled back: it is not a step.  A repeated request with  *)
(* the same key and the same payload returns what the first one did: it is *)
(* a stuttering step, and a key already used enables nothing else.         *)
(*                                                                         *)
(* Who may call a service, the texts of a document and its due date are    *)
(* left out: nothing below depends on them.                                *)
(***************************************************************************)
EXTENDS Money, FiniteSetsExt

CONSTANTS
  Invoices,        \* primary keys of invoices
  Keys,            \* Idempotency-Key values
  PeriodIds,       \* primary keys of accounting periods
  References,      \* customers and products
  LineLists,       \* the lists of lines a user may type
  LastDay,         \* the calendar is 1 .. LastDay
  DaysPerYear,     \* and this many days make a year
  Currencies,
  PaymentAmounts,  \* the amounts a payment may have
  MaxPayments,     \* bound: how many payment rows there are room for
  Nobody           \* the null foreign key

Days == 1 .. LastDay
PaymentIds == 1 .. MaxPayments
YearOf(day) == (day - 1) \div DaysPerYear
Years == 0 .. LastDay

ASSUME LedgerAssumption ==
  /\ LastDay \in Nat \ {0}
  /\ DaysPerYear \in Nat \ {0}
  /\ MaxPayments \in Nat
  /\ PaymentAmounts \subseteq Nat \ {0}
  /\ LineLists \subseteq Seq(Line)
  /\ Nobody \notin Invoices

VARIABLES
  company,     \* the configuration of the company: currency and precision
  connected,   \* a bank account or an external transaction has been stored
  archived,    \* the archived customers and products
  invoices,    \* the invoice rows, with their lines
  payments,    \* the payment rows
  entries,     \* the accounting entries, with their lines
  periods,     \* the accounting periods
  nextNumber,  \* NumberSequence: the next number of each year
  remembered   \* the idempotency records

vars == <<company, connected, archived, invoices, payments, entries, periods,
          nextNumber, remembered>>

(***************************************************************************)
(* Rows.  A slot no row uses yet holds the null row of its table.          *)
(***************************************************************************)
Accounts == {"receivable", "revenue", "tax", "bank"}
Unset == -1

InvoiceRow ==
  [status : {"absent", "draft", "validated"}, refs : SUBSET References,
   lines : LineLists \cup {<<>>}, issue : Days \cup {0}, net : Amounts, tax : Amounts,
   number : Nat, precision : Precisions \cup {Unset}, currency : Currencies \cup {Nobody}]
PaymentRow ==
  [invoice : Invoices \cup {Nobody}, amount : PaymentAmounts \cup {0}, date : Days \cup {0}]
EntryLine == [account : Accounts, debit : Nat, credit : Nat]
EntryRow ==
  [kind : {"invoice", "payment"}, invoice : Invoices, payment : PaymentIds \cup {0},
   date : Days, period : PeriodIds, lines : SUBSET EntryLine]
PeriodRow == [start : Days, end : Days \cup {0}, closed : BOOLEAN]
Memory ==
  [action : {"none", "duplicate", "validate", "payment"}, on : Invoices \cup {Nobody},
   amount : PaymentAmounts \cup {0}, date : Days \cup {0}, invoice : Invoices \cup {Nobody}]

NoInvoice ==
  [status |-> "absent", refs |-> {}, lines |-> <<>>, issue |-> 0, net |-> 0, tax |-> 0,
   number |-> 0, precision |-> Unset, currency |-> Nobody]
NoPayment == [invoice |-> Nobody, amount |-> 0, date |-> 0]
NoPeriod == [start |-> 1, end |-> 0, closed |-> FALSE]
NoMemory == [action |-> "none", on |-> Nobody, amount |-> 0, date |-> 0, invoice |-> Nobody]

Validated == {i \in Invoices : invoices[i].status = "validated"}
Recorded == {p \in PaymentIds : payments[p] # NoPayment}

Total(i) == invoices[i].net + invoices[i].tax

\* Invoice.paid: SUM(amount) over the payments of one invoice.
AmountsOf(i) ==
  [p \in PaymentIds |-> IF payments[p].invoice = i THEN payments[p].amount ELSE 0]
Paid(i) == SumFunction(AmountsOf(i))
Balance(i) == Total(i) - Paid(i)

Covers(period, day) == period.start <= day /\ day <= period.end
OpenOn(day) == {q \in PeriodIds : Covers(periods[q], day) /\ ~periods[q].closed}

Usable(refs) == refs \cap archived = {}

(***************************************************************************)
(* Parts of the services.  A mutated form of an operator, used to show     *)
(* that the properties below depend on it, stands just before it.          *)
(***************************************************************************)

\* _retry: the key has no record, so the request is not a repetition.
Fresh(k) == remembered[k] = NoMemory

\* _remember, with what the fingerprint of the request covers.
RememberOriginal(k, action, on, amount, day, result) ==
  remembered' = [remembered EXCEPT ![k] =
    [action |-> action, on |-> on, amount |-> amount, date |-> day, invoice |-> on]]
Remember(k, action, on, amount, day, result) ==
  remembered' = [remembered EXCEPT ![k] =
    [action |-> action, on |-> on, amount |-> amount, date |-> day, invoice |-> result]]

\* save_draft accepts to write invoice i with these customers, products and lines.
Draftable(i, refs, lines) ==
  /\ invoices[i].status # "validated"
  /\ Usable(refs)
  /\ Calculable(lines, company.precision)

\* The row save_draft writes: the amounts are those of the precision of the moment.
Drafted(refs, lines, day) ==
  [status |-> "draft", refs |-> refs, lines |-> lines, issue |-> day,
   net |-> Net(lines, company.precision), tax |-> Tax(lines, company.precision),
   number |-> 0, precision |-> Unset, currency |-> Nobody]

\* The row validate_invoice writes: drafted anew, numbered, and the configuration frozen.
NumberedByCount(row) ==
  [status |-> "validated", refs |-> row.refs, lines |-> row.lines, issue |-> row.issue,
   net |-> row.net, tax |-> row.tax, number |-> Cardinality(Validated) + 1,
   precision |-> company.precision, currency |-> company.currency]
Numbered(row) ==
  [status |-> "validated", refs |-> row.refs, lines |-> row.lines, issue |-> row.issue,
   net |-> row.net, tax |-> row.tax, number |-> nextNumber[YearOf(row.issue)],
   precision |-> company.precision, currency |-> company.currency]
IssuedAsDrafted(i) == Numbered(invoices[i])
Issued(i) == Numbered(Drafted(invoices[i].refs, invoices[i].lines, invoices[i].issue))

\* preview_invoice: the amounts shown for a draft, without writing anything.
Preview(i) ==
  IF invoices[i].status = "validated"
    THEN <<invoices[i].net, invoices[i].tax>>
    ELSE <<Net(invoices[i].lines, company.precision), Tax(invoices[i].lines, company.precision)>>

\* The sequence of the year of the invoice moves on by one.
AdvanceEveryYear(day) == nextNumber' = [y \in Years |-> nextNumber[y] + 1]
Advance(day) == nextNumber' = [nextNumber EXCEPT ![YearOf(day)] = @ + 1]

Debit(account, amount) == [account |-> account, debit |-> amount, credit |-> 0]
Credit(account, amount) == [account |-> account, debit |-> 0, credit |-> amount]
NonZero(lines) == {line \in lines : line.debit # 0 \/ line.credit # 0}
Debits(lines) == SumFunction([line \in lines |-> line.debit])
Credits(lines) == SumFunction([line \in lines |-> line.credit])

InvoicePostingAsDrafted(i) ==
  NonZero({Debit("receivable", Total(i)), Credit("revenue", invoices[i].net),
           Credit("tax", invoices[i].tax)})
InvoicePosting(i) ==
  NonZero({Debit("receivable", Issued(i).net + Issued(i).tax),
           Credit("revenue", Issued(i).net), Credit("tax", Issued(i).tax)})
PaymentPosting(amount) == NonZero({Debit("bank", amount), Credit("receivable", amount)})

\* _entry: one balanced entry in the open period of its date.
PostInAnyPeriod(kind, i, p, day, lines) ==
  \E q \in {r \in PeriodIds : Covers(periods[r], day)} :
    entries' = entries \cup {[kind |-> kind, invoice |-> i, payment |-> p, date |-> day,
                              period |-> q, lines |-> lines]}
Post(kind, i, p, day, lines) ==
  /\ Cardinality(lines) >= 2
  /\ Debits(lines) > 0
  /\ Debits(lines) = Credits(lines)
  /\ \E q \in OpenOn(day) :
       entries' = entries \cup {[kind |-> kind, invoice |-> i, payment |-> p, date |-> day,
                                 period |-> q, lines |-> lines]}

\* record_payment accepts the amount: written at the frozen precision, and covered.
PayableOnce(i, amount) ==
  /\ amount % Quantum(invoices[i].precision) = 0
  /\ amount <= Total(i)
Payable(i, amount) ==
  /\ amount % Quantum(invoices[i].precision) = 0
  /\ amount <= Balance(i)

\* configure_company may change the currency or the precision.
ConfigurableUntilConnected == ~connected
ConfigurableUntilValidated == Validated = {}
Configurable == Validated = {} /\ ~connected

Overlap(r, s) == r.start <= s.end /\ s.start <= r.end
HasEntries(q) == \E e \in entries : e.period = q

\* set_period accepts these dates for period q, new or not.
DatableAnytime(q, start, end) ==
  /\ start <= end
  /\ \A r \in PeriodIds \ {q} : ~Overlap(periods[r], [start |-> start, end |-> end])
Datable(q, start, end) ==
  /\ start <= end
  /\ HasEntries(q) => start = periods[q].start /\ end = periods[q].end
  /\ \A r \in PeriodIds \ {q} : ~Overlap(periods[r], [start |-> start, end |-> end])

(***************************************************************************)
(* The services.                                                           *)
(***************************************************************************)
SaveDraft(i, refs, lines, day) ==
  /\ Draftable(i, refs, lines)
  /\ invoices' = [invoices EXCEPT ![i] = Drafted(refs, lines, day)]
  /\ UNCHANGED <<company, connected, archived, payments, entries, periods, nextNumber,
                 remembered>>

DuplicateInvoice(i, copy, k, day) ==
  /\ invoices[i].status # "absent"
  /\ invoices[copy].status = "absent"
  /\ Fresh(k)
  /\ Draftable(copy, invoices[i].refs, invoices[i].lines)
  /\ invoices' = [invoices EXCEPT ![copy] = Drafted(invoices[i].refs, invoices[i].lines, day)]
  /\ Remember(k, "duplicate", i, 0, day, copy)
  /\ UNCHANGED <<company, connected, archived, payments, entries, periods, nextNumber>>

ValidateInvoice(i, k) ==
  /\ Fresh(k)
  /\ invoices[i].status = "draft"
  /\ Draftable(i, invoices[i].refs, invoices[i].lines)
  /\ Issued(i).net + Issued(i).tax > 0
  /\ Advance(invoices[i].issue)
  /\ invoices' = [invoices EXCEPT ![i] = Issued(i)]
  /\ Post("invoice", i, 0, invoices[i].issue, InvoicePosting(i))
  /\ Remember(k, "validate", i, 0, 0, i)
  /\ UNCHANGED <<company, connected, archived, payments, periods>>

\* p is the next primary key of the payment table.
RecordPayment(i, k, p, amount, day) ==
  /\ invoices[i].status = "validated"
  /\ day >= invoices[i].issue
  /\ Fresh(k)
  /\ Payable(i, amount)
  /\ Recorded = 1 .. p - 1
  /\ payments' = [payments EXCEPT ![p] = [invoice |-> i, amount |-> amount, date |-> day]]
  /\ Post("payment", i, p, day, PaymentPosting(amount))
  /\ Remember(k, "payment", i, amount, day, i)
  /\ UNCHANGED <<company, connected, archived, invoices, periods, nextNumber>>

ConfigureCompany(currency, precision) ==
  /\ company # [currency |-> currency, precision |-> precision] => Configurable
  /\ company' = [currency |-> currency, precision |-> precision]
  /\ UNCHANGED <<connected, archived, invoices, payments, entries, periods, nextNumber,
                 remembered>>

SetPeriod(q, start, end, closed) ==
  /\ Datable(q, start, end)
  /\ periods' = [periods EXCEPT ![q] = [start |-> start, end |-> end, closed |-> closed]]
  /\ UNCHANGED <<company, connected, archived, invoices, payments, entries, nextNumber,
                 remembered>>

\* ReferenceViewSet._save archives a customer or a product, or brings it back.
SetArchived(ref, flag) ==
  /\ archived' = IF flag THEN archived \cup {ref} ELSE archived \ {ref}
  /\ UNCHANGED <<company, connected, invoices, payments, entries, periods, nextNumber,
                 remembered>>

\* The connections store a first bank account or external transaction, in the currency
\* of the company.
Connect ==
  /\ connected' = TRUE
  /\ UNCHANGED <<company, archived, invoices, payments, entries, periods, nextNumber,
                 remembered>>

\* A company as bootstrap_company leaves it: accounts and journals, and no document.
Init ==
  /\ company \in [currency : Currencies, precision : Precisions]
  /\ connected = FALSE
  /\ archived = {}
  /\ invoices = [i \in Invoices |-> NoInvoice]
  /\ payments = [p \in PaymentIds |-> NoPayment]
  /\ entries = {}
  /\ periods = [q \in PeriodIds |-> NoPeriod]
  /\ nextNumber = [y \in Years |-> 1]
  /\ remembered = [k \in Keys |-> NoMemory]

Next ==
  \/ \E i \in Invoices, refs \in SUBSET References, lines \in LineLists, day \in Days :
       SaveDraft(i, refs, lines, day)
  \/ \E i, copy \in Invoices, k \in Keys, day \in Days : DuplicateInvoice(i, copy, k, day)
  \/ \E i \in Invoices, k \in Keys : ValidateInvoice(i, k)
  \/ \E i \in Invoices, k \in Keys, p \in PaymentIds, amount \in PaymentAmounts, day \in Days :
       RecordPayment(i, k, p, amount, day)
  \/ \E currency \in Currencies, precision \in Precisions : ConfigureCompany(currency, precision)
  \/ \E q \in PeriodIds, start, end \in Days, closed \in BOOLEAN :
       SetPeriod(q, start, end, closed)
  \/ \E ref \in References, flag \in BOOLEAN : SetArchived(ref, flag)
  \/ Connect

Spec == Init /\ [][Next]_vars

(***************************************************************************)
(* Properties.                                                             *)
(***************************************************************************)

\* Every table holds rows of its own shape.
TypeOK ==
  /\ company \in [currency : Currencies, precision : Precisions]
  /\ connected \in BOOLEAN
  /\ archived \subseteq References
  /\ invoices \in [Invoices -> InvoiceRow]
  /\ payments \in [PaymentIds -> PaymentRow]
  /\ entries \subseteq EntryRow
  /\ periods \in [PeriodIds -> PeriodRow]
  /\ nextNumber \in [Years -> Nat \ {0}]
  /\ remembered \in [Keys -> Memory]

\* The numbers given in a year are 1, 2, ... without a gap and without a repetition, and
\* the sequence row holds the next one: validate_invoice never loses, skips or reuses a
\* number, whatever the order in which years, drafts and duplicates come.
NumbersOf(year) ==
  {invoices[i].number : i \in {j \in Validated : YearOf(invoices[j].issue) = year}}
GapFreeNumbers ==
  /\ \A year \in Years : NumbersOf(year) = 1 .. nextNumber[year] - 1
  /\ \A i, j \in Validated :
       /\ YearOf(invoices[i].issue) = YearOf(invoices[j].issue)
       /\ invoices[i].number = invoices[j].number
       => i = j

\* The books agree with the documents: over all entries of a validated invoice, the
\* receivable is what remains to be paid, the bank what was paid, the revenue and the
\* collected tax those of the invoice; no other invoice has an entry.  validate_invoice
\* recomputes the draft before it posts, and record_payment posts one row of several.
LinesOn(account, some) ==
  UNION {{e} \X {line \in e.lines : line.account = account} : e \in some}
AccountBalance(account, i) ==
  SumFunction([posted \in LinesOn(account, {e \in entries : e.invoice = i}) |->
                 posted[2].debit - posted[2].credit])
SubledgerAgrees ==
  \A i \in Invoices :
    IF i \in Validated
      THEN /\ AccountBalance("receivable", i) = Balance(i)
           /\ AccountBalance("bank", i) = Paid(i)
           /\ AccountBalance("revenue", i) = -invoices[i].net
           /\ AccountBalance("tax", i) = -invoices[i].tax
      ELSE \A e \in entries : e.invoice # i

\* The payments of an invoice, taken together, never exceed its total, and only a
\* validated invoice is paid.
NoOverpayment ==
  /\ \A i \in Invoices : Paid(i) <= Total(i)
  /\ \A p \in Recorded : payments[p].invoice \in Validated

\* The currency and the precision frozen on each validated invoice are still those of the
\* company: amounts of two currencies or precisions never meet in the books.
FrozenConfiguration ==
  \A i \in Validated :
    /\ invoices[i].precision = company.precision
    /\ invoices[i].currency = company.currency

\* A validated invoice carries the amounts its lines give at its frozen precision, even
\* when the draft was saved under another one; so every amount in the books, payments
\* included, can be written at that precision.
AuthoritativeAmounts ==
  \A i \in Validated :
    /\ invoices[i].net = Net(invoices[i].lines, invoices[i].precision)
    /\ invoices[i].tax = Tax(invoices[i].lines, invoices[i].precision)
    /\ Total(i) % Quantum(invoices[i].precision) = 0
    /\ Balance(i) % Quantum(invoices[i].precision) = 0

\* Idempotency keys and effects correspond one to one: as many keys remember a payment of
\* an amount on a date for an invoice as there are such payments, one key remembers each
\* validation, and each duplicate was made for one key, from another invoice.
RememberedAs(action, i) ==
  {k \in Keys : remembered[k].action = action /\ remembered[k].invoice = i}
KeysWitnessEffects ==
  /\ \A i \in Invoices, amount \in PaymentAmounts, day \in Days :
       Cardinality({k \in RememberedAs("payment", i) :
                      remembered[k].amount = amount /\ remembered[k].date = day})
         = Cardinality({p \in Recorded :
                          payments[p] = [invoice |-> i, amount |-> amount, date |-> day]})
  /\ \A i \in Invoices :
       Cardinality(RememberedAs("validate", i)) = IF i \in Validated THEN 1 ELSE 0
  /\ \A i \in Invoices :
       /\ Cardinality(RememberedAs("duplicate", i)) <= 1
       /\ \A k \in RememberedAs("duplicate", i) : remembered[k].on # i

\* No two periods share a day, and every entry lies in the period it is filed under, so a
\* date names at most one period for ever, although dates of empty periods may change.
PeriodsTellTime ==
  /\ \A q, r \in PeriodIds : q # r => ~Overlap(periods[q], periods[r])
  /\ \A e \in entries : Covers(periods[e.period], e.date)

\* No entry dated in a closed period appears or disappears, by whatever service and
\* whichever period it is filed under: what was published at the closing stays true until
\* an administrator opens the period again.
ClosedBooksStable ==
  [][\A q \in PeriodIds : periods[q].closed =>
       \A e \in (entries' \ entries) \cup (entries \ entries') :
         ~Covers(periods[q], e.date)]_vars

\* What the preview of a draft shows is what validating it at that moment freezes, even
\* when the draft was saved under another configuration.
PreviewIsHonest ==
  [][\A i \in Validated' \ Validated :
       <<invoices'[i].net, invoices'[i].tax>> = Preview(i)]_vars

\* Nothing that was published is ever rewritten: validated invoices, payments, entries and
\* idempotency records only accumulate.
HistoryOnlyGrows ==
  [][/\ \A i \in Validated : invoices'[i] = invoices[i]
     /\ \A p \in Recorded : payments'[p] = payments[p]
     /\ entries \subseteq entries'
     /\ \A k \in Keys : Fresh(k) \/ remembered'[k] = remembered[k]]_vars

\* The ledger keeps the promise made to the receivers of invoices: seen through the
\* validated invoices, their payments and the sequences, every step issues one invoice,
\* takes one payment, or changes nothing they can see.
Unissued == [number |-> 0, year |-> 0, total |-> 0, paid |-> 0]
Bill(i) ==
  [number |-> invoices[i].number, year |-> YearOf(invoices[i].issue),
   total |-> Total(i), paid |-> Paid(i)]
Promise == INSTANCE InvoicePromise WITH
  bill <- [i \in Invoices |-> IF i \in Validated THEN Bill(i) ELSE Unissued],
  next <- nextNumber
KeepsPromise == Promise!Spec
=============================================================================
