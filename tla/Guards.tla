------------------------------- MODULE Guards -------------------------------
(***************************************************************************)
(* The financial tables of one company under their constraints and         *)
(* triggers alone (erp/migrations/0002_financial_guards.py), written by    *)
(* anybody: the services, an administrator at the console, another         *)
(* program.                                                                *)
(*                                                                         *)
(* A transaction is a sequence of statements on single rows.  A trigger    *)
(* judges each of them, a deferred trigger judges at the commit the rows   *)
(* that were touched, and a refusal rolls everything back.  Every trigger  *)
(* that lets a financial row in locks the row of the company first, so     *)
(* one transaction is followed at a time.                                  *)
(*                                                                         *)
(* The net amount and the tax of a document are one amount here, since     *)
(* they are checked in the same way; dates, accounts and journals are left *)
(* out, and the one period is open or closed.  UPDATE and DELETE on        *)
(* payments, entries and their lines are refused whatever they do          *)
(* (azula_immutable), so no action stands for them; an UPDATE that moves a *)
(* line of a document passes the checks of its DELETE and of its INSERT.   *)
(***************************************************************************)
EXTENDS Integers, FiniteSetsExt, Functions

CONSTANTS
  Invoices,       \* primary keys of invoices
  MaxPayments,    \* bound: how many payment rows there are room for
  MaxEntries,     \* bound: how many entries there are room for
  MaxCopies,      \* bound: how many equal lines a document or an entry has
  Amounts,        \* the amounts of a document, of a payment or of a line
  MaxStatements,  \* bound: how many statements a transaction has
  Nobody          \* the null foreign key

PaymentIds == 1 .. MaxPayments
EntryIds == 1 .. MaxEntries

ASSUME GuardsAssumption ==
  /\ MaxPayments \in Nat
  /\ MaxEntries \in Nat
  /\ MaxCopies \in Nat
  /\ Amounts \subseteq Nat \ {0}
  /\ Nobody \notin Invoices

VARIABLES
  invoices, lines, payments, entries, closed,  \* the rows as the open transaction has them
  committed,  \* the rows every other transaction sees
  created,    \* the entries the open transaction has created
  queued,     \* the rows its deferred triggers will judge
  statements  \* how many statements it has run

rows == <<invoices, lines, payments, entries, closed>>
guards == <<rows, committed, created, queued, statements>>

(***************************************************************************)
(* Rows.  Lines are counted: a document has so many lines of an amount,    *)
(* and so does each side of an entry.                                      *)
(***************************************************************************)
Lines == [Amounts -> 0 .. MaxCopies]
NoLines == [a \in Amounts |-> 0]
NoInvoice == [status |-> "absent", total |-> 0]
NoPayment == [invoice |-> Nobody, amount |-> 0]
NoEntry ==
  [kind |-> "absent", invoice |-> Nobody, payment |-> 0, debit |-> NoLines, credit |-> NoLines]

InvoiceRow == [status : {"draft", "validated"}, total : Amounts]
PaymentRow == [invoice : Invoices, amount : Amounts]
EntryRow ==
  [kind : {"invoice", "payment"}, invoice : Invoices, payment : PaymentIds \cup {0},
   debit : Lines, credit : Lines]

Validated == {i \in Invoices : invoices[i].status = "validated"}
Recorded == {p \in PaymentIds : payments[p] # NoPayment}
Posted == {e \in EntryIds : entries[e] # NoEntry}

CountOf(some) == SumFunction(some)
SumOf(some) == SumFunction([a \in Amounts |-> a * some[a]])
AmountsOf(i) ==
  [p \in PaymentIds |-> IF payments[p].invoice = i THEN payments[p].amount ELSE 0]
Paid(i) == SumFunction(AmountsOf(i))

InvoiceEntries(i) == {e \in Posted : entries[e].kind = "invoice" /\ entries[e].invoice = i}
PaymentEntries(p) == {e \in Posted : entries[e].kind = "payment" /\ entries[e].payment = p}

(***************************************************************************)
(* What the deferred triggers check at the commit.                         *)
(***************************************************************************)

\* azula_check_entry: two lines at least, balanced, for the amount of the document.
Expected(e) ==
  IF entries[e].kind = "invoice"
    THEN invoices[entries[e].invoice].total
    ELSE payments[entries[e].payment].amount
CheckEntry(e) ==
  /\ CountOf(entries[e].debit) + CountOf(entries[e].credit) >= 2
  /\ SumOf(entries[e].debit) = Expected(e)
  /\ SumOf(entries[e].credit) = Expected(e)

\* azula_check_document: a validated invoice has lines for its total, and its entry.
CheckDocument(i) ==
  i \in Validated =>
    /\ CountOf(lines[i]) > 0
    /\ SumOf(lines[i]) = invoices[i].total
    /\ InvoiceEntries(i) # {}

\* azula_check_payment: a payment has its entry.
CheckPayment(p) == PaymentEntries(p) # {}

\* The queue of the deferred triggers, and the foreign keys, which PostgreSQL judges then
\* too: a line belongs to an invoice that is there.
Passes(check) ==
  CASE check[1] = "entry" -> CheckEntry(check[2])
    [] check[1] = "invoice" -> CheckDocument(check[2])
    [] check[1] = "payment" -> CheckPayment(check[2])
LinesHaveInvoices == \A i \in Invoices : invoices[i] = NoInvoice => lines[i] = NoLines
Committable == LinesHaveInvoices /\ \A check \in queued : Passes(check)

(***************************************************************************)
(* Statements.                                                             *)
(***************************************************************************)
Statement == statements < MaxStatements /\ statements' = statements + 1

\* azula_invoice_guard, for INSERT and UPDATE: a validated row stays what it is.
InvoiceGuardNever(i) == i \in Invoices
InvoiceGuard(i) == i \notin Validated

WriteInvoice(i, row) ==
  /\ Statement
  /\ InvoiceGuard(i)
  /\ invoices' = [invoices EXCEPT ![i] = row]
  /\ queued' = queued \cup {<<"invoice", i>>}
  /\ UNCHANGED <<lines, payments, entries, closed, committed, created>>

DeleteInvoice(i) ==
  /\ Statement
  /\ InvoiceGuard(i)
  /\ invoices[i] # NoInvoice
  /\ invoices' = [invoices EXCEPT ![i] = NoInvoice]
  /\ UNCHANGED <<lines, payments, entries, closed, committed, created, queued>>

\* azula_invoiceline_guard: a line enters a draft, and leaves anything but a validated
\* invoice.
LineGuardNever(i) == i \in Invoices
LineGuard(i) == i \notin Validated

InsertLine(i, a) ==
  /\ Statement
  /\ invoices[i].status = "draft"
  /\ lines[i][a] < MaxCopies
  /\ lines' = [lines EXCEPT ![i][a] = @ + 1]
  /\ UNCHANGED <<invoices, payments, entries, closed, committed, created, queued>>

DeleteLine(i, a) ==
  /\ Statement
  /\ LineGuard(i)
  /\ lines[i][a] > 0
  /\ lines' = [lines EXCEPT ![i][a] = @ - 1]
  /\ UNCHANGED <<invoices, payments, entries, closed, committed, created, queued>>

\* azula_payment_guard: for a validated invoice, within what remains of its total.
InsertPayment(p, i, a) ==
  /\ Statement
  /\ Recorded = 1 .. p - 1
  /\ i \in Validated
  /\ a + Paid(i) <= invoices[i].total
  /\ payments' = [payments EXCEPT ![p] = [invoice |-> i, amount |-> a]]
  /\ queued' = queued \cup {<<"payment", p>>}
  /\ UNCHANGED <<invoices, lines, entries, closed, committed, created>>

\* azula_entry_guard, with the uniqueness of the entry of an invoice and of a payment: an
\* entry is for a validated invoice or for a payment of it, in an open period.
EntryGuard(kind, i, p) ==
  /\ ~closed
  /\ i \in Validated
  /\ kind = "invoice" => p = 0 /\ InvoiceEntries(i) = {}
  /\ kind = "payment" =>
       p \in Recorded /\ payments[p].invoice = i /\ PaymentEntries(p) = {}

InsertEntry(e, kind, i, p) ==
  /\ Statement
  /\ Posted = 1 .. e - 1
  /\ EntryGuard(kind, i, p)
  /\ entries' = [entries EXCEPT ![e] = [kind |-> kind, invoice |-> i, payment |-> p,
                                        debit |-> NoLines, credit |-> NoLines]]
  /\ created' = created \cup {e}
  /\ queued' = queued \cup {<<"entry", e>>}
  /\ UNCHANGED <<invoices, lines, payments, closed, committed>>

\* azula_entryline_guard: a line enters an entry of the same transaction only.
InsertEntryLine(e, side, a) ==
  /\ Statement
  /\ e \in created
  /\ entries[e][side][a] < MaxCopies
  /\ entries' = [entries EXCEPT ![e][side][a] = @ + 1]
  /\ queued' = queued \cup {<<"entry", e>>}
  /\ UNCHANGED <<invoices, lines, payments, closed, committed, created>>

\* A period is closed, or opened again.
UpdatePeriod ==
  /\ Statement
  /\ closed' = ~closed
  /\ UNCHANGED <<invoices, lines, payments, entries, committed, created, queued>>

(***************************************************************************)
(* The end of a transaction.                                               *)
(***************************************************************************)
Ended == created' = {} /\ queued' = {} /\ statements' = 0

Commit ==
  /\ statements > 0
  /\ Committable
  /\ committed' = rows
  /\ Ended
  /\ UNCHANGED rows

\* A statement or a check is refused, or the connection ends.
Rollback ==
  /\ statements > 0
  /\ invoices' = committed[1]
  /\ lines' = committed[2]
  /\ payments' = committed[3]
  /\ entries' = committed[4]
  /\ closed' = committed[5]
  /\ Ended
  /\ UNCHANGED committed

Init ==
  /\ invoices = [i \in Invoices |-> NoInvoice]
  /\ lines = [i \in Invoices |-> NoLines]
  /\ payments = [p \in PaymentIds |-> NoPayment]
  /\ entries = [e \in EntryIds |-> NoEntry]
  /\ closed = FALSE
  /\ committed = rows
  /\ created = {}
  /\ queued = {}
  /\ statements = 0

Next ==
  \/ \E i \in Invoices :
       \/ \E row \in InvoiceRow : WriteInvoice(i, row)
       \/ DeleteInvoice(i)
       \/ \E a \in Amounts : InsertLine(i, a) \/ DeleteLine(i, a)
       \/ \E p \in PaymentIds, a \in Amounts : InsertPayment(p, i, a)
       \/ \E e \in EntryIds, kind \in {"invoice", "payment"}, p \in PaymentIds \cup {0} :
            InsertEntry(e, kind, i, p)
  \/ \E e \in EntryIds, side \in {"debit", "credit"}, a \in Amounts : InsertEntryLine(e, side, a)
  \/ UpdatePeriod
  \/ Commit
  \/ Rollback

Spec == Init /\ [][Next]_guards

(***************************************************************************)
(* Properties.                                                             *)
(***************************************************************************)

\* Every table holds rows of its own shape.
TypeOK ==
  /\ invoices \in [Invoices -> InvoiceRow \cup {NoInvoice}]
  /\ lines \in [Invoices -> Lines]
  /\ payments \in [PaymentIds -> PaymentRow \cup {NoPayment}]
  /\ entries \in [EntryIds -> EntryRow \cup {NoEntry}]
  /\ closed \in BOOLEAN
  /\ created \subseteq EntryIds
  /\ queued \subseteq {"entry", "invoice", "payment"} \X (Invoices \cup PaymentIds \cup EntryIds)
  /\ statements \in Nat

\* Whoever writes, and however the statements of a transaction are ordered, cut short or
\* mixed over documents, the committed books are sound: a validated invoice has lines for
\* its total and one balanced entry of that amount, a payment one balanced entry of its
\* own, and an invoice is never paid beyond its total.  The rows are those of the open
\* transaction, which are the committed ones between two transactions.
BooksAreSound ==
  /\ \A i \in Validated :
       /\ CountOf(lines[i]) > 0
       /\ SumOf(lines[i]) = invoices[i].total
       /\ \E e \in EntryIds : InvoiceEntries(i) = {e}
       /\ Paid(i) <= invoices[i].total
  /\ \A p \in Recorded :
       /\ payments[p].invoice \in Validated
       /\ \E e \in EntryIds :
            /\ PaymentEntries(p) = {e}
            /\ entries[e].invoice = payments[p].invoice
  /\ \A e \in Posted : CheckEntry(e)
CommittedBooksSound == statements = 0 => BooksAreSound

\* Once committed, a validated invoice with its lines, a payment, and an entry with its
\* lines stay what they are, in whatever transaction others try to change them.
PublishedIsForever ==
  [][statements' = 0 =>
       LET was == [invoices |-> committed[1], lines |-> committed[2],
                   payments |-> committed[3], entries |-> committed[4]]
       IN /\ \A i \in Invoices : was.invoices[i].status = "validated" =>
               invoices'[i] = was.invoices[i] /\ lines'[i] = was.lines[i]
          /\ \A p \in PaymentIds : was.payments[p] # NoPayment => payments'[p] = was.payments[p]
          /\ \A e \in EntryIds : was.entries[e] # NoEntry => entries'[e] = was.entries[e]]_guards
=============================================================================
