------------------------------ MODULE Banking ------------------------------
(***************************************************************************)
(* Bank accounts, imported statements and their reconciliation,            *)
(* connections/services.py and connections/api.py, on top of the ledger of *)
(* the company: a reconciliation is a payment the ledger records.          *)
(*                                                                         *)
(* Each service is one transaction under the lock of the company, as those *)
(* of the ledger, and is one action.  The triggers and the constraints of  *)
(* the tables only refuse rows: they appear in the properties, not in the  *)
(* actions, so what holds here holds of the services themselves.           *)
(*                                                                         *)
(* The IBAN, the names and the wording of a row are left out; a row of a   *)
(* file stands for all that _same_bank_row compares.                       *)
(***************************************************************************)
EXTENDS Ledger

CONSTANTS
  BankAccounts,  \* primary keys of bank accounts
  BankIds,       \* primary keys of imported rows, and the keys derived from them
  Files          \* the files a user may import, as parse_csv reads them

\* The key of the payment of a row is "bank:" and a keyed hash of its primary key: it is
\* a function of the row alone, and no user sends it.  It is written as the row itself.
UserKeys == Keys \ BankIds

NoDuplicate(file) == \A r, s \in file : r.external = s.external => r = s

ASSUME BankingAssumption ==
  /\ BankIds \subseteq Keys
  /\ Nobody \notin BankAccounts \cup Currencies
  /\ \A file \in Files : file # {} /\ NoDuplicate(file)
  /\ \A file \in Files : \A r \in file :
       r.date \in Days /\ r.amount \in Int \ {0} /\ (r.amount > 0 => r.amount \in PaymentAmounts)

VARIABLES
  accounts,   \* the bank accounts
  bank,       \* the imported rows
  previewed,  \* the digests given by previews
  imported    \* the digests of confirmed imports, as the audit keeps them

connections == <<accounts, bank, previewed, imported>>
bankVars == <<vars, connections>>

NoAccount == [currency |-> Nobody, archived |-> FALSE]
NoRow == [account |-> Nobody, row |-> Nobody, invoice |-> Nobody, payment |-> 0]

Opened == {a \in BankAccounts : accounts[a] # NoAccount}
Stored == {t \in BankIds : bank[t] # NoRow}
Reconciled == {t \in Stored : bank[t].invoice # Nobody}

\* The rows of one account.
RowsOf(a) == {bank[t].row : t \in {s \in Stored : bank[s].account = a}}

Digest(a, file) == [account |-> a, currency |-> accounts[a].currency, rows |-> file]

\* A row of the file has the identifier of a row of the account and another content.
ConflictsIgnored(a, file) == FALSE
Conflicts(a, file) ==
  \E r \in file, s \in RowsOf(a) : r.external = s.external /\ r # s

\* What both the preview and the confirmation of an import check.
Importable(a, file) ==
  /\ a \in Opened
  /\ ~accounts[a].archived
  /\ accounts[a].currency = company.currency
  /\ ~Conflicts(a, file)

\* The rows of the file that the account does not hold yet.
Missing(a, file) == {r \in file : \A s \in RowsOf(a) : r.external # s.external}

\* The row may be turned into a payment of the invoice.
ReconcilableArchived(t, i) ==
  /\ t \in Stored \ Reconciled
  /\ bank[t].row.amount > 0
  /\ invoices[i].status = "validated"
  /\ invoices[i].currency = accounts[bank[t].account].currency
Reconcilable(t, i) ==
  /\ t \in Stored \ Reconciled
  /\ ~accounts[bank[t].account].archived
  /\ bank[t].row.amount > 0
  /\ invoices[i].status = "validated"
  /\ invoices[i].currency = accounts[bank[t].account].currency

\* The payments a reconciliation takes for its own: those of the invoice that came after
\* every one it had before.
EarlierPayments(i) == {p \in Recorded : payments[p].invoice = i}
OwnPaymentsByAmount(t, i) ==
  {Min({p \in PaymentIds : payments'[p].invoice = i /\ payments'[p].amount = bank[t].row.amount})}
OwnPayments(t, i) ==
  {p \in PaymentIds : payments'[p].invoice = i /\ \A q \in EarlierPayments(i) : p > q}

(***************************************************************************)
(* The services.                                                           *)
(***************************************************************************)

\* ManagedViewSet._save on a new account.
CreateAccount(a) ==
  /\ a \notin Opened
  /\ accounts' = [accounts EXCEPT ![a] = [currency |-> company.currency, archived |-> FALSE]]
  /\ Connect
  /\ UNCHANGED <<bank, previewed, imported>>

\* ManagedViewSet._save on an account: a currency sent must be the company's, and must be
\* the one it has once there are rows.
UpdateAccount(a, currency, flag) ==
  /\ a \in Opened
  /\ currency = accounts[a].currency \/ currency = company.currency
  /\ RowsOf(a) # {} => currency = accounts[a].currency
  /\ accounts' = [accounts EXCEPT ![a] = [currency |-> currency, archived |-> flag]]
  /\ UNCHANGED <<vars, bank, previewed, imported>>

\* receive_transaction through the external interface: a transaction that only counts, for
\* the company, as a reason to keep its currency.
ReceiveExternal == Connect /\ UNCHANGED connections

PreviewImport(a, file) ==
  /\ Importable(a, file)
  /\ previewed' = previewed \cup {Digest(a, file)}
  /\ UNCHANGED <<vars, accounts, bank, imported>>

\* The rows get the primary keys "place" gives them.
ConfirmImport(a, file, place) ==
  /\ Importable(a, file)
  /\ Digest(a, file) \in previewed
  /\ place \in Injection(Missing(a, file), BankIds \ Stored)
  /\ bank' = [t \in BankIds |->
       IF t \in Range(place)
         THEN [account |-> a, row |-> CHOOSE r \in Missing(a, file) : place[r] = t,
               invoice |-> Nobody, payment |-> 0]
         ELSE bank[t]]
  /\ imported' = imported \cup {Digest(a, file)}
  /\ UNCHANGED <<vars, accounts, previewed>>

\* record_payment with the key of the row, then the row takes the payment as its own.
PayWithoutEntry(t, i, p) ==
  /\ Payable(i, bank[t].row.amount)
  /\ Recorded = 1 .. p - 1
  /\ payments' = [payments EXCEPT ![p] = [invoice |-> i, amount |-> bank[t].row.amount,
                                         date |-> bank[t].row.date]]
  /\ Remember(t, "payment", i, bank[t].row.amount, bank[t].row.date, i)
  /\ UNCHANGED <<company, connected, archived, invoices, entries, periods, nextNumber>>
PayFrom(t, i, p) == RecordPayment(i, t, p, bank[t].row.amount, bank[t].row.date)
Reconcile(t, i, p) ==
  /\ Reconcilable(t, i)
  /\ PayFrom(t, i, p)
  /\ Cardinality(OwnPayments(t, i)) = 1
  /\ \E own \in OwnPayments(t, i) :
       bank' = [bank EXCEPT ![t] = [account |-> bank[t].account, row |-> bank[t].row,
                                    invoice |-> i, payment |-> own]]
  /\ UNCHANGED <<accounts, previewed, imported>>

\* The services of the ledger, as users call them.
UserService ==
  \/ \E i \in Invoices, refs \in SUBSET References, lines \in LineLists, day \in Days :
       SaveDraft(i, refs, lines, day)
  \/ \E i, copy \in Invoices, k \in UserKeys, day \in Days : DuplicateInvoice(i, copy, k, day)
  \/ \E i \in Invoices, k \in UserKeys : ValidateInvoice(i, k)
  \/ \E i \in Invoices, k \in UserKeys, p \in PaymentIds, amount \in PaymentAmounts,
        day \in Days : RecordPayment(i, k, p, amount, day)
  \/ \E currency \in Currencies, precision \in Precisions : ConfigureCompany(currency, precision)
  \/ \E q \in PeriodIds, start, end \in Days, closed \in BOOLEAN :
       SetPeriod(q, start, end, closed)
  \/ \E ref \in References, flag \in BOOLEAN : SetArchived(ref, flag)

BankInit ==
  /\ Init
  /\ accounts = [a \in BankAccounts |-> NoAccount]
  /\ bank = [t \in BankIds |-> NoRow]
  /\ previewed = {}
  /\ imported = {}

BankNext ==
  \/ UserService /\ UNCHANGED connections
  \/ \E a \in BankAccounts : CreateAccount(a)
  \/ \E a \in BankAccounts, currency \in Currencies, flag \in BOOLEAN :
       UpdateAccount(a, currency, flag)
  \/ ReceiveExternal
  \/ \E a \in BankAccounts, file \in Files : PreviewImport(a, file)
  \/ \E a \in BankAccounts, file \in Files :
       \E place \in Injection(Missing(a, file), BankIds \ Stored) : ConfirmImport(a, file, place)
  \/ \E t \in BankIds, i \in Invoices, p \in PaymentIds : Reconcile(t, i, p)

BankSpec == BankInit /\ [][BankNext]_bankVars

(***************************************************************************)
(* What the triggers and the constraints of the tables accept, for a step  *)
(* that has changed the row.                                               *)
(***************************************************************************)
AccountAccepted(a) ==
  /\ accounts'[a].currency = company'.currency
  /\ RowsOf(a) # {} => accounts'[a].currency = accounts[a].currency

InsertAccepted(t) ==
  /\ bank'[t].account \in Opened
  /\ bank'[t].invoice = Nobody
  /\ \A s \in BankIds \ {t} :
       bank'[s].account = bank'[t].account => bank'[s].row.external # bank'[t].row.external

PaymentAccepted(t, paid) ==
  /\ paid.invoice = bank'[t].invoice
  /\ paid.amount = bank[t].row.amount
  /\ paid.date = bank[t].row.date
  /\ invoices'[paid.invoice].status = "validated"
  /\ invoices'[paid.invoice].currency = accounts'[bank[t].account].currency
  /\ ~accounts'[bank[t].account].archived
UpdateAccepted(t) ==
  /\ t \notin Reconciled
  /\ bank'[t].account = bank[t].account
  /\ bank'[t].row = bank[t].row
  /\ bank'[t].payment \in PaymentIds
  /\ PaymentAccepted(t, payments'[bank'[t].payment])
  /\ \A s \in BankIds \ {t} : bank'[s].payment # bank'[t].payment

(***************************************************************************)
(* Properties.                                                             *)
(***************************************************************************)

\* Every table of the connections holds rows of its own shape; a row belongs to an account
\* and is either free or reconciled, never half of it.
FileRows == UNION Files
AccountRow == [currency : Currencies \cup {Nobody}, archived : BOOLEAN]
BankRow ==
  [account : BankAccounts \cup {Nobody}, row : FileRows \cup {Nobody},
   invoice : Invoices \cup {Nobody}, payment : PaymentIds \cup {0}]
DigestRow == [account : BankAccounts, currency : Currencies, rows : Files]
BankTypeOK ==
  /\ accounts \in [BankAccounts -> AccountRow]
  /\ \A a \in Opened : accounts[a].currency \in Currencies
  /\ bank \in [BankIds -> BankRow]
  /\ \A t \in Stored :
       /\ bank[t].account \in Opened
       /\ bank[t].row \in FileRows
       /\ t \in Reconciled <=> bank[t].payment # 0
  /\ previewed \subseteq DigestRow
  /\ imported \subseteq DigestRow

\* A statement is the union of the files confirmed for its account: every row of a
\* confirmed file is there, once, as it was previewed, whatever was imported between the
\* preview and the confirmation and however files overlap; and nothing else is there.
ImportsAreStored ==
  /\ \A d \in imported : d.rows \subseteq RowsOf(d.account)
  /\ \A t \in Stored : \E d \in imported : d.account = bank[t].account /\ bank[t].row \in d.rows
  /\ \A t, s \in Stored :
       /\ bank[t].account = bank[s].account
       /\ bank[t].row.external = bank[s].row.external
       => t = s

\* A bank row is paid once, and says by which payment: the reconciled rows, the keys
\* derived from rows and the payments made with these keys correspond one to one, with the
\* amount and the date of the row, although users record payments of their own between.
ReconciledOnce ==
  /\ \A t \in BankIds :
       IF t \in Reconciled
         THEN /\ remembered[t] = [action |-> "payment", on |-> bank[t].invoice,
                                  amount |-> bank[t].row.amount, date |-> bank[t].row.date,
                                  invoice |-> bank[t].invoice]
              /\ payments[bank[t].payment] = [invoice |-> bank[t].invoice,
                                              amount |-> bank[t].row.amount,
                                              date |-> bank[t].row.date]
         ELSE remembered[t] = NoMemory
  /\ \A t, s \in Reconciled : bank[t].payment = bank[s].payment => t = s

\* Bank accounts, digests and the books are all in the currency the company has now: no
\* order of opening accounts, receiving external transactions and configuring the company
\* leaves an amount in a currency of the past.
OneCurrency ==
  /\ \A a \in Opened : accounts[a].currency = company.currency
  /\ \A d \in previewed : d.currency = company.currency

\* The services never write what a trigger or a constraint would refuse, so that a user
\* is told what is wrong by a service and not by a failure of the database.
GuardsStaySilent ==
  [][/\ company' # company => Opened = {}
     /\ \A a \in BankAccounts : accounts'[a] # accounts[a] => AccountAccepted(a)
     /\ \A t \in BankIds : bank'[t] # bank[t] =>
          IF t \in Stored THEN UpdateAccepted(t) ELSE InsertAccepted(t)]_bankVars

\* With banks connected, the company keeps its books as the ledger alone would: every step
\* is a step of the ledger or invisible to it, so its properties hold here.
KeepsLedger == Spec
=============================================================================
