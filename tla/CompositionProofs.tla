-------------------------- MODULE CompositionProofs --------------------------
(***************************************************************************)
(* Theorems about the ledger composed with its surroundings: the           *)
(* connections to banks, which pay invoices through it, and the readers of *)
(* the books, who look at it while it moves.  They hold for every set of   *)
(* accounts, files, invoices and keys, and every order of the steps.       *)
(***************************************************************************)
EXTENDS Banking, Reports, LedgerProofs

\* The rows of files are what the calendar and the payments of the ledger can take.
LEMMA FileRowShape ==
  ASSUME NEW r \in FileRows
  PROVE  /\ r.date \in Days
         /\ r.amount \in Int
         /\ r.amount > 0 => r.amount \in PaymentAmounts
BY BankingAssumption DEF FileRows

-----------------------------------------------------------------------------
(***************************************************************************)
(* The banks keep the ledger.                                              *)
(***************************************************************************)

\* A service of a user is a service of the ledger.
LEMMA UserServiceIsLedger == UserService => Next
<1> SUFFICES ASSUME UserService PROVE Next
  OBVIOUS
<1>1. UserKeys \subseteq Keys
  BY DEF UserKeys
<1>2. ASSUME NEW i \in Invoices, NEW refs \in SUBSET References, NEW lines \in LineLists,
             NEW day \in Days, SaveDraft(i, refs, lines, day)
      PROVE  Next
  BY <1>2 DEF Next
<1>3. ASSUME NEW i \in Invoices, NEW copy \in Invoices, NEW k \in UserKeys, NEW day \in Days,
             DuplicateInvoice(i, copy, k, day)
      PROVE  Next
  BY <1>1, <1>3 DEF Next
<1>4. ASSUME NEW i \in Invoices, NEW k \in UserKeys, ValidateInvoice(i, k)
      PROVE  Next
  BY <1>1, <1>4 DEF Next
<1>5. ASSUME NEW i \in Invoices, NEW k \in UserKeys, NEW p \in PaymentIds,
             NEW amount \in PaymentAmounts, NEW day \in Days, RecordPayment(i, k, p, amount, day)
      PROVE  Next
  BY <1>1, <1>5 DEF Next
<1>6. ASSUME NEW currency \in Currencies, NEW precision \in Precisions,
             ConfigureCompany(currency, precision)
      PROVE  Next
  BY <1>6 DEF Next
<1>7. ASSUME NEW q \in PeriodIds, NEW start \in Days, NEW end \in Days, NEW closed \in BOOLEAN,
             SetPeriod(q, start, end, closed)
      PROVE  Next
  BY <1>7 DEF Next
<1>8. ASSUME NEW ref \in References, NEW flag \in BOOLEAN, SetArchived(ref, flag)
      PROVE  Next
  BY <1>8 DEF Next
<1> QED BY <1>2, <1>3, <1>4, <1>5, <1>6, <1>7, <1>8 DEF UserService

\* A reconciliation is a payment of the ledger.
LEMMA ReconcileIsPayment ==
  ASSUME BankTypeOK, NEW t \in BankIds, NEW i \in Invoices, NEW p \in PaymentIds,
         Reconcile(t, i, p)
  PROVE  /\ t \in Keys
         /\ bank[t].row.amount \in PaymentAmounts
         /\ bank[t].row.date \in Days
         /\ RecordPayment(i, t, p, bank[t].row.amount, bank[t].row.date)
<1>1. bank[t].row \in FileRows /\ bank[t].row.amount > 0
  BY DEF Reconcile, Reconcilable, BankTypeOK
<1> QED BY <1>1, FileRowShape, BankingAssumption DEF Reconcile, PayFrom

\* Every step of the connections is a step of the ledger or leaves it alone.
LEMMA BankStepIsLedgerStep == BankTypeOK /\ [BankNext]_bankVars => [Next]_vars
<1> SUFFICES ASSUME BankTypeOK, [BankNext]_bankVars PROVE [Next]_vars
  OBVIOUS
<1>1. CASE UserService
  BY <1>1, UserServiceIsLedger
<1>2. ASSUME NEW a \in BankAccounts, CreateAccount(a) PROVE [Next]_vars
  BY <1>2 DEF CreateAccount, Next
<1>3. ASSUME NEW a \in BankAccounts, NEW currency \in Currencies, NEW flag \in BOOLEAN,
             UpdateAccount(a, currency, flag)
      PROVE  [Next]_vars
  BY <1>3 DEF UpdateAccount
<1>4. CASE ReceiveExternal
  BY <1>4 DEF ReceiveExternal, Next
<1>5. ASSUME NEW a \in BankAccounts, NEW file \in Files, PreviewImport(a, file)
      PROVE  [Next]_vars
  BY <1>5 DEF PreviewImport
<1>6. ASSUME NEW a \in BankAccounts, NEW file \in Files, NEW place, ConfirmImport(a, file, place)
      PROVE  [Next]_vars
  BY <1>6 DEF ConfirmImport
<1>7. ASSUME NEW t \in BankIds, NEW i \in Invoices, NEW p \in PaymentIds, Reconcile(t, i, p)
      PROVE  [Next]_vars
  <2>1. PICK amount \in PaymentAmounts, day \in Days : RecordPayment(i, t, p, amount, day)
    BY <1>7, ReconcileIsPayment
  <2> QED BY <1>7, <2>1, ReconcileIsPayment DEF Next
<1>8. CASE UNCHANGED bankVars
  BY <1>8 DEF bankVars
<1> QED BY <1>1, <1>2, <1>3, <1>4, <1>5, <1>6, <1>7, <1>8 DEF BankNext

-----------------------------------------------------------------------------
(***************************************************************************)
(* Types.                                                                  *)
(***************************************************************************)
LEMMA BankTypeInit == BankInit => BankTypeOK
BY DEF BankInit, BankTypeOK, NoAccount, NoRow, AccountRow, BankRow, Opened, Stored

\* The accounts and the rows stay in place when only an account is written.
LEMMA WritingAnAccount ==
  ASSUME BankTypeOK, NEW a \in BankAccounts, NEW currency \in Currencies, NEW flag \in BOOLEAN,
         accounts' = [accounts EXCEPT ![a] = [currency |-> currency, archived |-> flag]]
  PROVE  /\ (accounts \in [BankAccounts -> AccountRow])'
         /\ Opened' = Opened \cup {a}
         /\ \A b \in Opened' : accounts'[b].currency \in Currencies
BY BankingAssumption DEF BankTypeOK, AccountRow, Opened, NoAccount

\* A confirmed import fills free rows with rows of the file.
LEMMA ImportedRows ==
  ASSUME BankTypeOK, NEW a \in BankAccounts, NEW file \in Files, NEW place,
         ConfirmImport(a, file, place), NEW t \in BankIds
  PROVE  \/ bank'[t] = bank[t]
         \/ /\ t \notin Stored
            /\ \E r \in Missing(a, file) :
                 /\ place[r] = t
                 /\ bank'[t] = [account |-> a, row |-> r, invoice |-> Nobody, payment |-> 0]
<1>1. place \in [Missing(a, file) -> BankIds \ Stored]
  BY DEF ConfirmImport, Injection
<1>2. CASE t \in Range(place)
  <2>1. \E r \in Missing(a, file) : place[r] = t
    BY <1>1, <1>2 DEF Range
  <2> DEFINE row == CHOOSE r \in Missing(a, file) : place[r] = t
  <2>2. row \in Missing(a, file) /\ place[row] = t
    BY <2>1
  <2>3. bank'[t] = [account |-> a, row |-> row, invoice |-> Nobody, payment |-> 0]
    BY <1>2 DEF ConfirmImport
  <2>4. t \notin Stored
    BY <1>1, <1>2 DEF Range
  <2> QED BY <2>2, <2>3, <2>4
<1>3. CASE t \notin Range(place)
  BY <1>3 DEF ConfirmImport
<1> QED BY <1>2, <1>3

\* A reconciliation takes the payment it has just made.
LEMMA ReconciledRow ==
  ASSUME TypeOK, BankTypeOK, NEW t \in BankIds, NEW i \in Invoices, NEW p \in PaymentIds,
         Reconcile(t, i, p)
  PROVE  bank' = [bank EXCEPT ![t] = [account |-> bank[t].account, row |-> bank[t].row,
                                      invoice |-> i, payment |-> p]]
<1>1. payments' = [payments EXCEPT ![p] = [invoice |-> i, amount |-> bank[t].row.amount,
                                           date |-> bank[t].row.date]]
  BY ReconcileIsPayment DEF RecordPayment
<1>2. ASSUME NEW own \in OwnPayments(t, i)
      PROVE  own = p
  <2> SUFFICES ASSUME own # p PROVE FALSE
    OBVIOUS
  <2>1. own \in PaymentIds /\ payments[own].invoice = i
    BY <1>1, <1>2 DEF OwnPayments, TypeOK
  <2>2. own \in EarlierPayments(i)
    BY <2>1, LedgerAssumption DEF EarlierPayments, Recorded, NoPayment
  <2>3. own > own
    BY <1>2, <2>2 DEF OwnPayments
  <2> QED BY <2>1, <2>3 DEF PaymentIds
<1> QED BY <1>2 DEF Reconcile

LEMMA BankTypeStep == TypeInv /\ BankTypeOK /\ [BankNext]_bankVars => BankTypeOK'
<1> SUFFICES ASSUME TypeInv, BankTypeOK, [BankNext]_bankVars PROVE BankTypeOK'
  OBVIOUS
<1>0. TypeOK
  BY DEF TypeInv
<1>1. CASE UNCHANGED connections
  BY <1>1 DEF connections, BankTypeOK, Opened, Stored, Reconciled
<1>2. ASSUME NEW a \in BankAccounts, CreateAccount(a) PROVE BankTypeOK'
  <2>1. company.currency \in Currencies
    BY <1>0 DEF TypeOK
  <2>2. accounts' = [accounts EXCEPT ![a] = [currency |-> company.currency, archived |-> FALSE]]
        /\ UNCHANGED <<bank, previewed, imported>>
    BY <1>2 DEF CreateAccount
  <2> QED BY <2>1, <2>2, WritingAnAccount DEF BankTypeOK, Stored, Reconciled
<1>3. ASSUME NEW a \in BankAccounts, NEW currency \in Currencies, NEW flag \in BOOLEAN,
             UpdateAccount(a, currency, flag)
      PROVE  BankTypeOK'
  <2>1. accounts' = [accounts EXCEPT ![a] = [currency |-> currency, archived |-> flag]]
        /\ UNCHANGED <<bank, previewed, imported>>
    BY <1>3 DEF UpdateAccount
  <2> QED BY <2>1, WritingAnAccount DEF BankTypeOK, Stored, Reconciled
<1>4. ASSUME NEW a \in BankAccounts, NEW file \in Files, PreviewImport(a, file)
      PROVE  BankTypeOK'
  <2>1. Digest(a, file) \in DigestRow
    BY <1>4 DEF PreviewImport, Importable, Digest, DigestRow, BankTypeOK
  <2> QED BY <1>4, <2>1 DEF PreviewImport, BankTypeOK, Opened, Stored, Reconciled
<1>5. ASSUME NEW a \in BankAccounts, NEW file \in Files, NEW place, ConfirmImport(a, file, place)
      PROVE  BankTypeOK'
  <2>1. Digest(a, file) \in DigestRow
    BY <1>5 DEF ConfirmImport, Importable, Digest, DigestRow, BankTypeOK
  <2>2. Missing(a, file) \subseteq FileRows
    BY DEF Missing, FileRows
  <2>3. a \in Opened /\ Opened' = Opened /\ UNCHANGED <<accounts, previewed>>
    BY <1>5 DEF ConfirmImport, Importable, Opened
  <2>4. bank' \in [BankIds -> BankRow]
    <3>1. ASSUME NEW t \in BankIds
          PROVE  bank'[t] \in BankRow
      <4>1. CASE bank'[t] = bank[t]
        BY <4>1 DEF BankTypeOK
      <4>2. ASSUME NEW r \in Missing(a, file),
                   bank'[t] = [account |-> a, row |-> r, invoice |-> Nobody, payment |-> 0]
            PROVE  bank'[t] \in BankRow
        BY <2>2, <4>2 DEF BankRow
      <4> QED BY <1>5, <4>1, <4>2, ImportedRows
    <3>2. DOMAIN bank' = BankIds /\ bank' = [t \in BankIds |-> bank'[t]]
      BY <1>5 DEF ConfirmImport
    <3> QED BY <3>1, <3>2
  <2>5. ASSUME NEW t \in Stored'
        PROVE  /\ bank'[t].account \in Opened
               /\ bank'[t].row \in FileRows
               /\ t \in Reconciled' <=> bank'[t].payment # 0
    <3>1. CASE bank'[t] = bank[t]
      BY <2>5, <3>1 DEF BankTypeOK, Stored, Reconciled
    <3>2. ASSUME NEW r \in Missing(a, file),
                 bank'[t] = [account |-> a, row |-> r, invoice |-> Nobody, payment |-> 0]
          PROVE  /\ bank'[t].account \in Opened
                 /\ bank'[t].row \in FileRows
                 /\ t \in Reconciled' <=> bank'[t].payment # 0
      BY <2>2, <2>3, <3>2 DEF Reconciled
    <3> QED BY <1>5, <2>5, <3>1, <3>2, ImportedRows DEF Stored
  <2> QED BY <1>5, <2>1, <2>3, <2>4, <2>5 DEF ConfirmImport, BankTypeOK
<1>6. ASSUME NEW t \in BankIds, NEW i \in Invoices, NEW p \in PaymentIds, Reconcile(t, i, p)
      PROVE  BankTypeOK'
  <2>1. bank' = [bank EXCEPT ![t] = [account |-> bank[t].account, row |-> bank[t].row,
                                     invoice |-> i, payment |-> p]]
    BY <1>0, <1>6, ReconciledRow
  <2>2. t \in Stored /\ UNCHANGED <<accounts, previewed, imported>>
    BY <1>6 DEF Reconcile, Reconcilable
  <2>3. p # 0 /\ i # Nobody
    BY LedgerAssumption DEF PaymentIds
  <2>4. bank[t].account \in Opened /\ bank[t].row \in FileRows /\ bank[t] \in BankRow
    BY <2>2 DEF BankTypeOK
  <2>5. bank' \in [BankIds -> BankRow]
    BY <2>1, <2>4 DEF BankTypeOK, BankRow
  <2>6. Stored' = Stored /\ Reconciled' = Reconciled \cup {t} /\ Opened' = Opened
    BY <2>1, <2>2, <2>3 DEF Stored, Reconciled, Opened, NoRow, BankTypeOK
  <2> QED BY <2>1, <2>2, <2>3, <2>4, <2>5, <2>6 DEF BankTypeOK
<1> QED BY <1>1, <1>2, <1>3, <1>4, <1>5, <1>6 DEF BankNext, bankVars, ReceiveExternal

\* The ledger's rows and those of the connections keep their shape together.
LEMMA BankTypes == BankSpec => [](TypeInv /\ BankTypeOK)
<1>1. BankInit => TypeInv /\ BankTypeOK
  BY TypeInit, BankTypeInit DEF BankInit
<1>2. TypeInv /\ BankTypeOK /\ [BankNext]_bankVars => (TypeInv /\ BankTypeOK)'
  BY TypeStep, BankTypeStep, BankStepIsLedgerStep
<1> QED BY <1>1, <1>2, PTL DEF BankSpec

\* Type correctness of the connections: a row is free or wholly reconciled, and belongs to
\* an account that exists.
THEOREM BankTypeCorrect == BankSpec => []BankTypeOK
BY BankTypes, PTL

\* The company keeps its books as the ledger alone would, so every theorem about the
\* ledger's Spec holds with banks connected.
THEOREM BanksKeepLedger == BankSpec => KeepsLedger
<1>1. BankInit => Init
  BY DEF BankInit
<1> QED BY <1>1, BankStepIsLedgerStep, BankTypes, PTL DEF BankSpec, KeepsLedger, Spec

-----------------------------------------------------------------------------
(***************************************************************************)
(* One currency.                                                           *)
(***************************************************************************)

\* Once something is connected, the configuration of the company stays.
LEMMA ConnectedStays ==
  ASSUME [Next]_vars, connected
  PROVE  connected' /\ company' = company
BY DEF Next, vars, SaveDraft, DuplicateInvoice, ValidateInvoice, RecordPayment,
       ConfigureCompany, Configurable, SetPeriod, SetArchived, Connect

\* An account or a preview exists only once something is connected.
CurrencyInv ==
  /\ OneCurrency
  /\ Opened # {} \/ previewed # {} => connected

LEMMA CurrencyStep ==
  BankTypeOK /\ TypeInv /\ CurrencyInv /\ [BankNext]_bankVars => CurrencyInv'
<1> SUFFICES ASSUME BankTypeOK, TypeInv, CurrencyInv, [BankNext]_bankVars PROVE CurrencyInv'
  OBVIOUS
<1>1. connected => connected' /\ company' = company
  BY BankStepIsLedgerStep, ConnectedStays
<1>2. CASE UNCHANGED connections
  BY <1>1, <1>2 DEF connections, CurrencyInv, OneCurrency, Opened
<1>3. ASSUME NEW a \in BankAccounts, CreateAccount(a) PROVE CurrencyInv'
  <2>1. /\ accounts' = [accounts EXCEPT ![a] = [currency |-> company.currency,
                                                archived |-> FALSE]]
        /\ connected' /\ company' = company /\ previewed' = previewed
    BY <1>3 DEF CreateAccount, Connect
  <2>2. Opened' = Opened \cup {a}
    BY <2>1, WritingAnAccount DEF TypeInv, TypeOK
  <2> QED BY <2>1, <2>2 DEF CurrencyInv, OneCurrency, BankTypeOK, Opened
<1>4. ASSUME NEW a \in BankAccounts, NEW currency \in Currencies, NEW flag \in BOOLEAN,
             UpdateAccount(a, currency, flag)
      PROVE  CurrencyInv'
  <2>1. /\ accounts' = [accounts EXCEPT ![a] = [currency |-> currency, archived |-> flag]]
        /\ currency = company.currency
        /\ a \in Opened
        /\ company' = company /\ connected' = connected /\ previewed' = previewed
    BY <1>4 DEF UpdateAccount, CurrencyInv, OneCurrency, vars
  <2>2. Opened' = Opened
    <3>1. Opened' = Opened \cup {a}
      BY <1>4, WritingAnAccount DEF UpdateAccount
    <3> QED BY <2>1, <3>1
  <2> QED BY <2>1, <2>2 DEF CurrencyInv, OneCurrency, BankTypeOK, Opened
<1>5. ASSUME NEW a \in BankAccounts, NEW file \in Files, PreviewImport(a, file)
      PROVE  CurrencyInv'
  <2>1. Digest(a, file).currency = company.currency /\ a \in Opened
    BY <1>5 DEF PreviewImport, Importable, Digest
  <2>2. /\ previewed' = previewed \cup {Digest(a, file)}
        /\ company' = company /\ connected' = connected /\ accounts' = accounts
    BY <1>5 DEF PreviewImport, vars
  <2> QED BY <2>1, <2>2 DEF CurrencyInv, OneCurrency, Opened
<1>6. ASSUME UNCHANGED <<accounts, previewed>> PROVE CurrencyInv'
  BY <1>1, <1>6 DEF CurrencyInv, OneCurrency, Opened
<1> QED
  BY <1>2, <1>3, <1>4, <1>5, <1>6 DEF BankNext, bankVars, ReceiveExternal, ConfirmImport, Reconcile

\* No order of opening accounts, previewing, receiving and configuring leaves an account or
\* a preview in a currency the company no longer has.
THEOREM CurrencyIsOne == BankSpec => []OneCurrency
<1>1. BankInit => CurrencyInv
  BY DEF BankInit, CurrencyInv, OneCurrency, Opened
<1>2. CurrencyInv => OneCurrency
  BY DEF CurrencyInv
<1> QED BY <1>1, <1>2, CurrencyStep, BankTypes, PTL DEF BankSpec

-----------------------------------------------------------------------------
(***************************************************************************)
(* Reconciled once.                                                        *)
(***************************************************************************)

\* Payments recorded are never rewritten.
LEMMA PaymentsNeverChange ==
  ASSUME TypeOK, [Next]_vars, NEW p \in Recorded
  PROVE  payments'[p] = payments[p]
<1>1. ASSUME NEW i \in Invoices, NEW k \in Keys, NEW r \in PaymentIds,
             NEW amount \in PaymentAmounts, NEW day \in Days,
             RecordPayment(i, k, r, amount, day)
      PROVE  payments'[p] = payments[p]
  BY <1>1, PaidGrows
<1>2. CASE UNCHANGED payments
  BY <1>2
<1> QED
  BY <1>1, <1>2 DEF Next, vars, SaveDraft, DuplicateInvoice, ValidateInvoice, ConfigureCompany,
     SetPeriod, SetArchived, Connect

\* The services of users do not touch the keys derived from rows.
LEMMA UsersLeaveBankKeys ==
  ASSUME TypeOK, UserService, NEW t \in BankIds
  PROVE  remembered'[t] = remembered[t]
<1>1. ASSUME NEW k \in UserKeys, NEW action, NEW on, NEW amount, NEW day, NEW result,
             Remember(k, action, on, amount, day, result)
      PROVE  remembered'[t] = remembered[t]
  BY <1>1, BankingAssumption DEF Remember, UserKeys, TypeOK
<1>2. CASE UNCHANGED remembered
  BY <1>2
<1> QED
  BY <1>1, <1>2 DEF UserService, SaveDraft, DuplicateInvoice, ValidateInvoice, RecordPayment,
     ConfigureCompany, SetPeriod, SetArchived

\* What ReconciledOnce says of one row.
Settled(t) ==
  IF t \in Reconciled
    THEN /\ remembered[t] = [action |-> "payment", on |-> bank[t].invoice,
                             amount |-> bank[t].row.amount, date |-> bank[t].row.date,
                             invoice |-> bank[t].invoice]
         /\ payments[bank[t].payment] = [invoice |-> bank[t].invoice,
                                         amount |-> bank[t].row.amount,
                                         date |-> bank[t].row.date]
    ELSE remembered[t] = NoMemory

\* The payment of a reconciled row is a recorded one.
LEMMA ReconciledIsRecorded ==
  ASSUME BankTypeOK, ReconciledOnce, NEW t \in Reconciled
  PROVE  bank[t].payment \in Recorded
<1>1. bank[t].payment \in PaymentIds /\ bank[t].invoice # Nobody
  BY DEF BankTypeOK, BankRow, Reconciled, Stored
<1>2. payments[bank[t].payment].invoice = bank[t].invoice
  <2>1. t \in BankIds
    BY DEF Reconciled, Stored
  <2>2. payments[bank[t].payment] = [invoice |-> bank[t].invoice, amount |-> bank[t].row.amount,
                                     date |-> bank[t].row.date]
    BY <2>1 DEF ReconciledOnce
  <2> QED BY <2>2
<1>3. payments[bank[t].payment] # NoPayment
  BY <1>1, <1>2 DEF NoPayment
<1> QED BY <1>1, <1>3 DEF Recorded

\* A row that is not written stays settled, as long as its key is left alone.
LEMMA SettledStays ==
  ASSUME TypeOK, BankTypeOK, ReconciledOnce, [Next]_vars, NEW t \in BankIds,
         bank'[t] = bank[t], remembered'[t] = remembered[t]
  PROVE  Settled(t)'
<1>1. t \in Reconciled' <=> t \in Reconciled
  BY DEF Reconciled, Stored
<1>2. Settled(t)
  BY DEF ReconciledOnce, Settled
<1>3. CASE t \in Reconciled
  <2>1. payments'[bank[t].payment] = payments[bank[t].payment]
    BY <1>3, ReconciledIsRecorded, PaymentsNeverChange
  <2> QED BY <1>1, <1>2, <1>3, <2>1 DEF Settled
<1> QED BY <1>1, <1>2, <1>3 DEF Settled

LEMMA ReconciledStep ==
  TypeInv /\ BankTypeOK /\ ReconciledOnce /\ [BankNext]_bankVars => ReconciledOnce'
<1> SUFFICES ASSUME TypeInv, BankTypeOK, ReconciledOnce, [BankNext]_bankVars
             PROVE  ReconciledOnce'
  OBVIOUS
<1>0. TypeOK /\ [Next]_vars
  BY BankStepIsLedgerStep DEF TypeInv
<1>1. ASSUME \A t \in BankIds : bank'[t] = bank[t] /\ remembered'[t] = remembered[t]
      PROVE  ReconciledOnce'
  <2>1. \A t \in BankIds : Settled(t)'
    BY <1>0, <1>1, SettledStays
  <2>2. Reconciled' = Reconciled
    BY <1>1 DEF Reconciled, Stored
  <2>3. \A t, s \in Reconciled' : bank'[t].payment = bank'[s].payment => t = s
    BY <1>1, <2>2 DEF ReconciledOnce, Reconciled, Stored
  <2> QED BY <2>1, <2>3 DEF ReconciledOnce, Settled
<1>2. CASE UserService /\ UNCHANGED connections
  BY <1>0, <1>1, <1>2, UsersLeaveBankKeys DEF connections
<1>3. CASE UNCHANGED <<remembered, bank>>
  BY <1>1, <1>3
<1>4. ASSUME NEW a \in BankAccounts, NEW file \in Files, NEW place, ConfirmImport(a, file, place)
      PROVE  ReconciledOnce'
  <2>1. remembered' = remembered
    BY <1>4 DEF ConfirmImport, vars
  <2>2. ASSUME NEW t \in BankIds, bank'[t] # bank[t]
        PROVE  t \notin Reconciled /\ t \notin Reconciled' /\ bank'[t].invoice = Nobody
    <3>1. PICK r \in Missing(a, file) :
                 /\ t \notin Stored
                 /\ bank'[t] = [account |-> a, row |-> r, invoice |-> Nobody, payment |-> 0]
      BY <1>4, <2>2, ImportedRows
    <3> QED BY <3>1 DEF Reconciled
  <2>3. ASSUME NEW t \in BankIds
        PROVE  Settled(t)'
    <3>1. CASE bank'[t] = bank[t]
      BY <1>0, <2>1, <3>1, SettledStays
    <3>2. CASE bank'[t] # bank[t]
      BY <2>1, <2>2, <3>2 DEF ReconciledOnce, Settled
    <3> QED BY <3>1, <3>2
  <2>4. \A t \in Reconciled' : t \in Reconciled /\ bank'[t] = bank[t]
    BY <2>2 DEF Reconciled, Stored
  <2> QED BY <2>3, <2>4 DEF ReconciledOnce, Settled
<1>5. ASSUME NEW t \in BankIds, NEW i \in Invoices, NEW p \in PaymentIds, Reconcile(t, i, p)
      PROVE  ReconciledOnce'
  <2>1. bank' = [bank EXCEPT ![t] = [account |-> bank[t].account, row |-> bank[t].row,
                                     invoice |-> i, payment |-> p]]
    BY <1>0, <1>5, ReconciledRow
  <2>2. /\ payments' = [payments EXCEPT ![p] = [invoice |-> i, amount |-> bank[t].row.amount,
                                                date |-> bank[t].row.date]]
        /\ remembered' = [remembered EXCEPT ![t] =
             [action |-> "payment", on |-> i, amount |-> bank[t].row.amount,
              date |-> bank[t].row.date, invoice |-> i]]
        /\ p \notin Recorded
        /\ t \in Keys
    BY <1>5, ReconcileIsPayment DEF RecordPayment, Remember, PaymentIds
  <2>3. i # Nobody /\ t \in Stored
    BY <1>5, LedgerAssumption DEF Reconcile, Reconcilable
  <2>4. bank'[t] = [account |-> bank[t].account, row |-> bank[t].row, invoice |-> i,
                    payment |-> p]
    BY <2>1 DEF BankTypeOK
  <2>5. Settled(t)'
    <3>1. t \in Reconciled'
      BY <2>3, <2>4 DEF Reconciled, Stored, NoRow
    <3>2. remembered'[t] = [action |-> "payment", on |-> i, amount |-> bank[t].row.amount,
                            date |-> bank[t].row.date, invoice |-> i]
      BY <1>0, <2>2 DEF TypeOK
    <3>3. payments'[p] = [invoice |-> i, amount |-> bank[t].row.amount,
                          date |-> bank[t].row.date]
      BY <1>0, <2>2 DEF TypeOK
    <3> QED BY <2>4, <3>1, <3>2, <3>3 DEF Settled
  <2>6. \A s \in BankIds \ {t} : bank'[s] = bank[s] /\ remembered'[s] = remembered[s]
    BY <1>0, <2>1, <2>2, BankingAssumption DEF BankTypeOK, TypeOK
  <2>7. \A s \in BankIds \ {t} : Settled(s)'
    BY <1>0, <2>6, SettledStays
  <2>8. \A s \in Reconciled' \ {t} : s \in Reconciled /\ bank'[s].payment # p
    BY <2>2, <2>6, ReconciledIsRecorded DEF Reconciled, Stored
  <2>9. \A r, s \in Reconciled' : bank'[r].payment = bank'[s].payment => r = s
    BY <2>4, <2>6, <2>8 DEF ReconciledOnce, Reconciled, Stored
  <2> QED BY <2>5, <2>7, <2>9 DEF ReconciledOnce, Settled
<1> QED
  BY <1>1, <1>2, <1>3, <1>4, <1>5 DEF BankNext, bankVars, vars, connections, CreateAccount,
     UpdateAccount, ReceiveExternal, PreviewImport, Connect

\* A bank row is paid at most once, by a payment of its amount and date that no other row
\* claims, for any number of rows, invoices and payments of the users' own.
THEOREM RowsAreReconciledOnce == BankSpec => []ReconciledOnce
<1>1. BankInit => ReconciledOnce
  BY BankingAssumption DEF BankInit, Init, ReconciledOnce, Reconciled, Stored
<1> QED BY <1>1, ReconciledStep, BankTypes, PTL DEF BankSpec

-----------------------------------------------------------------------------
(***************************************************************************)
(* Imports.                                                                *)
(***************************************************************************)

\* What an account says does not change when its rows keep their account and content.
LEMMA SameRows ==
  ASSUME Stored' = Stored, NEW a,
         \A t \in Stored : bank'[t].account = bank[t].account /\ bank'[t].row = bank[t].row
  PROVE  RowsOf(a)' = RowsOf(a)
BY DEF RowsOf

\* The rows of a confirmed file are in the account: those that were missing get a row, the
\* others do not conflict and are there already.
LEMMA ConfirmedFileIsStored ==
  ASSUME BankTypeOK, NEW a \in BankAccounts, NEW file \in Files, NEW place,
         ConfirmImport(a, file, place), NEW r \in file
  PROVE  r \in RowsOf(a)'
<1>1. CASE r \in Missing(a, file)
  <2> DEFINE t == place[r]
  <2>1. t \in BankIds \ Stored /\ t \in Range(place)
    BY <1>1 DEF ConfirmImport, Injection, Range
  <2>2. \A s \in Missing(a, file) : place[s] = t => s = r
    BY <1>1 DEF ConfirmImport, Injection, IsInjective
  <2>3. (CHOOSE s \in Missing(a, file) : place[s] = t) = r
    BY <1>1, <2>2
  <2>4. bank'[t] = [account |-> a, row |-> r, invoice |-> Nobody, payment |-> 0]
    BY <2>1, <2>3 DEF ConfirmImport
  <2>5. a # Nobody
    BY BankingAssumption
  <2> QED BY <2>1, <2>4, <2>5 DEF RowsOf, Stored, NoRow
<1>2. CASE r \notin Missing(a, file)
  <2>1. PICK s \in RowsOf(a) : s.external = r.external
    BY <1>2 DEF Missing
  <2>2. s = r
    BY <2>1 DEF ConfirmImport, Importable, Conflicts
  <2>3. PICK t \in Stored : bank[t].account = a /\ bank[t].row = r
    BY <2>1, <2>2 DEF RowsOf
  <2>4. bank'[t] = bank[t]
    BY <2>3, ImportedRows DEF Stored
  <2> QED BY <2>3, <2>4 DEF RowsOf, Stored
<1> QED BY <1>1, <1>2

LEMMA ImportStep ==
  TypeInv /\ BankTypeOK /\ ImportsAreStored /\ [BankNext]_bankVars => ImportsAreStored'
<1> SUFFICES ASSUME TypeInv, BankTypeOK, ImportsAreStored, [BankNext]_bankVars
             PROVE  ImportsAreStored'
  OBVIOUS
<1>1. ASSUME Stored' = Stored, imported' = imported,
             \A t \in Stored : bank'[t].account = bank[t].account /\ bank'[t].row = bank[t].row
      PROVE  ImportsAreStored'
  BY <1>1, SameRows DEF ImportsAreStored
<1>2. CASE UNCHANGED <<bank, imported>>
  BY <1>1, <1>2 DEF Stored
<1>3. ASSUME NEW t \in BankIds, NEW i \in Invoices, NEW p \in PaymentIds, Reconcile(t, i, p)
      PROVE  ImportsAreStored'
  <2>1. bank' = [bank EXCEPT ![t] = [account |-> bank[t].account, row |-> bank[t].row,
                                     invoice |-> i, payment |-> p]]
    BY <1>3, ReconciledRow DEF TypeInv
  <2>2. t \in Stored /\ imported' = imported /\ p # 0
    BY <1>3 DEF Reconcile, Reconcilable, PaymentIds
  <2>3. Stored' = Stored
    BY <2>1, <2>2 DEF Stored, NoRow, BankTypeOK
  <2> QED BY <1>1, <2>1, <2>2, <2>3 DEF BankTypeOK
<1>4. ASSUME NEW a \in BankAccounts, NEW file \in Files, NEW place, ConfirmImport(a, file, place)
      PROVE  ImportsAreStored'
  <2>1. imported' = imported \cup {Digest(a, file)} /\ Digest(a, file).account = a
        /\ Digest(a, file).rows = file
    BY <1>4 DEF ConfirmImport, Digest
  <2>2. ASSUME NEW t \in Stored
        PROVE  t \in Stored' /\ bank'[t] = bank[t]
    BY <1>4, ImportedRows DEF Stored
  <2>3. \A b : RowsOf(b) \subseteq RowsOf(b)'
    BY <2>2 DEF RowsOf
  <2>4. \A d \in imported' : d.rows \subseteq RowsOf(d.account)'
    BY <1>4, <2>1, <2>3, ConfirmedFileIsStored DEF ImportsAreStored
  <2>5. ASSUME NEW t \in Stored' \ Stored
        PROVE  \E r \in Missing(a, file) :
                 place[r] = t /\ bank'[t].account = a /\ bank'[t].row = r
    <3>1. bank'[t] # bank[t] /\ t \in BankIds
      BY DEF Stored
    <3>2. PICK r \in Missing(a, file) :
            /\ place[r] = t
            /\ bank'[t] = [account |-> a, row |-> r, invoice |-> Nobody, payment |-> 0]
      BY <1>4, <3>1, ImportedRows
    <3> QED BY <3>2
  <2>6. ASSUME NEW t \in Stored'
        PROVE  \E d \in imported' : d.account = bank'[t].account /\ bank'[t].row \in d.rows
    <3>1. CASE t \in Stored
      BY <2>1, <2>2, <3>1 DEF ImportsAreStored
    <3>2. CASE t \notin Stored
      BY <2>1, <2>5, <3>2 DEF Missing
    <3> QED BY <3>1, <3>2
  <2>7. ASSUME NEW t \in Stored', NEW s \in Stored',
               bank'[t].account = bank'[s].account,
               bank'[t].row.external = bank'[s].row.external
        PROVE  t = s
    <3>1. CASE t \in Stored /\ s \in Stored
      BY <2>2, <2>7, <3>1 DEF ImportsAreStored
    <3>2. ASSUME NEW new \in Stored' \ Stored, NEW old \in Stored,
                 bank'[new].account = bank'[old].account,
                 bank'[new].row.external = bank'[old].row.external
          PROVE  FALSE
      <4>1. PICK r \in Missing(a, file) : bank'[new].account = a /\ bank'[new].row = r
        BY <2>5
      <4>2. bank[old].account = a /\ bank[old].row.external = r.external
        BY <2>2, <3>2, <4>1
      <4>3. bank[old].row \in RowsOf(a)
        BY <4>2 DEF RowsOf
      <4> QED BY <4>1, <4>2, <4>3 DEF Missing
    <3>3. CASE t \notin Stored /\ s \notin Stored
      <4>1. PICK r \in Missing(a, file) : place[r] = t /\ bank'[t].row = r
        BY <2>5, <3>3
      <4>2. PICK q \in Missing(a, file) : place[q] = s /\ bank'[s].row = q
        BY <2>5, <3>3
      <4>3. r = q
        BY <2>7, <4>1, <4>2, BankingAssumption DEF Missing, NoDuplicate
      <4> QED BY <4>1, <4>2, <4>3
    <3> QED BY <2>7, <3>1, <3>2, <3>3
  <2> QED BY <2>4, <2>6, <2>7 DEF ImportsAreStored
<1> QED
  BY <1>2, <1>3, <1>4 DEF BankNext, bankVars, connections, CreateAccount, UpdateAccount,
     ReceiveExternal, PreviewImport

\* However files overlap and whatever happened since their previews, an account holds the
\* rows of its confirmed files, each once, and no other.
THEOREM ConfirmedImportsAreStored == BankSpec => []ImportsAreStored
<1>1. BankInit => ImportsAreStored
  BY DEF BankInit, ImportsAreStored, Stored
<1> QED BY <1>1, ImportStep, BankTypes, PTL DEF BankSpec

-----------------------------------------------------------------------------
(***************************************************************************)
(* The services never write what the guards of the database would refuse.  *)
(***************************************************************************)

\* What the services may count on when they write.
BanksInv == TypeInv /\ BankTypeOK /\ CurrencyInv /\ ImportsAreStored /\ ReconciledOnce

LEMMA BanksInvariant == BankSpec => []BanksInv
<1>1. BankInit => CurrencyInv /\ ImportsAreStored /\ ReconciledOnce
  BY BankingAssumption
     DEF BankInit, Init, CurrencyInv, OneCurrency, Opened, ImportsAreStored, ReconciledOnce,
         Reconciled, Stored
<1>2. ASSUME TypeInv, BankTypeOK, CurrencyInv, ImportsAreStored, ReconciledOnce,
             [BankNext]_bankVars
      PROVE  CurrencyInv' /\ ImportsAreStored' /\ ReconciledOnce'
  BY <1>2, CurrencyStep, ImportStep, ReconciledStep
<1> QED BY <1>1, <1>2, BankTypes, PTL DEF BankSpec, BanksInv

\* Accounts and the configuration of the company.
LEMMA AccountsAccepted ==
  ASSUME BanksInv, [BankNext]_bankVars
  PROVE  /\ company' # company => Opened = {}
         /\ \A a \in BankAccounts : accounts'[a] # accounts[a] => AccountAccepted(a)
<1>. BankTypeOK /\ CurrencyInv
  BY DEF BanksInv
<1>1. company' # company => Opened = {}
  <2>1. company' # company => ~connected
    BY BankStepIsLedgerStep, ConnectedStays
  <2> QED BY <2>1 DEF CurrencyInv
<1>2. ASSUME NEW b \in BankAccounts, CreateAccount(b), NEW a \in BankAccounts,
             accounts'[a] # accounts[a]
      PROVE  AccountAccepted(a)
  <2>1. a = b /\ accounts'[a].currency = company.currency /\ company' = company
    BY <1>2 DEF CreateAccount, Connect, BankTypeOK
  <2>2. RowsOf(a) = {}
    <3>1. a \notin Opened
      BY <1>2, <2>1 DEF CreateAccount
    <3> QED BY <3>1 DEF RowsOf, BankTypeOK
  <2> QED BY <2>1, <2>2 DEF AccountAccepted
<1>3. ASSUME NEW b \in BankAccounts, NEW currency \in Currencies, NEW flag \in BOOLEAN,
             UpdateAccount(b, currency, flag), NEW a \in BankAccounts,
             accounts'[a] # accounts[a]
      PROVE  AccountAccepted(a)
  <2>1. a = b /\ accounts'[a].currency = currency /\ company' = company
    BY <1>3 DEF UpdateAccount, vars, BankTypeOK
  <2>2. currency = company.currency /\ (RowsOf(a) # {} => currency = accounts[a].currency)
    BY <1>3, <2>1 DEF UpdateAccount, CurrencyInv, OneCurrency
  <2> QED BY <2>1, <2>2 DEF AccountAccepted
<1>4. CASE UNCHANGED accounts
  BY <1>1, <1>4
<1> QED
  BY <1>1, <1>2, <1>3, <1>4 DEF BankNext, bankVars, connections, ReceiveExternal, PreviewImport,
     ConfirmImport, Reconcile

\* Imported rows.
LEMMA ImportAccepted ==
  ASSUME BanksInv, ImportsAreStored', NEW a \in BankAccounts, NEW file \in Files, NEW place,
         ConfirmImport(a, file, place), NEW t \in BankIds, bank'[t] # bank[t]
  PROVE  t \notin Stored /\ InsertAccepted(t)
<1>. BankTypeOK
  BY DEF BanksInv
<1>1. PICK r \in Missing(a, file) :
        /\ t \notin Stored
        /\ bank'[t] = [account |-> a, row |-> r, invoice |-> Nobody, payment |-> 0]
  BY ImportedRows
<1>2. a \in Opened /\ a # Nobody
  BY BankingAssumption DEF ConfirmImport, Importable
<1>3. \A s \in BankIds : bank'[s].account = a => s \in Stored'
  BY <1>2 DEF Stored, NoRow
<1>4. ASSUME NEW s \in BankIds \ {t}, bank'[s].account = a
      PROVE  bank'[s].row.external # bank'[t].row.external
  <2>1. s \in Stored' /\ t \in Stored' /\ bank'[t].account = a
    BY <1>1, <1>3, <1>4
  <2> QED BY <1>4, <2>1 DEF ImportsAreStored
<1> QED BY <1>1, <1>2, <1>4 DEF InsertAccepted

\* Reconciled rows.
LEMMA ReconciliationAccepted ==
  ASSUME BanksInv, NEW u \in BankIds, NEW i \in Invoices, NEW p \in PaymentIds,
         Reconcile(u, i, p), NEW t \in BankIds, bank'[t] # bank[t]
  PROVE  t \in Stored /\ UpdateAccepted(t)
<1>. TypeOK /\ BankTypeOK /\ ReconciledOnce
  BY DEF BanksInv, TypeInv
<1>1. bank' = [bank EXCEPT ![u] = [account |-> bank[u].account, row |-> bank[u].row,
                                   invoice |-> i, payment |-> p]]
  BY ReconciledRow
<1>2. /\ t = u
      /\ bank'[t] = [account |-> bank[t].account, row |-> bank[t].row, invoice |-> i, payment |-> p]
      /\ \A s \in BankIds \ {t} : bank'[s] = bank[s]
  BY <1>1 DEF BankTypeOK
<1>3. t \in Stored /\ t \notin Reconciled
  BY <1>2 DEF Reconcile, Reconcilable
<1>4. /\ payments'[p] = [invoice |-> i, amount |-> bank[t].row.amount, date |-> bank[t].row.date]
      /\ p \notin Recorded
      /\ invoices' = invoices
  <2>1. RecordPayment(i, t, p, bank[t].row.amount, bank[t].row.date)
    BY <1>2, ReconcileIsPayment
  <2>2. /\ payments' = [payments EXCEPT ![p] = [invoice |-> i, amount |-> bank[t].row.amount,
                                                date |-> bank[t].row.date]]
        /\ Recorded = 1 .. p - 1
        /\ invoices' = invoices
    BY <2>1 DEF RecordPayment
  <2> QED BY <2>2 DEF PaymentIds, TypeOK
<1>5. PaymentAccepted(t, payments'[p])
  <2>1. accounts' = accounts
    BY DEF Reconcile
  <2>2. /\ ~accounts[bank[t].account].archived
        /\ invoices[i].status = "validated"
        /\ invoices[i].currency = accounts[bank[t].account].currency
    BY <1>2 DEF Reconcile, Reconcilable
  <2>3. bank'[t].invoice = i
    BY <1>2
  <2> QED BY <1>4, <2>1, <2>2, <2>3 DEF PaymentAccepted
<1>6. ASSUME NEW s \in BankIds \ {t} PROVE bank'[s].payment # p
  <2>1. bank'[s] = bank[s]
    BY <1>2
  <2>2. CASE s \in Reconciled
    BY <1>4, <2>1, <2>2, ReconciledIsRecorded
  <2>3. CASE s \in Stored \ Reconciled
    BY <2>1, <2>3 DEF BankTypeOK, PaymentIds
  <2>4. CASE s \notin Stored
    BY <2>1, <2>4 DEF Stored, NoRow, PaymentIds
  <2> QED BY <2>2, <2>3, <2>4
<1> QED BY <1>2, <1>3, <1>5, <1>6 DEF UpdateAccepted

\* No trigger and no constraint of the connections ever refuses what a service writes: a
\* user is told what is wrong by the service.
THEOREM ServicesRespectGuards == BankSpec => GuardsStaySilent
<1> DEFINE Rows ==
      \A t \in BankIds : bank'[t] # bank[t] =>
        IF t \in Stored THEN UpdateAccepted(t) ELSE InsertAccepted(t)
           Silent ==
      /\ company' # company => Opened = {}
      /\ \A a \in BankAccounts : accounts'[a] # accounts[a] => AccountAccepted(a)
      /\ Rows
<1>1. ASSUME BanksInv, BanksInv', [BankNext]_bankVars PROVE Rows
  <2>1. ASSUME NEW a \in BankAccounts, NEW file \in Files, NEW place, ConfirmImport(a, file, place)
        PROVE  Rows
    BY <1>1, <2>1, ImportAccepted DEF BanksInv
  <2>2. ASSUME NEW t \in BankIds, NEW i \in Invoices, NEW p \in PaymentIds, Reconcile(t, i, p)
        PROVE  Rows
    BY <1>1, <2>2, ReconciliationAccepted
  <2>3. CASE UNCHANGED bank
    BY <2>3
  <2> QED
    BY <1>1, <2>1, <2>2, <2>3 DEF BankNext, bankVars, connections, CreateAccount, UpdateAccount,
       ReceiveExternal, PreviewImport
<1>2. BanksInv /\ BanksInv' /\ [BankNext]_bankVars => [Silent]_bankVars
  BY <1>1, AccountsAccepted
<1> QED BY <1>2, BanksInvariant, PTL DEF BankSpec, GuardsStaySilent

-----------------------------------------------------------------------------
(***************************************************************************)
(* Readers of the books.                                                   *)
(***************************************************************************)

\* Readers change nothing: every step of the composition is one of the ledger, or none.
LEMMA ReadersWriteNothing == [ReportsNext]_reports => [Next]_vars
BY DEF ReportsNext, reports, Service, Dashboard, Export, Statement, Detail, TrialBalance, Ask, At,
       QueryInvoiced, QueryReceived, QueryOutstanding, QuerySums, QueryCount, QueryRows,
       QueryListed, QueryLines, QueryPayments, QueryExport

\* The ledger, read all the time, keeps every promise it makes alone.
THEOREM ReportsKeepLedger == ReportsSpec => Spec
BY ReadersWriteNothing, PTL DEF ReportsSpec, ReportsInit, Spec

LEMMA LedgerOfReports == ReportsSpec => []TypeInv
BY ReportsKeepLedger, TypeInvariant, PTL

\* Numbers without a gap, periods that tell the time and closed periods that are stable,
\* of a ledger that is read while it is written.
THEOREM NumbersWhileRead == ReportsSpec => []GapFreeNumbers
BY ReportsKeepLedger, NumbersAreGapFree, PTL

\* Periods tell the time of every entry while reports are made.
THEOREM PeriodsWhileRead == ReportsSpec => []PeriodsTellTime
BY ReportsKeepLedger, PeriodsAlwaysTellTime, PTL

\* A closed period is stable while reports are made of it.
THEOREM ClosedWhileRead == ReportsSpec => ClosedBooksStable
BY ReportsKeepLedger, ClosedBooksAreStable, PTL

-----------------------------------------------------------------------------
(***************************************************************************)
(* The dashboard is of one moment.                                         *)
(***************************************************************************)
DashboardFields == {"kind", "step", "bounds", "invoiced", "received", "outstanding"}

\* The queries made so far, under the lock, would be answered the same now.
OneMoment ==
  report.kind = "dashboard" =>
    /\ DOMAIN report = DashboardFields
    /\ report.step \in {"invoiced", "received", "outstanding", "shown"}
    /\ report.step \in {"received", "outstanding"} => report.invoiced = Invoiced(report.bounds)
    /\ report.step = "outstanding" => report.received = Received(report.bounds)

LEMMA OneMomentInit == ReportsInit => OneMoment
BY DEF ReportsInit, OneMoment, NoReport

\* A sum is a function of the rows: it is the same until a service writes.
LEMMA SameSums ==
  ASSUME NEW bounds, UNCHANGED vars
  PROVE  Invoiced(bounds)' = Invoiced(bounds) /\ Received(bounds)' = Received(bounds)
         /\ Outstanding' = Outstanding
BY DEF vars, Invoiced, Received, Outstanding, TotalOf, PaidOf, AmountOf, PaymentsOf, Validated,
       Recorded, Total, Paid, AmountsOf, Balance, Within
\* The steps of a reader, by the report they belong to.
DashboardSteps == QueryInvoiced \/ QueryReceived \/ QueryOutstanding
OtherSteps ==
  \/ \E bounds \in Bounds \cup {Unbounded} :
       Export(bounds) \/ \E customer \in References : Statement(customer, bounds)
  \/ \E i \in Invoices : Detail(i)
  \/ \E q \in PeriodIds : TrialBalance(q)
  \/ QuerySums \/ QueryCount \/ QueryRows \/ QueryListed
  \/ QueryLines \/ QueryPayments \/ QueryExport

\* The fields of each report.
Shapes ==
  /\ report.kind = "dashboard" => DOMAIN report = DashboardFields
  /\ report.kind = "statement" =>
       DOMAIN report = {"kind", "step", "customer", "bounds", "total", "paid", "count", "rows", "listed"}
  /\ report.kind = "detail" =>
       DOMAIN report = {"kind", "step", "invoice", "net", "tax", "lines", "listed"}
  /\ report.kind = "export" => DOMAIN report = {"kind", "step", "bounds", "currency", "rows"}

LEMMA OtherReports ==
  ASSUME Shapes, OtherSteps
  PROVE  report'.kind # "dashboard" /\ Shapes' /\ UNCHANGED vars
<1>1. ASSUME NEW q, TrialBalance(q)
      PROVE  report'.kind # "dashboard" /\ Shapes' /\ UNCHANGED vars
  <2>1. report'.kind = "trial" /\ UNCHANGED vars
    BY <1>1, Zenon DEF TrialBalance, Ask
  <2> QED BY <2>1 DEF Shapes
<1>2. ASSUME \/ \E bounds : Export(bounds)
             \/ \E bounds, customer : Statement(customer, bounds)
             \/ \E i : Detail(i)
      PROVE  report'.kind # "dashboard" /\ Shapes' /\ UNCHANGED vars
  BY <1>2 DEF Export, Statement, Detail, Ask, Shapes
<1>3. ASSUME QuerySums \/ QueryCount \/ QueryRows \/ QueryListed
      PROVE  report'.kind = "statement" /\ DOMAIN report' = DOMAIN report /\ UNCHANGED vars
  BY <1>3 DEF QuerySums, QueryCount, QueryRows, QueryListed, At, Shapes
<1>4. ASSUME QueryLines \/ QueryPayments
      PROVE  report'.kind = "detail" /\ DOMAIN report' = DOMAIN report /\ UNCHANGED vars
  BY <1>4 DEF QueryLines, QueryPayments, At, Shapes
<1>5. ASSUME QueryExport
      PROVE  /\ report' = NoReport \/ (report'.kind = "export" /\ DOMAIN report' = DOMAIN report)
             /\ UNCHANGED vars
  BY <1>5 DEF QueryExport, At, Shapes
<1>6. ASSUME QuerySums \/ QueryCount \/ QueryRows \/ QueryListed \/ QueryLines \/ QueryPayments \/ QueryExport
      PROVE  report'.kind # "dashboard" /\ Shapes' /\ UNCHANGED vars
  <2>1. /\ QuerySums \/ QueryCount \/ QueryRows \/ QueryListed => report.kind = "statement"
        /\ QueryLines \/ QueryPayments => report.kind = "detail"
        /\ QueryExport => report.kind = "export"
    BY DEF QuerySums, QueryCount, QueryRows, QueryListed, QueryLines, QueryPayments, QueryExport, At
  <2> QED BY <1>3, <1>4, <1>5, <1>6, <2>1 DEF Shapes, NoReport
<1> QED BY <1>1, <1>2, <1>6 DEF OtherSteps


\* While the dashboard reads, only the dashboard moves on.
LEMMA ReaderSteps ==
  ASSUME [ReportsNext]_reports
  PROVE  \/ UNCHANGED report
         \/ \E bounds \in Bounds \cup {Unbounded} : Dashboard(bounds)
         \/ DashboardSteps
         \/ OtherSteps
BY DEF ReportsNext, reports, Service, DashboardSteps, OtherSteps

LEMMA ShapesInit == ReportsInit => Shapes
BY DEF ReportsInit, NoReport, Shapes

LEMMA ShapesStep == Shapes /\ [ReportsNext]_reports => Shapes'
<1> SUFFICES ASSUME Shapes, [ReportsNext]_reports PROVE Shapes'
  OBVIOUS
<1>1. ASSUME NEW bounds, Dashboard(bounds) PROVE Shapes'
  BY <1>1 DEF Dashboard, Ask, Shapes, DashboardFields
<1>2. CASE DashboardSteps
  <2>1. report'.kind = "dashboard" /\ DOMAIN report' = DOMAIN report
    BY <1>2 DEF DashboardSteps, QueryInvoiced, QueryReceived, QueryOutstanding, At, Shapes, DashboardFields
  <2>2. report.kind = "dashboard"
    BY <1>2 DEF DashboardSteps, QueryInvoiced, QueryReceived, QueryOutstanding, At
  <2> QED BY <2>1, <2>2 DEF Shapes
<1>3. CASE OtherSteps
  BY <1>3, OtherReports
<1>4. CASE UNCHANGED report
  BY <1>4 DEF Shapes
<1> QED BY <1>1, <1>2, <1>3, <1>4, ReaderSteps

LEMMA OneMomentStep == Shapes /\ OneMoment /\ [ReportsNext]_reports => OneMoment'
<1> SUFFICES ASSUME Shapes, OneMoment, [ReportsNext]_reports PROVE OneMoment'
  OBVIOUS
<1>1. ASSUME NEW bounds, Dashboard(bounds) PROVE OneMoment'
  BY <1>1 DEF Dashboard, Ask, OneMoment, DashboardFields
<1>2. CASE DashboardSteps
  <2>1. report.kind = "dashboard" /\ UNCHANGED vars
    BY <1>2 DEF DashboardSteps, QueryInvoiced, QueryReceived, QueryOutstanding, At
  <2>2. /\ DOMAIN report' = DashboardFields /\ report'.kind = report.kind
        /\ report'.bounds = report.bounds
        /\ \/ report'.step = "received" /\ report'.invoiced = Invoiced(report.bounds)
           \/ /\ report.step = "received" /\ report'.step = "outstanding"
              /\ report'.invoiced = report.invoiced /\ report'.received = Received(report.bounds)
           \/ report'.step = "shown"
    BY <1>2, <2>1
       DEF DashboardSteps, QueryInvoiced, QueryReceived, QueryOutstanding, At, OneMoment, DashboardFields
  <2>3. \A bounds : Invoiced(bounds)' = Invoiced(bounds) /\ Received(bounds)' = Received(bounds)
    BY <2>1, SameSums
  <2> QED BY <2>1, <2>2, <2>3 DEF OneMoment
<1>3. CASE OtherSteps
  BY <1>3, OtherReports DEF OneMoment
<1>4. CASE UNCHANGED report /\ ~UNCHANGED vars
  <2>1. ~Locked
    BY <1>4 DEF ReportsNext, reports, Service, Dashboard, Export, Statement, Detail, TrialBalance, Ask, At,
       QueryInvoiced, QueryReceived, QueryOutstanding, QuerySums, QueryCount, QueryRows,
       QueryListed, QueryLines, QueryPayments, QueryExport
  <2> QED BY <1>4, <2>1 DEF Locked, OneMoment
<1>5. CASE UNCHANGED report /\ UNCHANGED vars
  BY <1>5, SameSums DEF OneMoment
<1> QED BY <1>1, <1>2, <1>3, <1>4, <1>5, ReaderSteps

\* The three figures of a dashboard are those of the books at the moment it is shown, for
\* no service writes between its queries: DashboardView holds the lock of the company.
ShownAtOnce ==
  [][Shown("dashboard")' /\ ~Shown("dashboard") =>
       /\ report'.invoiced = Invoiced(report'.bounds)
       /\ report'.received = Received(report'.bounds)
       /\ report'.outstanding = Outstanding]_reports

\* A dashboard shows one moment of the books, for every company and order of requests.
THEOREM DashboardShowsOneMoment == ReportsSpec => ShownAtOnce
<1> DEFINE AtOnce == Shown("dashboard")' /\ ~Shown("dashboard") =>
             /\ report'.invoiced = Invoiced(report'.bounds)
             /\ report'.received = Received(report'.bounds)
             /\ report'.outstanding = Outstanding
<1>1. ASSUME Shapes, OneMoment, [ReportsNext]_reports PROVE AtOnce
  <2>1. ASSUME NEW bounds, Dashboard(bounds) PROVE AtOnce
    BY <2>1 DEF Dashboard, Ask, Shown
  <2>2. CASE OtherSteps
    BY <1>1, <2>2, OtherReports DEF Shown
  <2>3. CASE UNCHANGED report
    BY <2>3 DEF Shown
  <2>4. CASE DashboardSteps
    <3>1. SUFFICES ASSUME report'.step = "shown" PROVE AtOnce
      BY DEF Shown
    <3>2. QueryOutstanding
      BY <1>1, <2>4, <3>1 DEF DashboardSteps, QueryInvoiced, QueryReceived, At, Shapes, DashboardFields
    <3>3. report.kind = "dashboard" /\ report.step = "outstanding"
      BY <3>2 DEF QueryOutstanding, At
    <3>4. /\ report'.invoiced = report.invoiced /\ report'.received = report.received
          /\ report'.bounds = report.bounds /\ report'.outstanding = Outstanding
      BY <1>1, <3>2, <3>3 DEF QueryOutstanding, Shapes, DashboardFields
    <3> QED BY <1>1, <3>3, <3>4 DEF OneMoment
  <2> HIDE DEF AtOnce
  <2> QED BY <1>1, <2>1, <2>2, <2>3, <2>4, ReaderSteps
<1>2. ReportsSpec => [](Shapes /\ OneMoment)
  BY ShapesInit, ShapesStep, OneMomentInit, OneMomentStep, PTL DEF ReportsSpec
<1> QED BY <1>1, <1>2, PTL DEF ReportsSpec, ShownAtOnce


-----------------------------------------------------------------------------
(***************************************************************************)
(* What a report shows of an issued invoice is final.                      *)
(***************************************************************************)

\* What a report can show of a row does not change when a service writes.
LEMMA BooksGrow ==
  ASSUME TypeInv, [Next]_vars
  PROVE  /\ \A i \in Validated : i \in Validated' /\ invoices'[i] = invoices[i]
         /\ \A p \in Recorded : p \in Recorded' /\ payments'[p] = payments[p]
<1>1. \A i \in Validated : i \in Validated' /\ invoices'[i] = invoices[i]
  <2>1. CASE \E i \in Invoices, k \in Keys : ValidateInvoice(i, k)
    BY <2>1, Issuing DEF Validated
  <2> QED BY <2>1, ValidatedSteps
<1>2. \A p \in Recorded : payments'[p] = payments[p]
  <2>1. ASSUME NEW i \in Invoices, NEW k \in Keys, NEW p \in PaymentIds,
               NEW amount \in PaymentAmounts, NEW day \in Days,
               RecordPayment(i, k, p, amount, day)
        PROVE  \A r \in Recorded : payments'[r] = payments[r]
    BY <2>1, PaidGrows DEF TypeInv
  <2>2. CASE UNCHANGED payments
    BY <2>2
  <2> QED
    BY <2>1, <2>2 DEF Next, vars, SaveDraft, DuplicateInvoice, ValidateInvoice,
       ConfigureCompany, SetPeriod, SetArchived, Connect
<1> QED BY <1>1, <1>2 DEF Recorded

LEMMA PaymentsStay ==
  ASSUME TypeInv, [Next]_vars, NEW some
  PROVE  PaymentsOf(some) \subseteq PaymentsOf(some)'
<1>1. ASSUME NEW p \in Recorded PROVE p \in Recorded' /\ payments'[p] = payments[p]
  BY BooksGrow
<1> QED BY <1>1 DEF PaymentsOf

\* A service leaves what was shown alone.
LEMMA ServiceKeepsFinal ==
  ASSUME TypeInv, RowsAreFinal, [Next]_vars, UNCHANGED report
  PROVE  RowsAreFinal'
<1>1. ASSUME NEW i \in Validated
      PROVE  /\ i \in Validated' /\ invoices'[i] = invoices[i] /\ Total(i)' = Total(i)
             /\ \A currency : ExportRow(i, currency)' = ExportRow(i, currency)
  <2>1. i \in Validated' /\ invoices'[i] = invoices[i]
    BY BooksGrow
  <2>2. invoices[i].status # "draft"
    BY DEF Validated
  <2> QED BY <2>1, <2>2 DEF Total, ExportRow
<1>2. CASE report.kind = "statement"
  BY <1>1, <1>2, PaymentsStay DEF RowsAreFinal, Shown
<1>3. CASE report.kind = "detail"
  BY <1>1, <1>3, PaymentsStay DEF RowsAreFinal, Shown
<1>4. CASE Shown("export")
  BY <1>1, <1>4 DEF RowsAreFinal, Shown
<1> QED BY <1>2, <1>3, <1>4 DEF RowsAreFinal, Shown

LEMMA StatementIsFinal ==
  ASSUME Shapes, RowsAreFinal, QuerySums \/ QueryCount \/ QueryRows \/ QueryListed
  PROVE  RowsAreFinal'
<1>1. report.kind = "statement" /\ UNCHANGED vars
  BY DEF QuerySums, QueryCount, QueryRows, QueryListed, At
<1>2. Validated' = Validated /\ \A i : Total(i)' = Total(i)
  BY <1>1 DEF vars, Validated, Total
<1>3. \A some : PaymentsOf(some)' = PaymentsOf(some)
  BY <1>1 DEF vars, PaymentsOf, Recorded
<1>4. CASE QuerySums \/ QueryCount
  <2>1. report'.kind = "statement" /\ report'.rows = report.rows /\ report'.listed = report.listed
    BY <1>1, <1>4 DEF QuerySums, QueryCount, Shapes
  <2> QED BY <1>1, <1>2, <1>3, <2>1 DEF RowsAreFinal, Shown
<1>5. CASE QueryRows
  <2>1. PICK page \in Pages(Selected(report.customer, report.bounds), report.count) :
          report' = [report EXCEPT !.step = "payments",
                                   !.rows = [i \in page |-> [total |-> Total(i), paid |-> Paid(i)]]]
    BY <1>5 DEF QueryRows
  <2>2. page \subseteq Validated
    BY DEF Pages, Selected
  <2>3. /\ report'.kind = "statement" /\ report'.listed = report.listed
        /\ report'.rows = [i \in page |-> [total |-> Total(i), paid |-> Paid(i)]]
    BY <1>1, <2>1 DEF Shapes
  <2>4. \A i \in DOMAIN report'.rows : i \in Validated /\ report'.rows[i].total = Total(i)
    BY <2>2, <2>3
  <2> QED BY <1>1, <1>2, <1>3, <2>3, <2>4 DEF RowsAreFinal, Shown
<1>6. CASE QueryListed
  <2>1. /\ report'.kind = "statement" /\ report'.rows = report.rows
        /\ report'.listed = PaymentsOf(DOMAIN report.rows)
    BY <1>1, <1>6 DEF QueryListed, Shapes
  <2>2. DOMAIN report.rows \subseteq Invoices
    BY <1>1 DEF RowsAreFinal, Validated
  <2>3. report'.listed \subseteq PaymentsOf(Invoices)
    BY <2>1, <2>2 DEF PaymentsOf
  <2> QED BY <1>1, <1>2, <1>3, <2>1, <2>3 DEF RowsAreFinal, Shown
<1> QED BY <1>4, <1>5, <1>6

LEMMA DetailIsFinal ==
  ASSUME Shapes, RowsAreFinal, QueryLines \/ QueryPayments
  PROVE  RowsAreFinal'
<1>1. report.kind = "detail" /\ UNCHANGED vars
  BY DEF QueryLines, QueryPayments, At
<1>2. Validated' = Validated /\ \A some : PaymentsOf(some)' = PaymentsOf(some)
  BY <1>1 DEF vars, Validated, PaymentsOf, Recorded
<1>3. /\ report'.kind = "detail" /\ report'.invoice = report.invoice
      /\ report'.net = report.net /\ report'.tax = report.tax
      /\ \/ report'.lines = invoices[report.invoice].lines /\ report'.listed = report.listed
         \/ /\ report.step = "payments" /\ report'.lines = report.lines
            /\ report'.listed = PaymentsOf({report.invoice})
  BY <1>1 DEF QueryLines, QueryPayments, At, Shapes
<1> QED BY <1>1, <1>2, <1>3 DEF RowsAreFinal, Shown, vars

LEMMA ExportIsFinal ==
  ASSUME Shapes, QueryExport
  PROVE  RowsAreFinal'
<1> DEFINE some == {i \in Invoices : /\ invoices[i].status # "absent"
                                    /\ Within(invoices[i].issue, report.bounds)}
           rows == [i \in some |-> ExportRow(i, report.currency)]
<1>1. report.kind = "export" /\ UNCHANGED vars
  BY DEF QueryExport, At
<1>2. CASE report' = NoReport
  BY <1>2 DEF RowsAreFinal, Shown, NoReport
<1>3. CASE report' = [report EXCEPT !.step = "shown", !.rows = rows]
  <2>1. report'.kind = "export" /\ report'.rows = rows /\ report'.currency = report.currency
    BY <1>1, <1>3 DEF Shapes
  <2>2. ASSUME NEW i \in some, rows[i].status = "validated" PROVE i \in Validated'
    BY <1>1, <2>2 DEF ExportRow, Validated, vars
  <2>3. \A i \in some : rows[i] = ExportRow(i, report.currency)
    OBVIOUS
  <2>4. \A i, currency : ExportRow(i, currency)' = ExportRow(i, currency)
    BY <1>1 DEF ExportRow, vars
  <2>5. DOMAIN rows = some
    OBVIOUS
  <2> HIDE DEF rows, some
  <2> QED BY <2>1, <2>2, <2>3, <2>4, <2>5 DEF RowsAreFinal, Shown
<1> QED BY <1>1, <1>2, <1>3 DEF QueryExport

LEMMA FinalInit == ReportsInit => RowsAreFinal
BY DEF ReportsInit, NoReport, RowsAreFinal, Shown

LEMMA FinalStep == TypeInv /\ Shapes /\ RowsAreFinal /\ [ReportsNext]_reports => RowsAreFinal'
<1> SUFFICES ASSUME TypeInv, Shapes, RowsAreFinal, [ReportsNext]_reports PROVE RowsAreFinal'
  OBVIOUS
<1>1. CASE UNCHANGED report
  BY <1>1, ReadersWriteNothing, ServiceKeepsFinal
<1>2. CASE DashboardSteps \/ \E bounds : Dashboard(bounds)
  <2>1. ASSUME NEW bounds, Dashboard(bounds) PROVE report'.kind = "dashboard"
    BY <2>1 DEF Dashboard, Ask
  <2>2. ASSUME DashboardSteps PROVE report'.kind = "dashboard"
    BY <2>2 DEF DashboardSteps, QueryInvoiced, QueryReceived, QueryOutstanding, At, Shapes,
                DashboardFields
  <2> QED BY <1>2, <2>1, <2>2 DEF RowsAreFinal, Shown
<1>3. ASSUME \/ \E bounds : Export(bounds)
             \/ \E bounds, customer : Statement(customer, bounds)
      PROVE  RowsAreFinal'
  BY <1>3 DEF Export, Statement, Ask, RowsAreFinal, Shown
<1>4. ASSUME NEW i \in Invoices, Detail(i)
      PROVE  RowsAreFinal'
  <2>1. i \in Validated /\ UNCHANGED vars
    BY <1>4 DEF Detail, Ask
  <2>2. /\ report'.kind = "detail" /\ report'.step = "lines" /\ report'.invoice = i
        /\ report'.net = invoices[i].net /\ report'.tax = invoices[i].tax /\ report'.listed = {}
    BY <1>4 DEF Detail, Ask
  <2>3. i \in Validated' /\ invoices' = invoices
    BY <2>1 DEF vars, Validated
  <2> QED BY <2>2, <2>3 DEF RowsAreFinal, Shown
<1>5. ASSUME NEW q, TrialBalance(q)
      PROVE  RowsAreFinal'
  <2>1. report'.kind = "trial"
    BY <1>5, Zenon DEF TrialBalance, Ask
  <2> QED BY <2>1 DEF RowsAreFinal, Shown
<1>6. CASE OtherSteps
  BY <1>3, <1>4, <1>5, <1>6, StatementIsFinal, DetailIsFinal, ExportIsFinal DEF OtherSteps
<1> QED BY <1>1, <1>2, <1>6, ReaderSteps

\* Whatever is issued, paid and configured between the queries of a statement, of an
\* invoice shown alone or of an export, and after them, what these say of an issued
\* invoice stays what the books say.
THEOREM ReportsStayTrue == ReportsSpec => []RowsAreFinal
<1>1. ReportsSpec => []Shapes
  BY ShapesInit, ShapesStep, PTL DEF ReportsSpec
<1> QED BY <1>1, FinalInit, FinalStep, LedgerOfReports, PTL DEF ReportsSpec

-----------------------------------------------------------------------------
(***************************************************************************)
(* The sums of a report.                                                   *)
(***************************************************************************)
AmountColumn == [p \in PaymentIds |-> payments[p].amount]

LEMMA AmountColumnType ==
  ASSUME TypeOK
  PROVE  \A p \in PaymentIds : AmountColumn[p] \in Nat /\ AmountColumn[p] = payments[p].amount
<1>1. \A p \in PaymentIds : payments[p].amount \in PaymentAmounts \cup {0}
  BY DEF TypeOK, PaymentRow
<1>2. PaymentAmounts \cup {0} \subseteq Nat
  BY LedgerAssumption
<1> QED BY <1>1, <1>2 DEF AmountColumn

LEMMA RecordedFinite == \A some \in SUBSET Recorded : IsFiniteSet(some) /\ some \subseteq PaymentIds
<1>1. \A some \in SUBSET Recorded : some \in SUBSET PaymentIds
  BY DEF Recorded
<1> QED BY <1>1, FinitePaymentIds, FS_Subset

\* The payment rows of a report add up to the amounts of their keys.
LEMMA ListedAmounts ==
  ASSUME TypeOK, NEW some \in SUBSET Recorded
  PROVE  /\ IsFiniteSet({<<p, payments[p]>> : p \in some})
         /\ AmountOf({<<p, payments[p]>> : p \in some}) = SumFunctionOnSet(AmountColumn, some)
<1> DEFINE rows == {<<p, payments[p]>> : p \in some}
           f == [row \in rows |-> row[2].amount]
           name == [row \in rows |-> row[1]]
           pair == [p \in some |-> <<p, payments[p]>>]
<1>1. IsFiniteSet(some) /\ some \subseteq PaymentIds
  BY RecordedFinite
<1>2. IsFiniteSet(rows)
  <2>1. pair \in Surjection(some, rows)
    BY DEF Surjection
  <2> HIDE DEF pair, rows
  <2> QED BY <1>1, <2>1, FS_Surjection
<1>3. \A row \in rows : name[row] \in some /\ f[row] = AmountColumn[name[row]] /\ f[row] \in Int
  BY <1>1, AmountColumnType
<1>4. ASSUME NEW p \in some
      PROVE  \E row \in rows : {other \in rows : name[other] = p} = {row}
  <2>1. <<p, payments[p]>> \in rows /\ {other \in rows : name[other] = p} = {<<p, payments[p]>>}
    OBVIOUS
  <2> QED BY <2>1
<1>5. AmountOf(rows) = SumFunctionOnSet(f, rows)
  BY DEF AmountOf, SumFunction
<1> HIDE DEF rows, f, name
<1>6. SumFunctionOnSet(f, rows) = SumFunctionOnSet(AmountColumn, some)
  BY <1>1, <1>2, <1>3, <1>4, SumRenamed
<1> QED BY <1>2, <1>5, <1>6 DEF rows

\* What an invoice has paid is the sum of its payment rows.
OwnRows(i) == {p \in Recorded : payments[p].invoice = i}

LEMMA PaidByRows ==
  ASSUME TypeOK, NEW i \in Invoices
  PROVE  Paid(i) = SumFunctionOnSet(AmountColumn, OwnRows(i))
<1> DEFINE own == OwnRows(i)
           others == PaymentIds \ own
           f == AmountsOf(i)
<1>1. IsFiniteSet(own) /\ own \subseteq PaymentIds
  BY RecordedFinite DEF OwnRows
<1>2. IsFiniteSet(others) /\ own \cap others = {} /\ own \cup others = PaymentIds
  BY <1>1, FinitePaymentIds, FS_Subset
<1>3. \A p \in PaymentIds : f[p] \in Int
  BY AmountsOfType
<1>4. \A p \in own : f[p] = AmountColumn[p]
  BY <1>1, AmountColumnType DEF AmountsOf, OwnRows
<1>5. \A p \in others : f[p] = 0
  BY LedgerAssumption DEF AmountsOf, OwnRows, Recorded, NoPayment
<1>6. Paid(i) = SumFunctionOnSet(f, PaymentIds)
  BY DEF Paid, SumFunction, AmountsOf
<1> HIDE DEF own, others, f
<1>7. SumFunctionOnSet(f, own \cup others) = SumFunctionOnSet(f, own) + SumFunctionOnSet(f, others)
  BY <1>1, <1>2, <1>3, SumUnion
<1>8. SumFunctionOnSet(f, others) = 0
  BY <1>2, <1>5, SumZero
<1>9. SumFunctionOnSet(f, own) = SumFunctionOnSet(AmountColumn, own)
  BY <1>1, <1>4, SumSame
<1>10. SumFunctionOnSet(f, own) \in Int
  BY <1>1, <1>3, SumInt
<1>11. SumFunctionOnSet(f, PaymentIds) = SumFunctionOnSet(f, own) + SumFunctionOnSet(f, others)
  BY <1>2, <1>7
<1>12. Paid(i) = SumFunctionOnSet(f, own)
  BY <1>6, <1>8, <1>10, <1>11
<1>13. Paid(i) = SumFunctionOnSet(AmountColumn, own)
  BY <1>9, <1>12
<1> QED BY <1>13 DEF own

LEMMA SumsOfInvoices ==
  ASSUME TypeOK, NEW some \in SUBSET Invoices, IsFiniteSet(some)
  PROVE  /\ TotalOf(some) \in Int /\ PaidOf(some) \in Int
         /\ SumFunction([i \in some |-> Balance(i)]) = TotalOf(some) - PaidOf(some)
<1> DEFINE total == [i \in some |-> Total(i)]
           paid == [i \in some |-> Paid(i)]
           left == [i \in some |-> Balance(i)]
<1>1. \A i \in some : total[i] \in Int /\ paid[i] \in Int /\ left[i] = total[i] - paid[i]
  BY PaidType, TotalType DEF Balance
<1>2. /\ TotalOf(some) = SumFunctionOnSet(total, some)
      /\ PaidOf(some) = SumFunctionOnSet(paid, some)
      /\ SumFunction(left) = SumFunctionOnSet(left, some)
  BY DEF TotalOf, PaidOf, SumFunction
<1> HIDE DEF total, paid, left
<1>3. SumFunctionOnSet(left, some) = SumFunctionOnSet(total, some) - SumFunctionOnSet(paid, some)
  BY <1>1, SumDifference
<1>4. SumFunctionOnSet(total, some) \in Int /\ SumFunctionOnSet(paid, some) \in Int
  BY <1>1, SumInt
<1> QED BY <1>2, <1>3, <1>4 DEF left

\* Every payment is one of a validated invoice: all of them together are what the
\* validated invoices have paid.
LEMMA ReceivedIsPaid ==
  ASSUME TypeOK, NoOverpayment, IsFiniteSet(Validated)
  PROVE  Received(Unbounded) = PaidOf(Validated)
<1> DEFINE part == [p \in Recorded |-> payments[p].invoice]
           paid == [i \in Validated |-> Paid(i)]
           row == [i \in Validated |-> SumFunctionOnSet(AmountColumn, {p \in Recorded : part[p] = i})]
<1>1. {r \in PaymentsOf(Invoices) : Within(r[2].date, Unbounded)} = {<<p, payments[p]>> : p \in Recorded}
  BY DEF PaymentsOf, Within, NoOverpayment, Validated
<1>2. Received(Unbounded) = SumFunctionOnSet(AmountColumn, Recorded)
  BY <1>1, ListedAmounts DEF Received
<1>3. IsFiniteSet(Recorded) /\ Recorded \subseteq PaymentIds
  BY RecordedFinite
<1>4. \A p \in Recorded : part[p] \in Validated /\ AmountColumn[p] \in Int
  BY <1>3, AmountColumnType DEF NoOverpayment
<1>5. ASSUME NEW i \in Validated PROVE paid[i] = row[i]
  <2>1. {p \in Recorded : part[p] = i} = OwnRows(i) /\ i \in Invoices
    BY DEF OwnRows, Validated
  <2>2. paid[i] = Paid(i) /\ row[i] = SumFunctionOnSet(AmountColumn, {p \in Recorded : part[p] = i})
    OBVIOUS
  <2> HIDE DEF part, paid, row
  <2> QED BY <2>1, <2>2, PaidByRows
<1>6. paid = row
  <2>1. paid = [i \in Validated |-> paid[i]] /\ row = [i \in Validated |-> row[i]]
    OBVIOUS
  <2> HIDE DEF paid, row
  <2> QED BY <1>5, <2>1
<1>7. SumFunctionOnSet(AmountColumn, Recorded) = SumFunctionOnSet(row, Validated)
  <2> HIDE DEF part
  <2> QED BY <1>3, <1>4, SumByParts
<1>8. PaidOf(Validated) = SumFunctionOnSet(paid, Validated)
  BY DEF PaidOf, SumFunction
<1> HIDE DEF paid, row
<1> QED BY <1>2, <1>6, <1>7, <1>8

\* The invoices of which nothing remains have nothing left to add.
LEMMA DashboardAddsUp ==
  ASSUME TypeOK, NoOverpayment, IsFiniteSet(Validated)
  PROVE  Outstanding = Invoiced(Unbounded) - Received(Unbounded)
<1> DEFINE unpaid == {i \in Validated : Balance(i) > 0}
           settled == Validated \ unpaid
           left == [i \in Validated |-> Balance(i)]
           leftOf == [i \in unpaid |-> Balance(i)]
<1>1. Validated \in SUBSET Invoices /\ unpaid \in SUBSET Validated /\ settled \in SUBSET Validated
  BY DEF Validated
<1>2. IsFiniteSet(unpaid) /\ IsFiniteSet(settled)
  BY <1>1, FS_Subset
<1>3. \A i \in Validated : left[i] = Balance(i) /\ left[i] \in Int /\ left[i] >= 0
  BY <1>1, PaidType, TotalType DEF Balance, NoOverpayment
<1>4. (\A i \in settled : left[i] = 0) /\ (\A i \in unpaid : leftOf[i] = left[i])
  BY <1>3
<1>5. Invoiced(Unbounded) = TotalOf(Validated)
  BY DEF Invoiced, Within
<1>6. Outstanding = TotalOf(unpaid) - PaidOf(unpaid)
  BY DEF Outstanding
<1>7. /\ SumFunction(left) = SumFunctionOnSet(left, Validated)
      /\ SumFunction(leftOf) = SumFunctionOnSet(leftOf, unpaid)
  BY DEF SumFunction
<1>8. SumFunction(left) = TotalOf(Validated) - PaidOf(Validated)
  BY <1>1, SumsOfInvoices
<1>9. SumFunction(leftOf) = TotalOf(unpaid) - PaidOf(unpaid)
  BY <1>1, <1>2, SumsOfInvoices
<1>10. unpaid \cup settled = Validated /\ unpaid \cap settled = {}
  OBVIOUS
<1> HIDE DEF unpaid, settled, left, leftOf
<1>11. SumFunctionOnSet(left, unpaid \cup settled)
         = SumFunctionOnSet(left, unpaid) + SumFunctionOnSet(left, settled)
  BY <1>2, <1>3, <1>10, SumUnion
<1>12. SumFunctionOnSet(left, settled) = 0
  BY <1>2, <1>4, SumZero
<1>13. SumFunctionOnSet(leftOf, unpaid) = SumFunctionOnSet(left, unpaid)
  BY <1>2, <1>4, SumSame
<1>14. SumFunctionOnSet(left, unpaid) \in Int
  BY <1>1, <1>2, <1>3, SumInt
<1>15. SumFunctionOnSet(left, Validated)
         = SumFunctionOnSet(left, unpaid) + SumFunctionOnSet(left, settled)
  BY <1>10, <1>11
<1>16. SumFunctionOnSet(left, Validated) = SumFunctionOnSet(left, unpaid)
  BY <1>12, <1>14, <1>15
<1>17. Outstanding = TotalOf(Validated) - PaidOf(Validated)
  BY <1>6, <1>7, <1>8, <1>9, <1>13, <1>16
<1> QED BY <1>5, <1>17, ReceivedIsPaid

\* By account or by entry, the same lines are added up.
LEMMA LinesBothWays ==
  ASSUME NEW some, IsFiniteSet(some), \A e \in some : IsFiniteSet(e.lines) /\ e.lines \subseteq EntryLine,
         NEW amount, \A line \in EntryLine : amount[line] \in Int
  PROVE  SumFunction([account \in Accounts |->
                        SumFunction([m \in LinesOn(account, some) |-> amount[m[2]]])])
           = SumFunctionOnSet([e \in some |-> SumFunctionOnSet(amount, e.lines)], some)
<1> DEFINE All == UNION {{e} \X e.lines : e \in some}
           f == [m \in All |-> amount[m[2]]]
           account == [m \in All |-> m[2].account]
           entry == [m \in All |-> m[1]]
           Column(a) == [m \in LinesOn(a, some) |-> amount[m[2]]]
           byAccount == [a \in Accounts |-> SumFunction(Column(a))]
           onAccount == [a \in Accounts |-> SumFunctionOnSet(f, {m \in All : account[m] = a})]
           byEntry == [e \in some |-> SumFunctionOnSet(amount, e.lines)]
           onEntry == [e \in some |-> SumFunctionOnSet(f, {m \in All : entry[m] = e})]
<1>1. \A m \in All : /\ m[1] \in some /\ m[2] \in m[1].lines /\ m[2] \in EntryLine
                     /\ f[m] = amount[m[2]] /\ f[m] \in Int
                     /\ account[m] = m[2].account /\ m[2].account \in Accounts
                     /\ entry[m] = m[1]
  BY DEF EntryLine
<1>2. IsFiniteSet(All) /\ IsFiniteSet(Accounts)
  <2> DEFINE Pairs(e) == {e} \X e.lines
             pairs == [e \in some |-> Pairs(e)]
             parts == {Pairs(e) : e \in some}
  <2>1. ASSUME NEW e \in some PROVE IsFiniteSet(Pairs(e))
    BY FS_Singleton, FS_Product
  <2>2. IsFiniteSet(parts)
    <3> HIDE DEF Pairs
    <3>1. pairs \in Surjection(some, parts)
      BY DEF Surjection
    <3> HIDE DEF pairs, parts
    <3> QED BY <3>1, FS_Surjection
  <2>3. IsFiniteSet(UNION parts)
    <3> HIDE DEF Pairs
    <3> QED BY <2>1, <2>2, FS_UNION
  <2>4. IsFiniteSet({"receivable"} \cup {"revenue"}) /\ IsFiniteSet({"tax"} \cup {"bank"})
    BY FS_Singleton, FS_Union
  <2>5. Accounts = ({"receivable"} \cup {"revenue"}) \cup ({"tax"} \cup {"bank"})
    BY DEF Accounts
  <2>6. IsFiniteSet(Accounts)
    BY <2>4, <2>5, FS_Union
  <2> QED BY <2>3, <2>6
<1>3. ASSUME NEW a \in Accounts PROVE byAccount[a] = onAccount[a]
  <2> DEFINE on == LinesOn(a, some)
  <2>1. {m \in All : account[m] = a} = on
    BY DEF LinesOn
  <2>2. \A m \in on : Column(a)[m] = f[m]
    BY <2>1
  <2>3. IsFiniteSet(on)
    BY LinesOnFinite
  <2>4. SumFunction(Column(a)) = SumFunctionOnSet(Column(a), on)
    BY DEF SumFunction
  <2>5. byAccount[a] = SumFunction(Column(a))
    OBVIOUS
  <2>6. onAccount[a] = SumFunctionOnSet(f, {m \in All : account[m] = a})
    OBVIOUS
  <2> HIDE DEF All, f, account, Column, byAccount, onAccount, on
  <2>7. SumFunctionOnSet(Column(a), on) = SumFunctionOnSet(f, on)
    BY <2>2, <2>3, SumSame
  <2>8. onAccount[a] = SumFunctionOnSet(f, on)
    BY <2>1, <2>6
  <2> QED BY <2>4, <2>5, <2>7, <2>8
<1>4. ASSUME NEW e \in some PROVE byEntry[e] = onEntry[e]
  <2> DEFINE of == {m \in All : entry[m] = e}
             name == [m \in of |-> m[2]]
             lines == e.lines
  <2>1. of = {e} \X lines
    OBVIOUS
  <2>2. IsFiniteSet(of) /\ IsFiniteSet(lines)
    BY <1>2, FS_Subset
  <2>3. \A m \in of : name[m] \in lines /\ f[m] = amount[name[m]] /\ f[m] \in Int
    BY <1>1, <2>1
  <2>4. ASSUME NEW line \in lines
        PROVE  \E m \in of : {other \in of : name[other] = line} = {m}
    <3>1. <<e, line>> \in of /\ {other \in of : name[other] = line} = {<<e, line>>}
      BY <2>1
    <3> QED BY <3>1
  <2>5. byEntry[e] = SumFunctionOnSet(amount, lines) /\ onEntry[e] = SumFunctionOnSet(f, of)
    OBVIOUS
  <2> HIDE DEF All, f, entry, byEntry, onEntry, of, name, lines
  <2>6. SumFunctionOnSet(f, of) = SumFunctionOnSet(amount, lines)
    BY <2>2, <2>3, <2>4, SumRenamed
  <2> QED BY <2>5, <2>6
<1>5. byAccount = onAccount /\ byEntry = onEntry
  <2>1. /\ byAccount = [a \in Accounts |-> byAccount[a]] /\ onAccount = [a \in Accounts |-> onAccount[a]]
        /\ byEntry = [e \in some |-> byEntry[e]] /\ onEntry = [e \in some |-> onEntry[e]]
    OBVIOUS
  <2> HIDE DEF byAccount, onAccount, byEntry, onEntry
  <2> QED BY <1>3, <1>4, <2>1
<1>6. SumFunctionOnSet(f, All) = SumFunctionOnSet(onAccount, Accounts)
  <2>1. \A m \in All : account[m] \in Accounts
    BY <1>1
  <2>2. \A m \in All : f[m] \in Int
    BY <1>1
  <2> HIDE DEF All, f, account
  <2> QED BY <1>2, <2>1, <2>2, SumByParts
<1>7. SumFunctionOnSet(f, All) = SumFunctionOnSet(onEntry, some)
  <2>1. \A m \in All : entry[m] \in some
    BY <1>1
  <2>2. \A m \in All : f[m] \in Int
    BY <1>1
  <2> HIDE DEF All, f, entry
  <2> QED BY <1>2, <2>1, <2>2, SumByParts
<1>8. SumFunction(byAccount) = SumFunctionOnSet(byAccount, Accounts)
  BY DEF SumFunction
<1>9. SumFunction(byAccount) = SumFunctionOnSet(byEntry, some)
  <2> HIDE DEF byAccount, onAccount, byEntry, onEntry, f
  <2> QED BY <1>5, <1>6, <1>7, <1>8
<1> QED BY <1>9

-----------------------------------------------------------------------------
(***************************************************************************)
(* The figures shown together add up.                                      *)
(***************************************************************************)
LEMMA TrialBalances ==
  ASSUME EntriesKept, NEW q
  PROVE  SumFunction([account \in Accounts |->
                        SumFunction([m \in Movements(q, account) |-> m[2].debit])])
           = SumFunction([account \in Accounts |->
                            SumFunction([m \in Movements(q, account) |-> m[2].credit])])
<1> DEFINE filed == {e \in entries : e.period = q}
           debit == [line \in EntryLine |-> line.debit]
           credit == [line \in EntryLine |-> line.credit]
           Debited(a) == SumFunction([m \in LinesOn(a, filed) |-> debit[m[2]]])
           Credited(a) == SumFunction([m \in LinesOn(a, filed) |-> credit[m[2]]])
           debits == [e \in filed |-> SumFunctionOnSet(debit, e.lines)]
           credits == [e \in filed |-> SumFunctionOnSet(credit, e.lines)]
<1>1. /\ \A e \in filed : IsFiniteSet(e.lines) /\ e.lines \subseteq EntryLine
      /\ \A e \in filed : Debits(e.lines) = Credits(e.lines)
  BY DEF EntriesKept, EntryKept
<1>2. IsFiniteSet(filed)
  BY FS_Subset DEF EntriesKept
<1>3. \A line \in EntryLine : /\ debit[line] = line.debit /\ debit[line] \in Int
                              /\ credit[line] = line.credit /\ credit[line] \in Int
  BY DEF EntryLine
<1>4. ASSUME NEW e \in filed
      PROVE  debits[e] = credits[e]
  <2> DEFINE lines == e.lines
             own == [line \in lines |-> line.debit]
             against == [line \in lines |-> line.credit]
  <2>1. IsFiniteSet(lines) /\ Debits(lines) = Credits(lines)
    BY <1>1
  <2>2. \A line \in lines : own[line] = debit[line] /\ against[line] = credit[line]
    BY <1>1, <1>3
  <2>3. /\ Debits(lines) = SumFunctionOnSet(own, lines)
        /\ Credits(lines) = SumFunctionOnSet(against, lines)
    BY DEF Debits, Credits, SumFunction
  <2>4. debits[e] = SumFunctionOnSet(debit, lines) /\ credits[e] = SumFunctionOnSet(credit, lines)
    OBVIOUS
  <2> HIDE DEF filed, debit, credit, debits, credits, lines, own, against
  <2>5. /\ SumFunctionOnSet(own, lines) = SumFunctionOnSet(debit, lines)
        /\ SumFunctionOnSet(against, lines) = SumFunctionOnSet(credit, lines)
    BY <2>1, <2>2, SumSame
  <2> QED BY <2>1, <2>3, <2>4, <2>5
<1>5. debits = credits
  <2>1. debits = [e \in filed |-> debits[e]] /\ credits = [e \in filed |-> credits[e]]
    OBVIOUS
  <2> HIDE DEF debits, credits
  <2> QED BY <1>4, <2>1
<1>6. ASSUME NEW a \in Accounts
      PROVE  /\ SumFunction([m \in Movements(q, a) |-> m[2].debit]) = Debited(a)
             /\ SumFunction([m \in Movements(q, a) |-> m[2].credit]) = Credited(a)
  <2>1. \A m \in LinesOn(a, filed) : m[2] \in EntryLine
    BY <1>1 DEF LinesOn
  <2>2. /\ [m \in Movements(q, a) |-> m[2].debit] = [m \in LinesOn(a, filed) |-> debit[m[2]]]
        /\ [m \in Movements(q, a) |-> m[2].credit] = [m \in LinesOn(a, filed) |-> credit[m[2]]]
    BY <1>3, <2>1 DEF Movements
  <2> QED BY <2>2
<1>7. SumFunction([a \in Accounts |-> Debited(a)]) = SumFunctionOnSet(debits, filed)
  <2> HIDE DEF filed, debit
  <2> QED BY <1>1, <1>2, <1>3, LinesBothWays
<1>8. SumFunction([a \in Accounts |-> Credited(a)]) = SumFunctionOnSet(credits, filed)
  <2> HIDE DEF filed, credit
  <2> QED BY <1>1, <1>2, <1>3, LinesBothWays
<1> HIDE DEF Debited, Credited, debits, credits, filed
<1>9. SumFunction([a \in Accounts |-> Debited(a)]) = SumFunction([a \in Accounts |-> Credited(a)])
  BY <1>5, <1>7, <1>8
<1> QED BY <1>6, <1>9

\* Finitely many invoices are validated, at any time.
LEMMA ValidatedFinite == Spec => []IsFiniteSet(Validated)
<1>1. Init => IsFiniteSet(Validated)
  <2>1. Init => Validated = {}
    BY DEF Init, Validated, NoInvoice
  <2> QED BY <2>1, FS_EmptySet
<1>2. TypeInv /\ IsFiniteSet(Validated) /\ [Next]_vars => IsFiniteSet(Validated)'
  <2> SUFFICES ASSUME TypeInv, IsFiniteSet(Validated), [Next]_vars PROVE IsFiniteSet(Validated')
    OBVIOUS
  <2>1. CASE \E i \in Invoices, k \in Keys : ValidateInvoice(i, k)
    BY <2>1, Issuing, FS_AddElement
  <2>2. CASE Validated' = Validated
    BY <2>2
  <2> QED BY <2>1, <2>2, ValidatedSteps
<1> QED BY <1>1, <1>2, TypeInvariant, PTL DEF Spec

LEMMA FiguresStep ==
  /\ TypeInv /\ NoOverpayment /\ EntriesKept /\ IsFiniteSet(Validated)
  /\ Shapes /\ OneMoment /\ FiguresAddUp /\ [ReportsNext]_reports
  => FiguresAddUp'
<1> SUFFICES ASSUME TypeInv, NoOverpayment, EntriesKept, IsFiniteSet(Validated),
                    Shapes, OneMoment, FiguresAddUp, [ReportsNext]_reports
             PROVE  FiguresAddUp'
  OBVIOUS
<1>1. CASE UNCHANGED report
  BY <1>1 DEF FiguresAddUp, Shown
<1>2. ASSUME NEW bounds, Dashboard(bounds) PROVE FiguresAddUp'
  BY <1>2 DEF Dashboard, Ask, FiguresAddUp, Shown
<1>3. CASE QueryInvoiced \/ QueryReceived
  <2>1. report'.kind = "dashboard" /\ report'.step \in {"received", "outstanding"}
    BY <1>3 DEF QueryInvoiced, QueryReceived, At, Shapes, DashboardFields
  <2> QED BY <2>1 DEF FiguresAddUp, Shown
<1>4. CASE QueryOutstanding
  <2>1. report.kind = "dashboard" /\ report.step = "outstanding"
    BY <1>4 DEF QueryOutstanding, At
  <2>2. /\ report'.kind = "dashboard" /\ report'.bounds = report.bounds
        /\ report'.invoiced = report.invoiced /\ report'.received = report.received
        /\ report'.outstanding = Outstanding
    BY <1>4, <2>1 DEF QueryOutstanding, Shapes, DashboardFields
  <2>3. report.invoiced = Invoiced(report.bounds) /\ report.received = Received(report.bounds)
    BY <2>1 DEF OneMoment
  <2> QED BY <2>2, <2>3, DashboardAddsUp DEF FiguresAddUp, Shown, TypeInv
<1>5. ASSUME NEW q, TrialBalance(q) PROVE FiguresAddUp'
  <2> DEFINE debit == SumFunction([account \in Accounts |->
                        SumFunction([m \in Movements(q, account) |-> m[2].debit])])
             credit == SumFunction([account \in Accounts |->
                         SumFunction([m \in Movements(q, account) |-> m[2].credit])])
  <2>1. report' = [kind |-> "trial", step |-> "shown", debit |-> debit, credit |-> credit]
    BY <1>5, Zenon DEF TrialBalance, Ask
  <2>2. debit = credit
    BY TrialBalances
  <2> HIDE DEF debit, credit
  <2> QED BY <2>1, <2>2 DEF FiguresAddUp, Shown
<1>6. CASE OtherSteps /\ report'.kind # "trial"
  BY <1>6, OtherReports DEF FiguresAddUp, Shown
<1>7. OtherSteps => report'.kind # "trial" \/ \E q \in PeriodIds : TrialBalance(q)
  <2>1. ASSUME \/ \E bounds : Export(bounds)
               \/ \E bounds, customer : Statement(customer, bounds)
               \/ \E i : Detail(i)
        PROVE  report'.kind # "trial"
    BY <2>1 DEF Export, Statement, Detail, Ask
  <2>2. ASSUME QuerySums \/ QueryCount \/ QueryRows \/ QueryListed
        PROVE  report'.kind # "trial"
    BY <2>2 DEF QuerySums, QueryCount, QueryRows, QueryListed, At, Shapes
  <2>3. ASSUME QueryLines \/ QueryPayments PROVE report'.kind # "trial"
    BY <2>3 DEF QueryLines, QueryPayments, At, Shapes
  <2>4. ASSUME QueryExport PROVE report'.kind # "trial"
    BY <2>4 DEF QueryExport, At, Shapes, NoReport
  <2> QED BY <2>1, <2>2, <2>3, <2>4 DEF OtherSteps
<1> QED BY <1>1, <1>2, <1>3, <1>4, <1>5, <1>6, <1>7, ReaderSteps DEF DashboardSteps

\* On a dashboard without limits what was invoiced less what was received is what remains
\* open, for every number of invoices and payments and every order of services and
\* queries; and the accounts of a trial balance always balance.
THEOREM FiguresAlwaysAddUp == ReportsSpec => []FiguresAddUp
<1>1. ReportsSpec => [](Shapes /\ OneMoment)
  BY ShapesInit, ShapesStep, OneMomentInit, OneMomentStep, PTL DEF ReportsSpec
<1>2. ReportsInit => FiguresAddUp
  BY DEF ReportsInit, NoReport, FiguresAddUp, Shown
<1>3. ReportsSpec => [](TypeInv /\ NoOverpayment /\ EntriesKept /\ IsFiniteSet(Validated))
  BY ReportsKeepLedger, TypeInvariant, NeverOverpaid, BooksInvariant, ValidatedFinite, PTL
<1> QED BY <1>1, <1>2, <1>3, FiguresStep, PTL DEF ReportsSpec

-----------------------------------------------------------------------------
(***************************************************************************)
(* Readings made without the lock only lag.                                *)
(***************************************************************************)

\* What an invoice has paid only grows.
LEMMA PaidOnlyGrows ==
  ASSUME TypeInv, [Next]_vars, NEW i \in Invoices
  PROVE  Paid(i) \in Nat /\ Paid(i)' \in Nat /\ Paid(i) <= Paid(i)'
<1>1. Paid(i) \in Nat
  BY PaidType DEF TypeInv
<1>2. ASSUME NEW j \in Invoices, NEW k \in Keys, NEW p \in PaymentIds,
             NEW amount \in PaymentAmounts, NEW day \in Days, RecordPayment(j, k, p, amount, day)
      PROVE  Paid(i)' \in Nat /\ Paid(i) <= Paid(i)'
  <2>1. amount \in Nat
    BY LedgerAssumption
  <2>2. Paid(i)' = Paid(i) + amount \/ Paid(i)' = Paid(i)
    BY <1>2, PaidGrows DEF TypeInv
  <2> QED BY <1>1, <2>1, <2>2
<1>3. ASSUME UNCHANGED payments PROVE Paid(i)' = Paid(i)
  BY <1>3 DEF Paid, AmountsOf
<1>4. CASE UNCHANGED payments
  BY <1>1, <1>3, <1>4
<1>5. \/ UNCHANGED payments
      \/ \E j \in Invoices, k \in Keys, p \in PaymentIds, amount \in PaymentAmounts,
            day \in Days : RecordPayment(j, k, p, amount, day)
  BY EntriesSteps DEF ValidateInvoice
<1> QED BY <1>1, <1>2, <1>4, <1>5

\* The payments listed of an invoice are, at that moment, all it has paid.
LEMMA ListedIsPaid ==
  ASSUME TypeOK, NEW some, NEW i \in Invoices, i \in some
  PROVE  AmountOf({row \in PaymentsOf(some) : row[2].invoice = i}) = Paid(i)
<1>1. {row \in PaymentsOf(some) : row[2].invoice = i} = {<<p, payments[p]>> : p \in OwnRows(i)}
  BY DEF PaymentsOf, OwnRows
<1>2. OwnRows(i) \in SUBSET Recorded
  BY DEF OwnRows
<1> QED BY <1>1, <1>2, ListedAmounts, PaidByRows

\* Selected invoices have not paid more than their totals.
LEMMA SelectedIsCovered ==
  ASSUME TypeOK, NoOverpayment, NEW some \in SUBSET Invoices, IsFiniteSet(some)
  PROVE  PaidOf(some) <= TotalOf(some)
<1> DEFINE total == [i \in some |-> Total(i)]
           paid == [i \in some |-> Paid(i)]
<1>1. \A i \in some : total[i] \in Int /\ paid[i] \in Int /\ paid[i] <= total[i]
  BY PaidType, TotalType DEF NoOverpayment
<1>2. /\ TotalOf(some) = SumFunctionOnSet(total, some)
      /\ PaidOf(some) = SumFunctionOnSet(paid, some)
  BY DEF TotalOf, PaidOf, SumFunction
<1> HIDE DEF total, paid
<1> QED BY <1>1, <1>2, SumMonotone

\* What has been read is no more than what is there, at every step of a reading.
ListedOf(i) == AmountOf({row \in report.listed : row[2].invoice = i})
StatementLags ==
  /\ report.paid <= report.total
  /\ report.step \in {"payments", "shown"} =>
       /\ Cardinality(DOMAIN report.rows) = report.count
       /\ \A i \in DOMAIN report.rows :
            i \in Validated /\ report.rows[i].paid \in Int /\ report.rows[i].paid <= Paid(i)
  /\ report.step = "shown" =>
       \A i \in DOMAIN report.rows :
         ListedOf(i) \in Int /\ report.rows[i].paid <= ListedOf(i) /\ ListedOf(i) <= Paid(i)
DetailLags ==
  report.step = "shown" =>
    AmountOf(report.listed) \in Int /\ AmountOf(report.listed) <= Paid(report.invoice)
Lags ==
  /\ report.kind = "statement" => StatementLags
  /\ report.kind = "detail" => DetailLags

LEMMA LagsInit == ReportsInit => Lags
BY DEF ReportsInit, NoReport, Lags

LEMMA ServiceKeepsLags ==
  ASSUME TypeInv, RowsAreFinal, Lags, [Next]_vars, UNCHANGED report
  PROVE  Lags'
<1>1. ASSUME NEW i \in Validated
      PROVE  i \in Validated' /\ Paid(i) \in Nat /\ Paid(i)' \in Nat /\ Paid(i) <= Paid(i)'
  <2>1. i \in Invoices
    BY DEF Validated
  <2> QED BY <2>1, BooksGrow, PaidOnlyGrows
<1>2. \A i : ListedOf(i)' = ListedOf(i)
  BY DEF ListedOf, AmountOf
<1>3. CASE report.kind = "statement"
  <2>1. StatementLags
    BY <1>3 DEF Lags
  <2>2. ASSUME report.step \in {"payments", "shown"}, NEW i \in DOMAIN report.rows
        PROVE  i \in Validated' /\ report.rows[i].paid \in Int /\ report.rows[i].paid <= Paid(i)'
    <3>1. i \in Validated /\ report.rows[i].paid \in Int /\ report.rows[i].paid <= Paid(i)
      BY <2>1, <2>2 DEF StatementLags
    <3>2. Paid(i) \in Nat /\ Paid(i)' \in Nat /\ Paid(i) <= Paid(i)' /\ i \in Validated'
      BY <1>1, <3>1
    <3> QED BY <3>1, <3>2
  <2>3. ASSUME report.step = "shown", NEW i \in DOMAIN report.rows
        PROVE  /\ ListedOf(i) \in Int /\ report.rows[i].paid <= ListedOf(i)
               /\ ListedOf(i) <= Paid(i)'
    <3>1. i \in Validated /\ ListedOf(i) \in Int /\ report.rows[i].paid <= ListedOf(i)
          /\ ListedOf(i) <= Paid(i)
      BY <2>1, <2>3 DEF StatementLags
    <3>2. Paid(i) \in Nat /\ Paid(i)' \in Nat /\ Paid(i) <= Paid(i)'
      BY <1>1, <3>1
    <3> QED BY <3>1, <3>2
  <2> QED BY <1>2, <1>3, <2>1, <2>2, <2>3 DEF Lags, StatementLags
<1>4. CASE report.kind = "detail"
  <2>1. report.invoice \in Validated
    BY <1>4 DEF RowsAreFinal
  <2>2. report.step = "shown" =>
          AmountOf(report.listed) \in Int /\ AmountOf(report.listed) <= Paid(report.invoice)'
    BY <1>1, <1>4, <2>1 DEF Lags, DetailLags
  <2> QED BY <1>4, <2>2 DEF Lags, DetailLags, Paid, AmountsOf, AmountOf
<1> QED BY <1>3, <1>4 DEF Lags

LEMMA StatementStepLags ==
  ASSUME TypeOK, NoOverpayment, IsFiniteSet(Validated), Shapes, Lags,
         QuerySums \/ QueryCount \/ QueryRows \/ QueryListed
  PROVE  Lags'
<1>1. report.kind = "statement" /\ UNCHANGED vars /\ StatementLags
  BY DEF QuerySums, QueryCount, QueryRows, QueryListed, At, Lags
<1>2. Validated' = Validated /\ \A i : Paid(i)' = Paid(i)
  BY <1>1 DEF vars, Validated, Paid, AmountsOf
<1>3. CASE QuerySums
  <2> DEFINE some == Selected(report.customer, report.bounds)
  <2>1. some \in SUBSET Invoices /\ IsFiniteSet(some)
    <3>1. some \in SUBSET Validated
      BY DEF Selected
    <3> QED BY <3>1, FS_Subset DEF Validated
  <2>2. PaidOf(some) <= TotalOf(some)
    BY <2>1, SelectedIsCovered
  <2>3. /\ report'.kind = "statement" /\ report'.step = "count"
        /\ report'.total = TotalOf(some) /\ report'.paid = PaidOf(some)
    BY <1>1, <1>3 DEF QuerySums, Shapes
  <2> HIDE DEF some
  <2> QED BY <2>2, <2>3 DEF Lags, StatementLags
<1>4. CASE QueryCount
  <2>1. /\ report'.kind = "statement" /\ report'.step = "rows"
        /\ report'.total = report.total /\ report'.paid = report.paid
    BY <1>1, <1>4 DEF QueryCount, Shapes
  <2> QED BY <1>1, <2>1 DEF Lags, StatementLags
<1>5. CASE QueryRows
  <2>1. PICK page \in Pages(Selected(report.customer, report.bounds), report.count) :
          report' = [report EXCEPT !.step = "payments",
                                   !.rows = [i \in page |-> [total |-> Total(i), paid |-> Paid(i)]]]
    BY <1>5 DEF QueryRows
  <2>2. page \subseteq Validated /\ Cardinality(page) = report.count
    BY DEF Pages, Selected
  <2>3. /\ report'.kind = "statement" /\ report'.step = "payments"
        /\ report'.total = report.total /\ report'.paid = report.paid
        /\ report'.count = report.count
        /\ report'.rows = [i \in page |-> [total |-> Total(i), paid |-> Paid(i)]]
    BY <1>1, <2>1 DEF Shapes
  <2>4. DOMAIN report'.rows = page /\ \A i \in page : report'.rows[i].paid = Paid(i)
    BY <2>3
  <2>5. \A i \in page : i \in Invoices /\ Paid(i) \in Nat
    BY <2>2, PaidType DEF Validated
  <2>6. \A i \in page : i \in Validated' /\ report'.rows[i].paid \in Int
                        /\ report'.rows[i].paid <= Paid(i)'
    BY <1>2, <2>2, <2>4, <2>5
  <2> QED BY <1>1, <2>2, <2>3, <2>4, <2>6 DEF Lags, StatementLags
<1>6. CASE QueryListed
  <2>1. /\ report'.kind = "statement" /\ report'.step = "shown" /\ report.step = "payments"
        /\ report'.total = report.total /\ report'.paid = report.paid
        /\ report'.count = report.count /\ report'.rows = report.rows
        /\ report'.listed = PaymentsOf(DOMAIN report.rows)
    BY <1>1, <1>6 DEF QueryListed, At, Shapes
  <2>2. ASSUME NEW i \in DOMAIN report.rows
        PROVE  /\ i \in Validated /\ report.rows[i].paid \in Int /\ report.rows[i].paid <= Paid(i)
               /\ ListedOf(i)' = Paid(i) /\ Paid(i) \in Nat
    <3>1. i \in Validated /\ report.rows[i].paid \in Int /\ report.rows[i].paid <= Paid(i)
      BY <1>1, <2>1 DEF StatementLags
    <3>2. i \in Invoices
      BY <3>1 DEF Validated
    <3>3. ListedOf(i)' = AmountOf({row \in PaymentsOf(DOMAIN report.rows) : row[2].invoice = i})
      BY <2>1 DEF ListedOf, AmountOf
    <3> QED BY <3>1, <3>2, <3>3, ListedIsPaid, PaidType
  <2>3. \A i \in DOMAIN report.rows :
          /\ i \in Validated' /\ report.rows[i].paid \in Int /\ report.rows[i].paid <= Paid(i)'
          /\ ListedOf(i)' \in Int /\ report.rows[i].paid <= ListedOf(i)' /\ ListedOf(i)' <= Paid(i)'
    BY <1>2, <2>2
  <2>4. Cardinality(DOMAIN report.rows) = report.count
    BY <1>1, <2>1 DEF StatementLags
  <2> QED BY <1>1, <2>1, <2>3, <2>4 DEF Lags, StatementLags
<1> QED BY <1>3, <1>4, <1>5, <1>6

LEMMA DetailStepLags ==
  ASSUME TypeOK, Shapes, RowsAreFinal, QueryLines \/ QueryPayments
  PROVE  Lags'
<1>1. report.kind = "detail" /\ UNCHANGED vars /\ report.invoice \in Validated
  BY DEF QueryLines, QueryPayments, At, RowsAreFinal
<1>2. CASE QueryLines
  <2>1. report'.kind = "detail" /\ report'.step = "payments"
    BY <1>1, <1>2 DEF QueryLines, Shapes
  <2> QED BY <2>1 DEF Lags, DetailLags
<1>3. CASE QueryPayments
  <2>1. PICK i : i = report.invoice
    OBVIOUS
  <2>2. /\ report'.kind = "detail" /\ report'.step = "shown" /\ report'.invoice = i
        /\ report'.listed = PaymentsOf({i})
    BY <1>1, <1>3, <2>1 DEF QueryPayments, Shapes
  <2>3. i \in Invoices /\ PaymentsOf({i}) = {row \in PaymentsOf({i}) : row[2].invoice = i}
    BY <1>1, <2>1 DEF Validated, PaymentsOf
  <2>4. AmountOf({row \in PaymentsOf({i}) : row[2].invoice = i}) = Paid(i) /\ Paid(i) \in Nat
    BY <2>3, ListedIsPaid, PaidType
  <2>5. AmountOf(report'.listed) = Paid(i)
    BY <2>2, <2>3, <2>4
  <2>6. Paid(i)' = Paid(i)
    BY <1>1 DEF vars, Paid, AmountsOf
  <2>7. Paid(report.invoice)' = Paid(i)
    BY <2>2, <2>6 DEF Paid, AmountsOf
  <2>8. AmountOf(report.listed)' = Paid(i)
    BY <2>5 DEF AmountOf
  <2> QED BY <2>2, <2>4, <2>7, <2>8 DEF Lags, DetailLags
<1> QED BY <1>2, <1>3

LEMMA LagsStep ==
  /\ TypeInv /\ NoOverpayment /\ IsFiniteSet(Validated)
  /\ Shapes /\ RowsAreFinal /\ Lags /\ [ReportsNext]_reports
  => Lags'
<1> SUFFICES ASSUME TypeInv, NoOverpayment, IsFiniteSet(Validated), Shapes, RowsAreFinal, Lags,
                    [ReportsNext]_reports
             PROVE  Lags'
  OBVIOUS
<1>1. CASE UNCHANGED report
  BY <1>1, ReadersWriteNothing, ServiceKeepsLags
<1>2. CASE DashboardSteps \/ \E bounds : Dashboard(bounds)
  <2>1. ASSUME NEW bounds, Dashboard(bounds) PROVE report'.kind = "dashboard"
    BY <2>1 DEF Dashboard, Ask
  <2>2. ASSUME DashboardSteps PROVE report'.kind = "dashboard"
    BY <2>2 DEF DashboardSteps, QueryInvoiced, QueryReceived, QueryOutstanding, At, Shapes,
                DashboardFields
  <2> QED BY <1>2, <2>1, <2>2 DEF Lags
<1>3. ASSUME NEW bounds, Export(bounds) PROVE Lags'
  BY <1>3 DEF Export, Ask, Lags
<1>4. ASSUME NEW bounds, NEW customer, Statement(customer, bounds) PROVE Lags'
  BY <1>4 DEF Statement, Ask, Lags, StatementLags
<1>5. ASSUME NEW i, Detail(i) PROVE Lags'
  BY <1>5 DEF Detail, Ask, Lags, DetailLags
<1>6. ASSUME NEW q, TrialBalance(q) PROVE Lags'
  <2>1. report'.kind = "trial"
    BY <1>6, Zenon DEF TrialBalance, Ask
  <2> QED BY <2>1 DEF Lags
<1>7. CASE QueryExport
  <2>1. report'.kind \in {"export", "none"}
    BY <1>7 DEF QueryExport, At, Shapes, NoReport
  <2> QED BY <2>1 DEF Lags
<1>8. CASE QuerySums \/ QueryCount \/ QueryRows \/ QueryListed
  BY <1>8, StatementStepLags DEF TypeInv
<1>9. CASE QueryLines \/ QueryPayments
  BY <1>9, DetailStepLags DEF TypeInv
<1> QED BY <1>1, <1>2, <1>3, <1>4, <1>5, <1>6, <1>7, <1>8, <1>9, ReaderSteps DEF OtherSteps

\* Whatever is committed between the queries of a statement or of an invoice shown alone,
\* and after them, what they say lags behind the books and never contradicts them.
THEOREM ReadingsAlwaysLag == ReportsSpec => []ReadingsOnlyLag
<1>1. ASSUME TypeInv, FrozenConfiguration, AuthoritativeAmounts, RowsAreFinal, Lags
      PROVE  ReadingsOnlyLag
  <2>1. ASSUME Shown("statement")
        PROVE  /\ report.paid <= report.total
               /\ Cardinality(DOMAIN report.rows) = report.count
               /\ \A i \in DOMAIN report.rows :
                    LET under == AmountOf({row \in report.listed : row[2].invoice = i})
                    IN report.rows[i].paid <= under /\ under <= Paid(i)
    BY <1>1, <2>1 DEF Shown, Lags, StatementLags, ListedOf
  <2>2. ASSUME Shown("detail")
        PROVE  /\ report.net = Net(report.lines, company.precision)
               /\ report.tax = Tax(report.lines, company.precision)
               /\ Balance(report.invoice) <= ShownBalance
    <3>0. PICK i : i = report.invoice
      OBVIOUS
    <3>1. /\ i \in Validated /\ report.net = invoices[i].net /\ report.tax = invoices[i].tax
          /\ report.lines = invoices[i].lines
      BY <1>1, <2>2, <3>0 DEF RowsAreFinal, Shown
    <3>2. invoices[i].precision = company.precision
      BY <1>1, <3>1 DEF FrozenConfiguration
    <3>3. /\ invoices[i].net = Net(invoices[i].lines, invoices[i].precision)
          /\ invoices[i].tax = Tax(invoices[i].lines, invoices[i].precision)
      BY <1>1, <3>1 DEF AuthoritativeAmounts
    <3>4. i \in Invoices /\ Total(i) \in Nat /\ Paid(i) \in Nat
      BY <1>1, <3>1, TotalType, PaidType DEF Validated, TypeInv
    <3>5. AmountOf(report.listed) \in Int /\ AmountOf(report.listed) <= Paid(i)
      BY <1>1, <2>2, <3>0 DEF Lags, DetailLags, Shown
    <3>6. ShownBalance = Total(i) - AmountOf(report.listed) /\ Balance(i) = Total(i) - Paid(i)
      <4>1. report.net + report.tax = Total(i)
        BY <3>1 DEF Total
      <4>2. report.net \in Int /\ report.tax \in Int
        BY <1>1, <3>1, <3>4, MoneyAssumption DEF TypeInv, TypeOK, InvoiceRow, Amounts
      <4> QED BY <3>5, <4>1, <4>2 DEF ShownBalance, Balance
    <3>7. Balance(i) <= ShownBalance
      BY <3>4, <3>5, <3>6
    <3> QED BY <3>0, <3>1, <3>2, <3>3, <3>7
  <2> QED BY <1>1, <2>1, <2>2 DEF ReadingsOnlyLag
<1>2. ReportsSpec => []Shapes
  BY ShapesInit, ShapesStep, PTL DEF ReportsSpec
<1>3. ReportsSpec => [](TypeInv /\ NoOverpayment /\ IsFiniteSet(Validated) /\ FrozenConfiguration
                        /\ AuthoritativeAmounts)
  BY ReportsKeepLedger, TypeInvariant, NeverOverpaid, ValidatedFinite, ConfigurationIsFrozen,
     AmountsAreAuthoritative, PTL
<1>4. ReportsSpec => [](RowsAreFinal /\ Lags)
  BY <1>2, <1>3, LagsInit, LagsStep, ReportsStayTrue, PTL DEF ReportsSpec
<1> QED BY <1>1, <1>3, <1>4, PTL
=============================================================================
