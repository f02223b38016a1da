\* Two accounts, overlapping and contradicting files, one invoice and its payments.
SPECIFICATION BankSpec
CONSTANTS
  MaxPrecision = 0
  Grain = 1
  MaxAmount = 2
  MaxLines = 1
  Invoices = {i1}
  Keys = {k1, k2, b1, b2}
  BankIds = {b1, b2}
  BankAccounts = {a1, a2}
  Files <- MCFiles
  PeriodIds = {q1}
  References = {}
  LineLists <- MCLists
  LastDay = 2
  DaysPerYear = 2
  Currencies = {EUR, USD}
  PaymentAmounts = {1}
  MaxPayments = 2
  Nobody = Nobody
SYMMETRY Symmetry
INVARIANTS
  ImportsAreStored
  ReconciledOnce
  OneCurrency
PROPERTIES
  GuardsStaySilent
  KeepsLedger
