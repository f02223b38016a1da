\* Two invoices, both precisions, two payments: rounding, recalculation, keys, balances.
SPECIFICATION Spec
CONSTANTS
  MaxPrecision = 1
  Grain = 1
  MaxAmount = 25
  MaxLines = 2
  Invoices = {i1, i2}
  Keys = {k1, k2, k3, k4}
  PeriodIds = {q1}
  References = {r1}
  LineLists <- MCLineLists
  LastDay = 1
  DaysPerYear = 1
  Currencies = {EUR, USD}
  PaymentAmounts = {1, 10}
  MaxPayments = 3
  Nobody = Nobody
SYMMETRY Symmetry
INVARIANTS
  TypeOK
  SubledgerAgrees
  NoOverpayment
  FrozenConfiguration
  AuthoritativeAmounts
  KeysWitnessEffects
PROPERTIES
  KeepsPromise
