\* Two years, two periods and two invoices: numbering, periods, closing, and what is read
\* in the meantime.
SPECIFICATION ReportsSpec
CONSTANTS
  MaxPrecision = 0
  Grain = 1
  MaxAmount = 20
  MaxLines = 2
  Invoices = {i1, i2}
  Keys = {k1, k2, k3}
  PeriodIds = {q1, q2}
  References = {c1}
  LineLists <- MCOneList
  LastDay = 2
  DaysPerYear = 1
  Currencies = {EUR}
  PaymentAmounts = {5}
  MaxPayments = 2
  Nobody = Nobody
  Bounds <- MCBounds
  Unbounded = Unbounded
  ExportLimit = 1
SYMMETRY Symmetry
INVARIANTS
  GapFreeNumbers
  PeriodsTellTime
  FiguresAddUp
  ReadingsOnlyLag
PROPERTIES
  ClosedBooksStable
