\* A tab whose user leaves a busy page and comes back to the same invoice.
SPECIFICATION Spec
CONSTANTS
  Tabs = {tab1}
  Threads = {t1, t2}
  Invoices = {i1}
  Amounts = {1, 2}
  Total <- MCLargeTotal
  Nobody = Nobody
  MaxIntents = 3
  MaxTroubles = 2
INVARIANT RepetitionsPayOnce
