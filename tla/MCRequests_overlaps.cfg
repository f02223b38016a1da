\* Two tabs, two threads, one invoice: overlapping, repeated and cut calls, and their ends.
\* No symmetry: it is not sound for liveness.
SPECIFICATION FairSpec
CONSTANTS
  Tabs = {tab1, tab2}
  Threads = {t1, t2}
  Invoices = {i1}
  Amounts = {1, 2}
  Total <- MCTotal
  Nobody = Nobody
  MaxIntents = 3
  MaxTroubles = 1
INVARIANTS
  OneEffectPerKey
  PatientUsersPayOnce
  ReadingsStayTrue
PROPERTIES
  AnswersAreTrue
  KeepsPromise
  ThreadsComeBack
  RepeatingSettles
