\* One call at a time, two plans, the portal changes the plan of what is synchronised.
\* No symmetry: it is not sound for liveness.
SPECIFICATION FairSpec
CONSTANTS
  monthly = monthly
  yearly = yearly
  Callers = {c1}
  Keys = {k1}
  Plans = {monthly, yearly}
  TrialDays <- MCTrialDays
  SessionTime = 1
  PeriodTime = 2
  EarlySwitch = FALSE
  MaxAttempts = 1
  MaxWaiting = 1
  MaxChanges = 3
  MaxNow = 2
INVARIANT AccessIsBacked
PROPERTY PaidIsHonoured
