\* Two calls to checkout at a time, two attempts, one plan with a trial.
SPECIFICATION Spec
CONSTANTS
  monthly = monthly
  yearly = yearly
  Callers = {c1, c2}
  Keys = {k1, k2}
  Plans = {monthly}
  TrialDays <- MCTrialDays
  SessionTime = 1
  PeriodTime = 2
  EarlySwitch = TRUE
  MaxAttempts = 2
  MaxWaiting = 1
  MaxChanges = 3
  MaxNow = 1
SYMMETRY Symmetry
INVARIANTS
  OneLiveSubscription
  AnsweredMeansApplied
PROPERTIES
  TrialsAreRemembered
  NewestStays
