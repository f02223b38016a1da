\* Two attempts with a plan that has a trial.
SPECIFICATION Spec
CONSTANTS
  monthly = monthly
  yearly = yearly
  Callers = {c1}
  Keys = {k1, k2}
  Plans = {monthly}
  TrialDays <- MCTrialDays
  SessionTime = 1
  PeriodTime = 2
  EarlySwitch = TRUE
  MaxAttempts = 2
  MaxWaiting = 1
  MaxChanges = 2
  MaxNow = 2
SYMMETRY Symmetry
INVARIANT TrialOnce
