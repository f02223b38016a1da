--------------------------- MODULE MCSubscription ---------------------------
(***************************************************************************)
(* A small catalogue for TLC: a plan with a trial and one without.         *)
(***************************************************************************)
EXTENDS Subscription, TLC

CONSTANTS monthly, yearly

MCTrialDays(p) == IF p = monthly THEN 1 ELSE 0
Symmetry == Permutations(Callers) \cup Permutations(Keys)
=============================================================================
