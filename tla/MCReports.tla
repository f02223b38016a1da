----------------------------- MODULE MCReports -----------------------------
(***************************************************************************)
(* A small company for TLC, and its reader.                                *)
(***************************************************************************)
EXTENDS Reports

MCOneList == { <<[exact |-> 10, rate |-> 0]>> }
MCBounds == { [start |-> 1, end |-> 1] }

Symmetry ==
  Permutations(Invoices) \cup Permutations(Keys) \cup Permutations(PeriodIds)
=============================================================================
