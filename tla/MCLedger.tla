------------------------------ MODULE MCLedger ------------------------------
(***************************************************************************)
(* Small companies for TLC.                                                *)
(***************************************************************************)
EXTENDS Ledger

\* A precision of 0 rounds to tens, one of 1 keeps every tick.  The first list has two
\* amounts and a tax that round half up, the second two lines whose rounded sum differs
\* from the rounding of their sum, the third is worth nothing at precision 0, and the last
\* exceeds MaxAmount although neither of its lines does.
MCLineLists ==
  { <<[exact |-> 14, rate |-> 50]>>,
    <<[exact |-> 5, rate |-> 0], [exact |-> 5, rate |-> 20]>>,
    <<[exact |-> 4, rate |-> 0]>>,
    <<[exact |-> 14, rate |-> 50], [exact |-> 14, rate |-> 50]>> }

Symmetry ==
  Permutations(Invoices) \cup Permutations(Keys) \cup Permutations(PeriodIds)
=============================================================================
