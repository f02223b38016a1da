----------------------------- MODULE MCBanking -----------------------------
(***************************************************************************)
(* A small company with two bank accounts for TLC.                         *)
(***************************************************************************)
EXTENDS Banking

\* Two files that overlap, and one that contradicts both, with a debit.
Row(external, day, amount) == [external |-> external, date |-> day, amount |-> amount]
MCFiles ==
  { {Row("x", 1, 1)},
    {Row("x", 1, 1), Row("y", 2, 1)},
    {Row("x", 2, -1)} }

MCLists == { <<[exact |-> 2, rate |-> 0]>> }

Symmetry ==
  Permutations(Invoices) \cup Permutations(UserKeys) \cup Permutations(BankIds)
    \cup Permutations(BankAccounts) \cup Permutations(Currencies)
=============================================================================
