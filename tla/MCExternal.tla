----------------------------- MODULE MCExternal -----------------------------
(***************************************************************************)
(* A few users, keys and requests for TLC.                                 *)
(***************************************************************************)
EXTENDS External, TLC

\* A customer before and after an edit, one transaction in two spellings, and another one
\* with its identifier.
Customer(meaning) ==
  [scope |-> "customers:write", external |-> Nobody, meaning |-> meaning, spelling |-> 1]
Transaction(meaning, spelling) ==
  [scope |-> "transactions:write", external |-> "x", meaning |-> meaning, spelling |-> spelling]
MCContents ==
  {Customer("c"), Customer("d"), Transaction("m", 1), Transaction("m", 2), Transaction("n", 1)}

MCScopes == {"customers:write", "transactions:write"}
MCGrants == {MCScopes, {"transactions:write"}}

Symmetry ==
  Permutations(Users) \cup Permutations(Integrations) \cup Permutations(KeyIds)
    \cup Permutations(RowIds) \cup Permutations(Idems) \cup Permutations(Threads)
=============================================================================
