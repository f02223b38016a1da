------------------------------ MODULE MCDesk ------------------------------
(* Catalogues of one category, product and customer, and two keys for prices. *)
EXTENDS Desk, TLC

CONSTANTS g1, p1, c1, r1, r2, a, b

MCCategories == {g1}
MCProducts == {p1}
MCCustomers == {c1}
MCPrices == {r1, r2}
MCCodes == {a, b}

InUse(fields) == fields @@ [archived |-> FALSE]
\* A company that has a row of each table, and one that begins.
MCCatalogues ==
  {(g1 :> InUse([code |-> a])) @@ (p1 :> InUse([code |-> a, links |-> {}]))
     @@ (c1 :> InUse([code |-> Blank]))
     @@ (r1 :> InUse([customer |-> c1, product |-> p1])) @@ (r2 :> Absent),
   [id \in Ids |-> Absent]}
=============================================================================
