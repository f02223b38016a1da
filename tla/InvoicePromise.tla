--------------------------- MODULE InvoicePromise ---------------------------
(***************************************************************************)
(* What the financial core promises to whoever receives its invoices,      *)
(* without drafts, periods, entries or idempotency keys: an invoice is     *)
(* issued once, with the next number of its year and a total that stays,   *)
(* and is then paid bit by bit, never beyond its total.                    *)
(***************************************************************************)
EXTENDS Integers

CONSTANTS Invoices, Years

VARIABLES
  bill,  \* what is known of each invoice; number 0 until it is issued
  next   \* the next number of each year

vars == <<bill, next>>

Unissued == [number |-> 0, year |-> 0, total |-> 0, paid |-> 0]

Init ==
  /\ bill = [i \in Invoices |-> Unissued]
  /\ next = [year \in Years |-> 1]

Same(i) == bill'[i] = bill[i]

Issue(i, year) ==
  /\ bill[i] = Unissued
  /\ bill'[i] = [number |-> next[year], year |-> year, total |-> bill'[i].total, paid |-> 0]
  /\ bill'[i].total > 0
  /\ next' = [next EXCEPT ![year] = @ + 1]
  /\ \A j \in Invoices \ {i} : Same(j)

Pay(i) ==
  /\ bill[i].number > 0
  /\ bill'[i] = [bill[i] EXCEPT !.paid = bill'[i].paid]
  /\ bill[i].paid < bill'[i].paid
  /\ bill'[i].paid <= bill[i].total
  /\ UNCHANGED next
  /\ \A j \in Invoices \ {i} : Same(j)

Next == \E i \in Invoices : Pay(i) \/ \E year \in Years : Issue(i, year)

Spec == Init /\ [][Next]_vars
=============================================================================
