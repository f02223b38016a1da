------------------------------ MODULE MCGuards ------------------------------
(* Transactions of any statements over one invoice and its payments. *)
EXTENDS Guards
=============================================================================
