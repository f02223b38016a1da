----------------------------- MODULE MCRequests -----------------------------
(***************************************************************************)
(* Small offices for TLC: the total of every invoice is two, or five.      *)
(***************************************************************************)
EXTENDS Requests

MCTotal(i) == 2
MCLargeTotal(i) == 5
=============================================================================
