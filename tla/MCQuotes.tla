------------------------------- MODULE MCQuotes -------------------------------
(***************************************************************************)
(* Instances of Quotes for TLC.                                            *)
(***************************************************************************)
EXTENDS Quotes, TLC

Symmetric == Permutations(Invoices) \cup Permutations(Keys)
=============================================================================
