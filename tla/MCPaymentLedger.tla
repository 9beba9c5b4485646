--------------------------- MODULE MCPaymentLedger ---------------------------
(***************************************************************************)
(* Instances of PaymentLedger for TLC.                                     *)
(***************************************************************************)
EXTENDS PaymentLedger, TLC

Row(amount, due) == [amount |-> amount, due |-> due, stamped |-> FALSE]

\* One installment of every amount up to 3 cents, and a deposit plus a
\* balance, the second of which may be entered first (sort order against
\* due order).
SinglePlans == { <<Row(n, 1)>> : n \in 1..3 }
SplitPlans  == { <<Row(1, 2), Row(2, 1)>>, <<Row(1, 1), Row(1, 2)>> }
AnyPlans    == SinglePlans \cup SplitPlans

Symmetric == Permutations(Payments) \cup Permutations(Invoices)
=============================================================================
