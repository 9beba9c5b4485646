------------------------------- MODULE Cents -------------------------------
(***************************************************************************)
(* Sums of money.  Every SUM(...) the services send to the database adds   *)
(* non-negative integer cents over the rows of a table.  A sum is defined  *)
(* here by counting the cents themselves: the cents of f over S are the    *)
(* pairs <<x, k>> with k one of the f[x] cents of row x, and the total is  *)
(* how many there are.  The definition has no recursion: the proofs reason *)
(* about it with the theorems on finite sets.                              *)
(***************************************************************************)
EXTENDS Integers, FiniteSets

\* The individual cents held by the rows S of f.
CentsOf(f, S) == UNION { {x} \X (1..f[x]) : x \in S }

\* SELECT COALESCE(SUM(f), 0) over the rows S.
Total(f, S) == Cardinality(CentsOf(f, S))
=============================================================================
