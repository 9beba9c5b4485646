------------------------ MODULE PaymentLedgerProofs ------------------------
(***************************************************************************)
(* What the atomic ledger keeps, for any number of payments and invoices,  *)
(* any amounts and any schedules.                                          *)
(*                                                                         *)
(* None of the money invariants is inductive alone: that a recompute keeps *)
(* paid_to_date at the sum of the allocations needs the sums to be natural *)
(* numbers (refunded never above applied), that a payment's pool stays     *)
(* non-negative needs the four-way split and the lockstep, and that a      *)
(* recomputed invoice is not a draft needs lockstep and status together.   *)
(* That a new payment starts from nothing needs PaymentStatusDerived.      *)
(* IInv is their conjunction, and each action preserves it row by row.     *)
(*                                                                         *)
(* The last parts are about LedgerSessions, where the calls overlap: there *)
(* most of IInv is lost, and SessionsInv keeps what survives every race.   *)
(* While payments are only recorded nothing is lost, and the calls, cut    *)
(* into statements, implement the ledger they were cut from.               *)
(***************************************************************************)
EXTENDS MCLedgerSessions, FiniteSetTheorems, FunctionTheorems, TLAPS

-----------------------------------------------------------------------------
(***************************************************************************)
(* What a sum of cents over a finite set of rows does when rows change.    *)
(* Each lemma is argued on the cents themselves, so none needs induction.  *)
(***************************************************************************)

\* f gives every row of S a natural number of cents.
CentsFn(f, S) == \A x \in S : f[x] \in Nat

-----------------------------------------------------------------------------
\* The cents of one row: there are f[x] of them.
LEMMA RowCents ==
    ASSUME NEW x, NEW n \in Nat
    PROVE  /\ IsFiniteSet({x} \X (1..n))
           /\ Cardinality({x} \X (1..n)) = n
<1>1. IsFiniteSet({x}) /\ Cardinality({x}) = 1
  BY FS_Singleton
<1>2. IsFiniteSet(1..n) /\ Cardinality(1..n) = n
  BY FS_Interval
<1>3. /\ IsFiniteSet({x} \X (1..n))
      /\ Cardinality({x} \X (1..n)) = Cardinality({x}) * Cardinality(1..n)
  BY <1>1, <1>2, FS_Product
<1>4. 1 * n = n
  OBVIOUS
<1> QED BY <1>1, <1>2, <1>3, <1>4

\* A sum over finitely many rows is a natural number.
LEMMA TotalType ==
    ASSUME NEW S, IsFiniteSet(S), NEW f, CentsFn(f, S)
    PROVE  IsFiniteSet(CentsOf(f, S)) /\ Total(f, S) \in Nat
<1> DEFINE Rows == { {x} \X (1..f[x]) : x \in S }
           row  == [x \in S |-> {x} \X (1..f[x])]
<1>1. row \in Surjection(S, Rows)
  BY Fun_IsSurj
<1>2. IsFiniteSet(Rows)
  BY <1>1, FS_Surjection
<1>3. ASSUME NEW R \in Rows PROVE IsFiniteSet(R)
  <2>1. PICK x \in S : R = {x} \X (1..f[x])
    OBVIOUS
  <2>2. f[x] \in Nat
    BY DEF CentsFn
  <2> QED BY <2>1, <2>2, RowCents
<1>4. IsFiniteSet(UNION Rows)
  <2> HIDE DEF Rows
  <2> QED BY <1>2, <1>3, FS_UNION
<1> QED BY <1>4, FS_CardinalityType DEF CentsOf, Total

\* Only the rows of S matter.
LEMMA TotalSame ==
    ASSUME NEW S, NEW f, NEW g, \A x \in S : f[x] = g[x]
    PROVE  Total(f, S) = Total(g, S)
<1>1. CentsOf(f, S) = CentsOf(g, S)
  BY DEF CentsOf
<1> QED BY <1>1 DEF Total

\* Rows without a cent add up to zero.
LEMMA TotalZero ==
    ASSUME NEW S, NEW f, \A x \in S : f[x] = 0
    PROVE  Total(f, S) = 0
<1>1. \A x \in S : 1..f[x] = {}
  OBVIOUS
<1>2. CentsOf(f, S) = {}
  BY <1>1 DEF CentsOf
<1> QED BY <1>2, FS_EmptySet DEF Total

\* One row can be taken out of the sum.
LEMMA TotalSplit ==
    ASSUME NEW S, IsFiniteSet(S), NEW f, CentsFn(f, S), NEW x \in S
    PROVE  Total(f, S) = f[x] + Total(f, S \ {x})
<1> DEFINE A == {x} \X (1..f[x])
           B == CentsOf(f, S \ {x})
<1>1. IsFiniteSet(A) /\ Cardinality(A) = f[x]
  BY RowCents DEF CentsFn
<1>2. IsFiniteSet(S \ {x}) /\ CentsFn(f, S \ {x})
  BY FS_RemoveElement DEF CentsFn
<1>3. IsFiniteSet(B) /\ Cardinality(B) \in Nat
  BY <1>2, TotalType DEF Total
<1>4. CentsOf(f, S) = A \cup B
  BY DEF CentsOf
<1>5. A \cap B = {}
  BY DEF CentsOf
<1>6. Cardinality(A \cup B) = Cardinality(A) + Cardinality(B) - Cardinality(A \cap B)
  <2> HIDE DEF A, B
  <2> QED BY <1>1, <1>3, FS_Union
<1>7. Cardinality(A \cap B) = 0
  BY <1>5, FS_EmptySet
<1>8. f[x] \in Nat
  BY DEF CentsFn
<1> HIDE DEF A, B
<1>9. Total(f, S) = Cardinality(A) + Cardinality(B)
  BY <1>1, <1>3, <1>4, <1>6, <1>7, <1>8 DEF Total
<1> QED BY <1>1, <1>9 DEF Total, B

\* No row holds more than the sum.
LEMMA TotalMember ==
    ASSUME NEW S, IsFiniteSet(S), NEW f, CentsFn(f, S), NEW x \in S
    PROVE  f[x] <= Total(f, S)
<1>1. IsFiniteSet(S \ {x}) /\ CentsFn(f, S \ {x})
  BY FS_RemoveElement DEF CentsFn
<1>2. Total(f, S \ {x}) \in Nat /\ f[x] \in Nat
  BY <1>1, TotalType DEF CentsFn
<1> QED BY <1>2, TotalSplit

\* Changing one row changes the sum by as much.
LEMMA TotalUpdate ==
    ASSUME NEW S, IsFiniteSet(S), NEW f, NEW g, NEW x \in S,
           CentsFn(f, S), CentsFn(g, S), \A y \in S \ {x} : g[y] = f[y]
    PROVE  Total(g, S) = Total(f, S) - f[x] + g[x]
<1>1. IsFiniteSet(S \ {x}) /\ CentsFn(f, S \ {x})
  BY FS_RemoveElement DEF CentsFn
<1>2. Total(g, S \ {x}) = Total(f, S \ {x}) /\ Total(f, S \ {x}) \in Nat
  BY <1>1, TotalSame, TotalType
<1>3. f[x] \in Nat /\ g[x] \in Nat
  BY DEF CentsFn
<1> QED BY <1>2, <1>3, TotalSplit

\* Sums add up row by row.
LEMMA TotalPlus ==
    ASSUME NEW S, IsFiniteSet(S), NEW f, NEW g, NEW h,
           CentsFn(f, S), CentsFn(g, S), \A x \in S : h[x] = f[x] + g[x]
    PROVE  Total(h, S) = Total(f, S) + Total(g, S)
<1> DEFINE F == CentsOf(f, S)
           G == CentsOf(g, S)
           M == { c \in CentsOf(h, S) : c[2] > f[c[1]] }
           shift == [c \in G |-> <<c[1], c[2] + f[c[1]]>>]
<1>1. \A x \in S : f[x] \in Nat /\ g[x] \in Nat /\ h[x] \in Nat
  BY DEF CentsFn
<1>2. \A c : c \in F <=> \E x \in S : \E k \in 1..f[x] : c = <<x, k>>
  BY DEF CentsOf
<1>3. \A c : c \in G <=> \E x \in S : \E k \in 1..g[x] : c = <<x, k>>
  BY DEF CentsOf
<1>4. \A c : c \in CentsOf(h, S) <=> \E x \in S : \E k \in 1..h[x] : c = <<x, k>>
  BY DEF CentsOf
<1>5. IsFiniteSet(F) /\ IsFiniteSet(G) /\ Cardinality(F) \in Nat /\ Cardinality(G) \in Nat
  BY TotalType DEF Total
<1>6. shift \in Bijection(G, M)
  <2>1. shift \in [G -> M]
    <3> SUFFICES ASSUME NEW c \in G PROVE <<c[1], c[2] + f[c[1]]>> \in M
      OBVIOUS
    <3>1. PICK x \in S : \E k \in 1..g[x] : c = <<x, k>>
      BY <1>3
    <3>k1. PICK k \in 1..g[x] : c = <<x, k>>
      BY <3>1
    <3>2. k + f[x] \in 1..h[x] /\ k + f[x] > f[x]
      BY <1>1
    <3>3. <<x, k + f[x]>> \in CentsOf(h, S)
      BY <1>4, <3>2
    <3> QED BY <3>k1, <3>2, <3>3
  <2>2. ASSUME NEW a \in G, NEW b \in G, shift[a] = shift[b] PROVE a = b
    <3>1. PICK x \in S : \E k \in 1..g[x] : a = <<x, k>>
      BY <1>3
    <3>k1. PICK k \in 1..g[x] : a = <<x, k>>
      BY <3>1
    <3>2. PICK y \in S : \E l \in 1..g[y] : b = <<y, l>>
      BY <1>3
    <3>k2. PICK l \in 1..g[y] : b = <<y, l>>
      BY <3>2
    <3>3. x = y /\ k + f[x] = l + f[y]
      BY <2>2, <3>k1, <3>k2
    <3>4. k \in Int /\ l \in Int /\ f[x] \in Int
      BY <1>1
    <3>5. k = l
      BY <3>3, <3>4
    <3> QED BY <3>k1, <3>k2, <3>3, <3>5
  <2>3. ASSUME NEW c \in M PROVE \E a \in G : shift[a] = c
    <3>1. PICK x \in S : \E k \in 1..h[x] : c = <<x, k>>
      BY <1>4
    <3>k1. PICK k \in 1..h[x] : c = <<x, k>>
      BY <3>1
    <3>2. k - f[x] \in 1..g[x]
      BY <1>1, <3>k1
    <3>3. <<x, k - f[x]>> \in G
      BY <1>3, <3>2
    <3>4. shift[<<x, k - f[x]>>] = <<x, (k - f[x]) + f[x]>>
      BY <3>3
    <3>5. (k - f[x]) + f[x] = k
      BY <1>1
    <3> QED BY <3>k1, <3>3, <3>4, <3>5
  <2> HIDE DEF shift, G, M
  <2> QED BY <2>1, <2>2, <2>3, Fun_IsBij
<1>7. IsFiniteSet(M) /\ Cardinality(M) = Cardinality(G)
  <2> HIDE DEF shift, G, M
  <2> QED BY <1>5, <1>6, FS_Bijection DEF ExistsBijection
<1>8. CentsOf(h, S) = F \cup M
  <2>1. ASSUME NEW c \in CentsOf(h, S) PROVE c \in F \cup M
    <3>1. PICK x \in S : \E k \in 1..h[x] : c = <<x, k>>
      BY <1>4
    <3>k1. PICK k \in 1..h[x] : c = <<x, k>>
      BY <3>1
    <3>2. CASE k > f[x]
      BY <3>k1, <3>2
    <3>3. CASE k <= f[x]
      <4>1. k \in 1..f[x]
        BY <1>1, <3>3
      <4> QED BY <1>2, <3>k1, <4>1
    <3> QED BY <1>1, <3>2, <3>3
  <2>2. ASSUME NEW c \in F PROVE c \in CentsOf(h, S)
    <3>1. PICK x \in S : \E k \in 1..f[x] : c = <<x, k>>
      BY <1>2
    <3>k1. PICK k \in 1..f[x] : c = <<x, k>>
      BY <3>1
    <3>2. k \in 1..h[x]
      BY <1>1
    <3> QED BY <1>4, <3>k1, <3>2
  <2> QED BY <2>1, <2>2
<1>9. F \cap M = {}
  BY <1>1, <1>2
<1>10. Cardinality(F \cup M) = Cardinality(F) + Cardinality(M)
  <2> HIDE DEF F, M
  <2>1. Cardinality(F \cap M) = 0
    BY <1>9, FS_EmptySet
  <2>2. Cardinality(F \cup M) = Cardinality(F) + Cardinality(M) - Cardinality(F \cap M)
    BY <1>5, <1>7, FS_Union
  <2> QED BY <1>5, <1>7, <2>1, <2>2
<1> QED BY <1>7, <1>8, <1>10 DEF Total

-----------------------------------------------------------------------------
(***************************************************************************)
(* The inductive invariant of the ledger.                                  *)
(***************************************************************************)

\* A payment not yet recorded is empty; the status of a recorded one is the
\* one its refunds derive (_recompute_payment_totals).
PaymentStatusDerived ==
    \A p \in Payments :
        IF payment[p].status = "none"
        THEN payment[p].amount = 0
        ELSE payment[p].status = RefundStatus(payment[p].amount, payment[p].refunded)

IInv == /\ TypeOK
        /\ FourWaySplit
        /\ PaymentLockstep
        /\ InvoiceLockstep
        /\ RefundHistory
        /\ StatusMatchesMoney
        /\ PaymentStatusDerived

\* Allocations of the right type, none refunded beyond what was applied.
AllocOK(a) ==
    /\ a \in [Payments -> [Invoices -> AllocationRow]]
    /\ \A p \in Payments, i \in Invoices : a[p][i].refunded <= a[p][i].applied

\* What IInv says of one invoice with `money` allocated to it.
InvoiceOK(row, money) ==
    /\ row \in InvoiceRow
    /\ row.paid = money
    /\ row.paid <= row.total
    /\ row.status = "paid" => row.paid = row.total /\ row.total > 0
    /\ row.status = "partial" => row.paid > 0
    /\ row.status \in {"none", "draft", "sent"} => row.paid = 0

\* What IInv says of one payment, with `money` live in its allocations.
PaymentOK(row, money) ==
    /\ row \in PaymentRow
    /\ row.applied = money
    /\ row.amount = row.applied + row.refunded + row.unapplied
    /\ IF row.status = "none"
       THEN row.amount = 0
       ELSE row.status = RefundStatus(row.amount, row.refunded)

\* What IInv says of the refund history of one payment and its allocations.
RefundOK(row, log, a) ==
    /\ log \in RefundRow
    /\ row.refunded = log.pool + Total(log.slices, Invoices)
    /\ \A i \in Invoices : log.slices[i] = a[i].refunded

-----------------------------------------------------------------------------
\* IInv, row by row.
LEMMA RowByRow ==
    IInv <=> /\ AllocOK(alloc)
             /\ DOMAIN invoice = Invoices /\ invoice = [i \in Invoices |-> invoice[i]]
             /\ payment = [p \in Payments |-> payment[p]]
             /\ refundLog = [p \in Payments |-> refundLog[p]]
             /\ \A i \in Invoices : InvoiceOK(invoice[i], NetOfInvoice(alloc, i))
             /\ \A p \in Payments : PaymentOK(payment[p], NetOfPayment(alloc, p))
             /\ \A p \in Payments : RefundOK(payment[p], refundLog[p], alloc[p])
<1> USE DEF AllocOK, InvoiceOK, PaymentOK, RefundOK
<1>1. IInv => /\ AllocOK(alloc)
              /\ invoice = [i \in Invoices |-> invoice[i]]
              /\ payment = [p \in Payments |-> payment[p]]
              /\ refundLog = [p \in Payments |-> refundLog[p]]
  BY DEF IInv, TypeOK, FourWaySplit
<1> QED
  BY <1>1 DEF IInv, TypeOK, FourWaySplit, PaymentLockstep, InvoiceLockstep,
              RefundHistory, StatusMatchesMoney, PaymentStatusDerived

\* Live sums are natural numbers and at least as big as each of their terms.
LEMMA NetTypes ==
    ASSUME NEW a, AllocOK(a), NEW p \in Payments, NEW i \in Invoices
    PROVE  /\ Net(a[p][i]) \in Nat
           /\ NetOfPayment(a, p) \in Nat /\ Net(a[p][i]) <= NetOfPayment(a, p)
           /\ NetOfInvoice(a, i) \in Nat /\ Net(a[p][i]) <= NetOfInvoice(a, i)
<1> DEFINE ofP == [j \in Invoices |-> Net(a[p][j])]
           ofI == [q \in Payments |-> Net(a[q][i])]
<1>1. \A q \in Payments, j \in Invoices : Net(a[q][j]) \in Nat
  BY DEF AllocOK, AllocationRow, Net
<1>2. CentsFn(ofP, Invoices) /\ CentsFn(ofI, Payments)
  BY <1>1 DEF CentsFn
<1>3. ofP[i] = Net(a[p][i]) /\ ofI[p] = Net(a[p][i])
  OBVIOUS
<1>4. NetOfPayment(a, p) = Total(ofP, Invoices) /\ NetOfInvoice(a, i) = Total(ofI, Payments)
  BY DEF NetOfPayment, NetOfInvoice
<1> HIDE DEF ofP, ofI
<1>5. Total(ofP, Invoices) \in Nat /\ ofP[i] <= Total(ofP, Invoices)
  BY <1>2, LedgerAssumption, TotalType, TotalMember
<1>6. Total(ofI, Payments) \in Nat /\ ofI[p] <= Total(ofI, Payments)
  BY <1>2, LedgerAssumption, TotalType, TotalMember
<1> QED BY <1>1, <1>3, <1>4, <1>5, <1>6

\* The live sum of a payment is a natural number, with or without invoices.
LEMMA NetOfPaymentType ==
    ASSUME NEW a, AllocOK(a), NEW p \in Payments
    PROVE  NetOfPayment(a, p) \in Nat
<1> DEFINE ofP == [j \in Invoices |-> Net(a[p][j])]
<1>1. CentsFn(ofP, Invoices)
  BY DEF AllocOK, AllocationRow, Net, CentsFn
<1> HIDE DEF ofP
<1>2. Total(ofP, Invoices) \in Nat
  BY <1>1, LedgerAssumption, TotalType
<1> QED BY <1>2 DEF NetOfPayment, ofP

\* Changing the allocations of payment p moves each invoice's sum by what
\* changed in its own row, and no other payment's sum.
LEMMA OnePaymentMoves ==
    ASSUME NEW a, AllocOK(a), NEW b, AllocOK(b), NEW p \in Payments,
           \A q \in Payments \ {p} : b[q] = a[q]
    PROVE  /\ \A i \in Invoices : NetOfInvoice(b, i)
                  = NetOfInvoice(a, i) - Net(a[p][i]) + Net(b[p][i])
           /\ \A q \in Payments \ {p} : NetOfPayment(b, q) = NetOfPayment(a, q)
<1>1. ASSUME NEW i \in Invoices
      PROVE  NetOfInvoice(b, i) = NetOfInvoice(a, i) - Net(a[p][i]) + Net(b[p][i])
  <2> DEFINE f == [q \in Payments |-> Net(a[q][i])]
             g == [q \in Payments |-> Net(b[q][i])]
  <2>1. CentsFn(f, Payments) /\ CentsFn(g, Payments)
    BY DEF AllocOK, AllocationRow, Net, CentsFn
  <2>2. \A q \in Payments \ {p} : g[q] = f[q]
    OBVIOUS
  <2>3. f[p] = Net(a[p][i]) /\ g[p] = Net(b[p][i])
    OBVIOUS
  <2>4. NetOfInvoice(a, i) = Total(f, Payments) /\ NetOfInvoice(b, i) = Total(g, Payments)
    BY DEF NetOfInvoice
  <2> HIDE DEF f, g
  <2>5. Total(g, Payments) = Total(f, Payments) - f[p] + g[p]
    BY <2>1, <2>2, LedgerAssumption, TotalUpdate
  <2> QED BY <2>3, <2>4, <2>5
<1>2. ASSUME NEW q \in Payments \ {p}
      PROVE  NetOfPayment(b, q) = NetOfPayment(a, q)
  BY DEF NetOfPayment
<1> QED BY <1>1, <1>2

-----------------------------------------------------------------------------
\* A recompute of an invoice that left draft is consistent with the money it
\* was given, as long as the money is no more than the total.
LEMMA RecomputedOK ==
    ASSUME NEW row \in InvoiceRow, NEW money \in Nat, money <= row.total,
           row.status \notin {"none", "draft"}
    PROVE  InvoiceOK(Recomputed(row, money), money)
<1> DEFINE plan   == Restamped(row.plan, money)
           status == DerivedStatus(row.status, row.total, money)
<1>1. plan \in Seq(Installment)
  <2>1. row.plan \in Seq(Installment)
    BY DEF InvoiceRow
  <2>2. \A k \in DOMAIN row.plan : row.plan[k] \in Installment
    BY <2>1
  <2>3. DOMAIN row.plan = 1..Len(row.plan) /\ Len(row.plan) \in Nat
    BY <2>1
  <2>4. /\ DOMAIN plan = 1..Len(row.plan)
        /\ \A k \in DOMAIN plan : plan[k] \in Installment
    BY <2>2, <2>3 DEF Restamped, Installment
  <2>5. plan = [k \in 1..Len(row.plan) |-> plan[k]]
    BY <2>3 DEF Restamped
  <2> HIDE DEF plan
  <2> QED BY <2>3, <2>4, <2>5
<1>2. /\ row.status \in {"sent", "partial", "paid", "cancelled"}
      /\ row.total \in Nat /\ row.deleted \in BOOLEAN /\ row.discounted \in BOOLEAN
  BY DEF InvoiceRow, InvoiceStatus
<1>3. /\ status \in {"sent", "partial", "paid", "cancelled"}
      /\ status = "paid" => money >= row.total /\ row.total > 0
      /\ status = "partial" => money > 0
      /\ status = "sent" => money = 0
  BY <1>2 DEF DerivedStatus
<1>4. Recomputed(row, money) \in InvoiceRow /\ Recomputed(row, money).paid = money
      /\ Recomputed(row, money).status = status
      /\ Recomputed(row, money).total = row.total
  <2>1. Recomputed(row, money) = [row EXCEPT !.paid = money, !.status = status, !.plan = plan]
    BY DEF Recomputed
  <2> HIDE DEF plan, status
  <2> QED BY <1>1, <1>3, <2>1 DEF InvoiceRow, InvoiceStatus
<1> HIDE DEF plan, status
<1> QED BY <1>1, <1>2, <1>3, <1>4 DEF InvoiceOK

\* After a change of the allocations of p, recomputing the touched invoices
\* restores what IInv says of every invoice.
LEMMA InvoicesAfterOK ==
    ASSUME IInv, NEW p \in Payments, NEW b, AllocOK(b),
           \A q \in Payments \ {p} : b[q] = alloc[q],
           NEW touched \in SUBSET Invoices,
           \A i \in Invoices \ touched : Net(b[p][i]) = Net(alloc[p][i]),
           \A i \in touched : /\ NetOfInvoice(b, i) <= invoice[i].total
                              /\ invoice[i].status \notin {"none", "draft"}
    PROVE  \A i \in Invoices :
              InvoiceOK(InvoicesAfter(b, touched)[i], NetOfInvoice(b, i))
<1> SUFFICES ASSUME NEW i \in Invoices
             PROVE  InvoiceOK(InvoicesAfter(b, touched)[i], NetOfInvoice(b, i))
  OBVIOUS
<1>1. AllocOK(alloc) /\ InvoiceOK(invoice[i], NetOfInvoice(alloc, i))
  BY RowByRow
<1>2. NetOfInvoice(b, i) \in Nat
  BY NetTypes
<1>3. CASE i \in touched
  <2>1. InvoicesAfter(b, touched)[i] = Recomputed(invoice[i], NetOfInvoice(b, i))
    BY <1>3 DEF InvoicesAfter
  <2>2. invoice[i] \in InvoiceRow
    BY <1>1 DEF InvoiceOK
  <2> QED BY <1>2, <1>3, <2>1, <2>2, RecomputedOK
<1>4. CASE i \notin touched
  <2>1. InvoicesAfter(b, touched)[i] = invoice[i]
    BY <1>4 DEF InvoicesAfter
  <2>2. NetOfInvoice(b, i) = NetOfInvoice(alloc, i) - Net(alloc[p][i]) + Net(b[p][i])
    BY <1>1, OnePaymentMoves
  <2>3. NetOfInvoice(alloc, i) \in Nat /\ Net(alloc[p][i]) \in Nat
    BY <1>1, NetTypes
  <2> QED BY <1>1, <1>4, <2>1, <2>2, <2>3
<1> QED BY <1>3, <1>4

-----------------------------------------------------------------------------
\* RowByRow in the next state.
LEMMA RowByRowNext ==
    IInv' <=> /\ AllocOK(alloc')
              /\ DOMAIN invoice' = Invoices /\ invoice' = [i \in Invoices |-> invoice'[i]]
              /\ payment' = [p \in Payments |-> payment'[p]]
              /\ refundLog' = [p \in Payments |-> refundLog'[p]]
              /\ \A i \in Invoices : InvoiceOK(invoice'[i], NetOfInvoice(alloc', i))
              /\ \A p \in Payments : PaymentOK(payment'[p], NetOfPayment(alloc', p))
              /\ \A p \in Payments : RefundOK(payment'[p], refundLog'[p], alloc'[p])
<1>1. (IInv <=> /\ AllocOK(alloc)
                /\ DOMAIN invoice = Invoices /\ invoice = [i \in Invoices |-> invoice[i]]
                /\ payment = [p \in Payments |-> payment[p]]
                /\ refundLog = [p \in Payments |-> refundLog[p]]
                /\ \A i \in Invoices : InvoiceOK(invoice[i], NetOfInvoice(alloc, i))
                /\ \A p \in Payments : PaymentOK(payment[p], NetOfPayment(alloc, p))
                /\ \A p \in Payments : RefundOK(payment[p], refundLog[p], alloc[p]))'
  BY RowByRow, PTL
<1> QED BY <1>1

\* A call that rewrites one invoice row, keeping what IInv says of it, and
\* leaves the money alone.
LEMMA InvoiceCall ==
    ASSUME IInv, NEW i \in Invoices, NEW row,
           InvoiceOK(row, NetOfInvoice(alloc, i)),
           invoice' = [invoice EXCEPT ![i] = row],
           UNCHANGED <<payment, alloc, refundLog>>
    PROVE  IInv'
BY RowByRow, RowByRowNext

\* A call that rewrites payment p with its allocations and refund history,
\* and recomputes the invoices it touched.
LEMMA PaymentCall ==
    ASSUME IInv, NEW p \in Payments, NEW touched \in SUBSET Invoices,
           NEW row, NEW log, AllocOK(alloc'),
           \A q \in Payments \ {p} : alloc'[q] = alloc[q],
           \A i \in Invoices \ touched : Net(alloc'[p][i]) = Net(alloc[p][i]),
           \A i \in touched : /\ NetOfInvoice(alloc', i) <= invoice[i].total
                              /\ invoice[i].status \notin {"none", "draft"},
           invoice' = InvoicesAfter(alloc', touched),
           payment' = [payment EXCEPT ![p] = row],
           refundLog' = [refundLog EXCEPT ![p] = log],
           PaymentOK(row, NetOfPayment(alloc', p)),
           RefundOK(row, log, alloc'[p])
    PROVE  IInv'
<1>1. \A i \in Invoices : InvoiceOK(invoice'[i], NetOfInvoice(alloc', i))
  BY InvoicesAfterOK
<1>2. AllocOK(alloc)
  BY RowByRow
<1>3. \A q \in Payments \ {p} : NetOfPayment(alloc', q) = NetOfPayment(alloc, q)
  BY <1>2, OnePaymentMoves
<1>4. DOMAIN invoice' = Invoices /\ invoice' = [i \in Invoices |-> invoice'[i]]
  BY DEF InvoicesAfter
<1>5. /\ payment = [q \in Payments |-> payment[q]]
      /\ refundLog = [q \in Payments |-> refundLog[q]]
      /\ \A q \in Payments : PaymentOK(payment[q], NetOfPayment(alloc, q))
      /\ \A q \in Payments : RefundOK(payment[q], refundLog[q], alloc[q])
  BY RowByRow
<1>6. /\ payment' = [q \in Payments |-> payment'[q]]
      /\ refundLog' = [q \in Payments |-> refundLog'[q]]
  BY <1>5
<1>7. \A q \in Payments : PaymentOK(payment'[q], NetOfPayment(alloc', q))
  BY <1>3, <1>5
<1>8. \A q \in Payments : RefundOK(payment'[q], refundLog'[q], alloc'[q])
  BY <1>5
<1> QED BY <1>1, <1>4, <1>6, <1>7, <1>8, RowByRowNext

\* Money on an invoice got there after it was sent.
LEMMA MoneyMeansSent ==
    ASSUME IInv, NEW p \in Payments, NEW i \in Invoices, Net(alloc[p][i]) > 0
    PROVE  invoice[i].status \notin {"none", "draft"}
<1>1. AllocOK(alloc) /\ InvoiceOK(invoice[i], NetOfInvoice(alloc, i))
  BY RowByRow
<1>2. NetOfInvoice(alloc, i) > 0
  BY <1>1, NetTypes
<1> QED BY <1>1, <1>2 DEF InvoiceOK

-----------------------------------------------------------------------------
\* The empty ledger satisfies the invariant.
LEMMA InitKeeps == Init => IInv
<1> SUFFICES ASSUME Init PROVE IInv
  OBVIOUS
<1> USE DEF Init
<1>1. AllocOK(alloc)
  BY DEF AllocOK, NoAllocation, AllocationRow
<1>2. ASSUME NEW i \in Invoices
      PROVE  InvoiceOK(invoice[i], NetOfInvoice(alloc, i))
  <2>1. \A p \in Payments : [q \in Payments |-> Net(alloc[q][i])][p] = 0
    BY DEF Net, NoAllocation
  <2>2. NetOfInvoice(alloc, i) = 0
    BY <2>1, TotalZero DEF NetOfInvoice
  <2>3. NoInvoice \in InvoiceRow
    BY DEF NoInvoice, InvoiceRow, InvoiceStatus
  <2> QED BY <2>2, <2>3 DEF InvoiceOK, NoInvoice
<1>3. ASSUME NEW p \in Payments
      PROVE  PaymentOK(payment[p], NetOfPayment(alloc, p))
  <2>1. \A i \in Invoices : [j \in Invoices |-> Net(alloc[p][j])][i] = 0
    BY DEF Net, NoAllocation
  <2>2. NetOfPayment(alloc, p) = 0
    BY <2>1, TotalZero DEF NetOfPayment
  <2> QED BY <2>2 DEF PaymentOK, NoPayment, PaymentRow, PaymentStatus
<1>4. ASSUME NEW p \in Payments
      PROVE  RefundOK(payment[p], refundLog[p], alloc[p])
  <2>1. Total([i \in Invoices |-> 0], Invoices) = 0
    BY TotalZero
  <2> QED BY <2>1 DEF RefundOK, NoRefund, RefundRow, NoPayment, NoAllocation
<1> QED BY <1>1, <1>2, <1>3, <1>4, RowByRow

\* A late fee leaves a schedule a schedule.
LEMMA FeeAddedType ==
    ASSUME NEW plan \in Seq(Installment), NEW k \in DOMAIN plan, NEW fee \in Nat
    PROVE  FeeAdded(plan, k, fee) \in Seq(Installment)
<1>1. plan[k] \in Installment
  OBVIOUS
<1> DEFINE row == [plan[k] EXCEPT !.amount = @ + fee]
<1>2. plan[k].amount \in Nat \ {0} /\ plan[k].amount + fee \in Nat \ {0}
  BY <1>1 DEF Installment
<1>3. row \in Installment
  BY <1>1, <1>2 DEF Installment
<1>4. FeeAdded(plan, k, fee) = [plan EXCEPT ![k] = row]
  BY DEF FeeAdded
<1> HIDE DEF row
<1> QED BY <1>3, <1>4

\* The calls of invoice_service.py preserve the inductive invariant.
LEMMA InvoiceStepKeeps ==
    ASSUME IInv, InvoiceStep
    PROVE  IInv'
<1> PICK i \in Invoices :
        \/ \E total \in Totals, plan \in Plans \cup {<<>>}, d \in BOOLEAN :
              CreateInvoice(i, total, plan, d)
        \/ \E total \in Totals \cup {invoice[i].total}, d \in BOOLEAN :
              \/ \E plan \in Plans \cup {<<>>} :
                    UpdateInvoice(i, total, d, TRUE, plan)
              \/ UpdateInvoice(i, total, d, FALSE, <<>>)
        \/ MarkSent(i)
        \/ CancelInvoice(i)
        \/ SoftDeleteInvoice(i)
        \/ \E fee \in Fees : \E line \in 0..fee : AppendLateFee(i, fee, line)
  BY DEF InvoiceStep
<1> DEFINE money == NetOfInvoice(alloc, i)
<1>0. /\ InvoiceOK(invoice[i], money) /\ invoice[i] \in InvoiceRow
      /\ Plans \cup {<<>>} \subseteq Seq(Installment) /\ Totals \subseteq Nat
      /\ invoice = [j \in Invoices |-> invoice[j]]
  <2>1. Plans \subseteq Seq(Installment) /\ Totals \subseteq Nat
    BY LedgerAssumption
  <2>2. <<>> \in Seq(Installment)
    OBVIOUS
  <2> QED BY <2>1, <2>2, RowByRow DEF InvoiceOK
<1> HIDE DEF money
<1>1. ASSUME NEW total \in Totals, NEW plan \in Plans \cup {<<>>}, NEW d \in BOOLEAN,
             CreateInvoice(i, total, plan, d)
      PROVE  IInv'
  <2> DEFINE row == [status |-> "draft", deleted |-> FALSE, discounted |-> d,
                     total |-> total, paid |-> 0, plan |-> plan]
  <2>1. InvoiceOK(row, money)
    BY <1>0, <1>1 DEF InvoiceOK, InvoiceRow, InvoiceStatus, CreateInvoice
  <2> QED BY <1>1, <2>1, InvoiceCall DEF CreateInvoice, money
<1>2. ASSUME NEW total \in Totals \cup {invoice[i].total}, NEW d \in BOOLEAN,
             NEW replan \in BOOLEAN, NEW plan \in Plans \cup {<<>>},
             UpdateInvoice(i, total, d, replan, plan)
      PROVE  IInv'
  <2> DEFINE newPlan == IF replan THEN plan ELSE invoice[i].plan
             row == [invoice[i] EXCEPT !.total = total, !.discounted = d,
                                       !.plan = newPlan]
  <2>1. /\ invoice' = [invoice EXCEPT ![i] = row]
        /\ invoice[i].paid <= total
        /\ invoice[i].status \in {"draft", "sent", "partial"}
        /\ UNCHANGED <<payment, alloc, refundLog>>
    BY <1>0, <1>2 DEF UpdateInvoice
  <2>2. total \in Nat /\ newPlan \in Seq(Installment)
    BY <1>0 DEF InvoiceRow
  <2> HIDE DEF newPlan
  <2>3. InvoiceOK(row, money)
    BY <1>0, <2>1, <2>2 DEF InvoiceOK, InvoiceRow
  <2> QED BY <2>1, <2>3, InvoiceCall DEF money
<1>3. CASE MarkSent(i)
  <2> DEFINE row == [invoice[i] EXCEPT !.status = "sent"]
  <2>1. InvoiceOK(row, money)
    BY <1>0, <1>3 DEF InvoiceOK, InvoiceRow, InvoiceStatus, MarkSent
  <2> QED BY <1>0, <1>3, <2>1, InvoiceCall DEF MarkSent, money
<1>4. CASE CancelInvoice(i)
  <2> DEFINE row == [invoice[i] EXCEPT !.status = "cancelled"]
  <2>1. InvoiceOK(row, money)
    BY <1>0, <1>4 DEF InvoiceOK, InvoiceRow, InvoiceStatus, CancelInvoice
  <2> QED BY <1>0, <1>4, <2>1, InvoiceCall DEF CancelInvoice, money
<1>5. CASE SoftDeleteInvoice(i)
  <2> DEFINE row == [invoice[i] EXCEPT !.deleted = TRUE]
  <2>1. InvoiceOK(row, money)
    BY <1>0, <1>5 DEF InvoiceOK, InvoiceRow, InvoiceStatus
  <2> QED BY <1>0, <1>5, <2>1, InvoiceCall DEF SoftDeleteInvoice, money
<1>6. ASSUME NEW fee \in Fees, NEW line \in 0..fee, AppendLateFee(i, fee, line)
      PROVE  IInv'
  <2>1. PICK k \in DOMAIN invoice[i].plan :
          /\ invoice' = [invoice EXCEPT ![i].total = @ + line,
                                        ![i].plan = FeeAdded(@, k, fee)]
          /\ UNCHANGED <<payment, alloc, refundLog>>
    BY <1>6 DEF AppendLateFee
  <2> DEFINE total   == invoice[i].total + line
             newPlan == FeeAdded(invoice[i].plan, k, fee)
             row     == [invoice[i] EXCEPT !.total = total, !.plan = newPlan]
  <2>2. fee \in Nat /\ line \in Nat
    BY LedgerAssumption
  <2>3. newPlan \in Seq(Installment) /\ total \in Nat /\ invoice[i].paid <= total
        /\ total >= invoice[i].total /\ invoice[i].status \in {"sent", "partial"}
    <3>1. newPlan \in Seq(Installment)
      BY <1>0, <2>2, FeeAddedType DEF InvoiceRow
    <3>2. invoice[i].status \in {"sent", "partial"}
      BY <1>6 DEF AppendLateFee
    <3>3. invoice[i].total \in Nat /\ invoice[i].paid \in Nat
          /\ invoice[i].paid <= invoice[i].total
      BY <1>0 DEF InvoiceOK, InvoiceRow
    <3> QED BY <2>2, <3>1, <3>2, <3>3
  <2>4. invoice' = [invoice EXCEPT ![i] = row]
    BY <2>1
  <2> HIDE DEF total, newPlan
  <2>5. InvoiceOK(row, money)
    BY <1>0, <2>3 DEF InvoiceOK, InvoiceRow
  <2> QED BY <2>1, <2>4, <2>5, InvoiceCall DEF money
<1> QED BY <1>1, <1>2, <1>3, <1>4, <1>5, <1>6

-----------------------------------------------------------------------------
\* A slice list of cents adds up to a natural number no smaller than a slice.
LEMMA SlicesType ==
    ASSUME NEW slices \in [Invoices -> Nat]
    PROVE  /\ Total(slices, Invoices) \in Nat
           /\ \A i \in Invoices : slices[i] \in Nat /\ slices[i] <= Total(slices, Invoices)
<1>1. CentsFn(slices, Invoices)
  BY DEF CentsFn
<1> QED BY <1>1, LedgerAssumption, TotalType, TotalMember

\* What _recompute_payment_totals writes, for money that fits in what was
\* not refunded.
LEMMA ReappliedOK ==
    ASSUME NEW row \in PaymentRow, NEW money \in Nat,
           money <= row.amount - row.refunded, row.status # "none"
    PROVE  /\ PaymentOK(Reapplied(row, money), money)
           /\ Reapplied(row, money).refunded = row.refunded
<1> DEFINE pool   == row.amount - row.refunded - money
           status == RefundStatus(row.amount, row.refunded)
<1>1. row.amount \in Nat /\ row.refunded \in Nat
  BY DEF PaymentRow
<1>2. pool \in Nat /\ row.amount = money + row.refunded + pool
  BY <1>1
<1>3. status \in PaymentStatus /\ status # "none"
  BY DEF RefundStatus, PaymentStatus
<1>4. Reapplied(row, money) = [row EXCEPT !.applied = money, !.unapplied = pool,
                                          !.status = status]
  BY DEF Reapplied
<1>5. status = RefundStatus(row.amount, row.refunded)
  OBVIOUS
<1> HIDE DEF pool, status
<1> QED BY <1>2, <1>3, <1>4, <1>5 DEF PaymentOK, PaymentRow

\* A payment that was never recorded has no allocation and no refund.
LEMMA UnrecordedIsEmpty ==
    ASSUME IInv, NEW p \in Payments, payment[p].status = "none"
    PROVE  /\ payment[p].refunded = 0
           /\ \A i \in Invoices : Net(alloc[p][i]) = 0 /\ refundLog[p].slices[i] = 0
           /\ refundLog[p].pool = 0
<1>1. /\ AllocOK(alloc)
      /\ PaymentOK(payment[p], NetOfPayment(alloc, p))
      /\ RefundOK(payment[p], refundLog[p], alloc[p])
  BY RowByRow
<1>2. payment[p].refunded = 0 /\ NetOfPayment(alloc, p) = 0
  BY <1>1 DEF PaymentOK, PaymentRow
<1>3. refundLog[p].slices \in [Invoices -> Nat] /\ refundLog[p].pool \in Nat
  BY <1>1 DEF RefundOK, RefundRow
<1>4. refundLog[p].pool = 0 /\ Total(refundLog[p].slices, Invoices) = 0
  <2>1. Total(refundLog[p].slices, Invoices) \in Nat
    BY <1>3, SlicesType
  <2> QED BY <1>1, <1>2, <1>3, <2>1 DEF RefundOK
<1>5. ASSUME NEW i \in Invoices
      PROVE  Net(alloc[p][i]) = 0 /\ refundLog[p].slices[i] = 0
  <2>1. Net(alloc[p][i]) \in Nat /\ Net(alloc[p][i]) <= 0
    BY <1>1, <1>2, NetTypes
  <2>2. refundLog[p].slices[i] \in Nat /\ refundLog[p].slices[i] <= 0
    BY <1>3, <1>4, SlicesType
  <2> QED BY <2>1, <2>2
<1> QED BY <1>2, <1>4, <1>5

\* Recording a payment, split over the invoices, keeps the invariant.
LEMMA RecordPaymentKeeps ==
    ASSUME IInv, NEW p \in Payments, NEW amount \in Nat,
           NEW slices \in [Invoices -> Nat], RecordPayment(p, amount, slices)
    PROVE  IInv'
<1> DEFINE listed == {i \in Invoices : slices[i] > 0}
           spent  == Total(slices, Invoices)
           row    == [status |-> "completed", amount |-> amount, applied |-> spent,
                      unapplied |-> amount - spent, refunded |-> 0]
           rows   == [i \in Invoices |-> [applied |-> slices[i], refunded |-> 0]]
<1>1. /\ payment[p].status = "none" /\ spent <= amount
      /\ \A i \in listed : Allocatable(i) /\ invoice[i].paid + slices[i] <= invoice[i].total
      /\ payment' = [payment EXCEPT ![p] = row]
      /\ alloc' = [alloc EXCEPT ![p] = rows]
      /\ invoice' = InvoicesAfter(alloc', listed)
      /\ refundLog' = refundLog
  BY DEF RecordPayment, SlicesFit
<1>2. /\ AllocOK(alloc)
      /\ \A i \in Invoices : InvoiceOK(invoice[i], NetOfInvoice(alloc, i))
      /\ refundLog = [q \in Payments |-> refundLog[q]]
      /\ RefundOK(payment[p], refundLog[p], alloc[p])
  BY RowByRow
<1>3. /\ payment[p].refunded = 0 /\ refundLog[p].pool = 0
      /\ \A i \in Invoices : Net(alloc[p][i]) = 0 /\ refundLog[p].slices[i] = 0
  BY <1>1, UnrecordedIsEmpty
<1>4. alloc'[p] = rows /\ \A q \in Payments \ {p} : alloc'[q] = alloc[q]
  BY <1>1, <1>2 DEF AllocOK
<1>5. AllocOK(alloc')
  BY <1>1, <1>2 DEF AllocOK, AllocationRow
<1>6. \A i \in Invoices : Net(alloc'[p][i]) = slices[i]
  BY <1>4 DEF Net
<1>7. \A i \in listed : /\ NetOfInvoice(alloc', i) <= invoice[i].total
                        /\ invoice[i].status \notin {"none", "draft"}
  <2> SUFFICES ASSUME NEW i \in listed
               PROVE  /\ NetOfInvoice(alloc', i) <= invoice[i].total
                      /\ invoice[i].status \notin {"none", "draft"}
    OBVIOUS
  <2>1. NetOfInvoice(alloc', i) = NetOfInvoice(alloc, i) - Net(alloc[p][i]) + Net(alloc'[p][i])
    BY <1>2, <1>4, <1>5, OnePaymentMoves
  <2>2. NetOfInvoice(alloc, i) \in Nat /\ invoice[i].paid = NetOfInvoice(alloc, i)
    BY <1>2, NetTypes DEF InvoiceOK
  <2>3. invoice[i].status \notin {"none", "draft"}
    BY <1>1 DEF Allocatable
  <2> HIDE DEF listed
  <2>4. i \in Invoices /\ invoice[i].paid + slices[i] <= invoice[i].total
    BY <1>1 DEF listed
  <2> QED BY <1>3, <1>6, <2>1, <2>2, <2>3, <2>4
<1>8. NetOfPayment(alloc', p) = spent
  <2>1. \A i \in Invoices : [j \in Invoices |-> Net(alloc'[p][j])][i] = slices[i]
    BY <1>6
  <2> QED BY <2>1, TotalSame DEF NetOfPayment
<1>9. PaymentOK(row, spent)
  <2>1. spent \in Nat
    BY SlicesType
  <2> HIDE DEF spent
  <2>2. amount - spent \in Nat /\ amount = spent + 0 + (amount - spent)
    BY <1>1, <2>1
  <2>3. row \in PaymentRow
    BY <2>1, <2>2 DEF PaymentRow, PaymentStatus
  <2>4. RefundStatus(amount, 0) = "completed"
    BY DEF RefundStatus
  <2>5. /\ row.applied = spent /\ row.refunded = 0 /\ row.amount = amount
        /\ row.unapplied = amount - spent /\ row.status = "completed"
    OBVIOUS
  <2> HIDE DEF row
  <2> QED BY <2>2, <2>3, <2>4, <2>5 DEF PaymentOK
<1>10. RefundOK(row, refundLog[p], alloc'[p])
  <2>1. Total(refundLog[p].slices, Invoices) = 0
    BY <1>3, TotalZero
  <2> QED BY <1>2, <1>3, <1>4, <2>1 DEF RefundOK
<1>11. \A i \in Invoices \ listed : Net(alloc'[p][i]) = Net(alloc[p][i])
  BY <1>3, <1>6
<1>12. refundLog' = [refundLog EXCEPT ![p] = refundLog[p]]
  BY <1>1, <1>2
<1>13. listed \in SUBSET Invoices
  OBVIOUS
<1> HIDE DEF listed, row, rows, spent
<1> QED BY <1>1, <1>4, <1>5, <1>7, <1>8, <1>9, <1>10, <1>11, <1>12, <1>13, PaymentCall

\* What apply_unapplied and unapply_allocation share: the allocation of p to i
\* is rewritten with its refunds as they were, then both sides are recomputed.
LEMMA AllocationCall ==
    ASSUME IInv, NEW p \in Payments, NEW i \in Invoices,
           NEW a \in AllocationRow,
           a.refunded = alloc[p][i].refunded, a.refunded <= a.applied,
           payment[p].status # "none",
           Net(a) <= Net(alloc[p][i]) + payment[p].unapplied,
           NetOfInvoice(alloc, i) - Net(alloc[p][i]) + Net(a) <= invoice[i].total,
           invoice[i].status \notin {"none", "draft"},
           alloc' = [alloc EXCEPT ![p] = [alloc[p] EXCEPT ![i] = a]],
           payment' = [payment EXCEPT ![p] = Reapplied(payment[p], NetOfPayment(alloc', p))],
           invoice' = InvoicesAfter(alloc', {i}),
           refundLog' = refundLog
    PROVE  IInv'
<1> DEFINE money == NetOfPayment(alloc', p)
           row   == Reapplied(payment[p], money)
<1>1. /\ AllocOK(alloc)
      /\ PaymentOK(payment[p], NetOfPayment(alloc, p))
      /\ RefundOK(payment[p], refundLog[p], alloc[p])
      /\ refundLog = [q \in Payments |-> refundLog[q]]
  BY RowByRow
<1>2. /\ \A q \in Payments \ {p} : alloc'[q] = alloc[q]
      /\ alloc'[p][i] = a
      /\ \A j \in Invoices \ {i} : alloc'[p][j] = alloc[p][j]
  BY <1>1 DEF AllocOK
<1>3. AllocOK(alloc')
  BY <1>1 DEF AllocOK
<1>4. /\ NetOfInvoice(alloc', i) = NetOfInvoice(alloc, i) - Net(alloc[p][i]) + Net(a)
      /\ \A j \in Invoices \ {i} : Net(alloc'[p][j]) = Net(alloc[p][j])
  <2> HIDE DEF money, row
  <2>1. AllocOK(alloc) /\ AllocOK(alloc') /\ \A q \in Payments \ {p} : alloc'[q] = alloc[q]
    BY <1>1, <1>2, <1>3
  <2>2. NetOfInvoice(alloc', i) = NetOfInvoice(alloc, i) - Net(alloc[p][i]) + Net(alloc'[p][i])
    BY ONLY <2>1, p \in Payments, i \in Invoices, OnePaymentMoves
  <2> QED BY <1>2, <2>2
<1>5. money = NetOfPayment(alloc, p) - Net(alloc[p][i]) + Net(a)
  <2> DEFINE f == [j \in Invoices |-> Net(alloc[p][j])]
             g == [j \in Invoices |-> Net(alloc'[p][j])]
  <2>1. CentsFn(f, Invoices) /\ CentsFn(g, Invoices)
    BY <1>1, <1>3 DEF AllocOK, AllocationRow, Net, CentsFn
  <2>2. \A j \in Invoices \ {i} : g[j] = f[j]
    BY <1>4
  <2>3. f[i] = Net(alloc[p][i]) /\ g[i] = Net(a)
    BY <1>2
  <2>4. NetOfPayment(alloc, p) = Total(f, Invoices) /\ money = Total(g, Invoices)
    BY DEF NetOfPayment
  <2> HIDE DEF f, g, money
  <2>5. Total(g, Invoices) = Total(f, Invoices) - f[i] + g[i]
    BY <2>1, <2>2, LedgerAssumption, TotalUpdate
  <2> QED BY <2>3, <2>4, <2>5
<1>6. money \in Nat /\ NetOfPayment(alloc, p) \in Nat /\ Net(alloc[p][i]) \in Nat
  BY <1>1, <1>3, NetTypes
<1>7. Net(a) \in Nat
  BY DEF AllocationRow, Net
<1>8. PaymentOK(row, money) /\ row.refunded = payment[p].refunded
  <2>1. /\ payment[p].amount \in Nat /\ payment[p].applied = NetOfPayment(alloc, p)
        /\ payment[p].refunded \in Nat /\ payment[p].unapplied \in Nat
        /\ payment[p].amount = payment[p].applied + payment[p].refunded
                                                  + payment[p].unapplied
    BY <1>1 DEF PaymentOK, PaymentRow
  <2>2. money <= payment[p].amount - payment[p].refunded
    <3> HIDE DEF money
    <3> QED BY <1>5, <1>6, <1>7, <2>1
  <2>3. payment[p] \in PaymentRow
    BY <1>1 DEF PaymentOK
  <2> HIDE DEF money
  <2> QED BY <1>6, <2>2, <2>3, ReappliedOK
<1>9. RefundOK(row, refundLog[p], alloc'[p])
  <2>1. \A j \in Invoices : alloc'[p][j].refunded = alloc[p][j].refunded
    BY <1>2
  <2> HIDE DEF row
  <2> QED BY <1>1, <1>8, <2>1 DEF RefundOK
<1>10. refundLog' = [refundLog EXCEPT ![p] = refundLog[p]]
  BY <1>1
<1>11. payment' = [payment EXCEPT ![p] = row]
  OBVIOUS
<1>12. {i} \in SUBSET Invoices
  OBVIOUS
<1>13. \A j \in {i} : /\ NetOfInvoice(alloc', j) <= invoice[j].total
                      /\ invoice[j].status \notin {"none", "draft"}
  BY <1>4
<1> HIDE DEF row, money
<1>14. PaymentOK(row, NetOfPayment(alloc', p))
  BY <1>8 DEF money
<1> QED BY <1>2, <1>3, <1>4, <1>9, <1>10, <1>11, <1>12, <1>13, <1>14, PaymentCall

\* Moving unapplied money to an invoice keeps the invariant.
LEMMA ApplyUnappliedKeeps ==
    ASSUME IInv, NEW p \in Payments, NEW i \in Invoices,
           NEW cents \in 1..payment[p].unapplied, ApplyUnapplied(p, i, cents)
    PROVE  IInv'
<1> DEFINE a == [alloc[p][i] EXCEPT !.applied = alloc[p][i].applied + cents]
<1>1. /\ AllocOK(alloc) /\ alloc[p][i] \in AllocationRow
      /\ PaymentOK(payment[p], NetOfPayment(alloc, p))
      /\ InvoiceOK(invoice[i], NetOfInvoice(alloc, i))
  BY RowByRow DEF AllocOK
<1>2. cents \in Nat /\ cents <= payment[p].unapplied
  BY <1>1 DEF PaymentOK, PaymentRow
<1>3. /\ a \in AllocationRow /\ a.refunded = alloc[p][i].refunded
      /\ a.refunded <= a.applied /\ Net(a) = Net(alloc[p][i]) + cents
  BY <1>1, <1>2 DEF AllocOK, AllocationRow, Net
<1>4. payment[p].status # "none" /\ invoice[i].status \notin {"none", "draft"}
      /\ invoice[i].paid + cents <= invoice[i].total
      /\ alloc' = [alloc EXCEPT ![p] = [alloc[p] EXCEPT ![i] = a]]
      /\ payment' = [payment EXCEPT ![p] = Reapplied(payment[p], NetOfPayment(alloc', p))]
      /\ invoice' = InvoicesAfter(alloc', {i})
      /\ refundLog' = refundLog
  BY <1>1 DEF ApplyUnapplied, Spendable, Allocatable, AllocOK
<1>5. NetOfInvoice(alloc, i) \in Nat /\ Net(alloc[p][i]) \in Nat
      /\ invoice[i].paid = NetOfInvoice(alloc, i)
  BY <1>1, NetTypes DEF InvoiceOK
<1> HIDE DEF a
<1>6. NetOfInvoice(alloc, i) - Net(alloc[p][i]) + Net(a) <= invoice[i].total
  BY <1>2, <1>3, <1>4, <1>5
<1>7. Net(a) <= Net(alloc[p][i]) + payment[p].unapplied
  BY <1>1, <1>2, <1>3, <1>5 DEF PaymentOK, PaymentRow
<1> QED BY <1>3, <1>4, <1>6, <1>7, AllocationCall

\* Taking an allocation back keeps the invariant.
LEMMA UnapplyAllocationKeeps ==
    ASSUME IInv, NEW p \in Payments, NEW i \in Invoices, UnapplyAllocation(p, i)
    PROVE  IInv'
<1>1. /\ AllocOK(alloc) /\ alloc[p][i] \in AllocationRow
      /\ PaymentOK(payment[p], NetOfPayment(alloc, p))
      /\ InvoiceOK(invoice[i], NetOfInvoice(alloc, i))
  BY RowByRow DEF AllocOK
<1>2. /\ alloc[p][i].applied > 0 /\ alloc[p][i].refunded = 0
      /\ alloc' = [alloc EXCEPT ![p] = [alloc[p] EXCEPT ![i] = NoAllocation]]
      /\ payment' = [payment EXCEPT ![p] = Reapplied(payment[p], NetOfPayment(alloc', p))]
      /\ invoice' = InvoicesAfter(alloc', {i})
      /\ refundLog' = refundLog
  BY <1>1 DEF UnapplyAllocation
<1>3. /\ NoAllocation \in AllocationRow /\ NoAllocation.refunded = 0
      /\ NoAllocation.applied = 0 /\ Net(NoAllocation) = 0
  BY DEF NoAllocation, AllocationRow, Net
<1>4. /\ Net(alloc[p][i]) \in Nat /\ Net(alloc[p][i]) > 0
      /\ NetOfInvoice(alloc, i) \in Nat
  BY <1>1, <1>2, NetTypes DEF AllocationRow, Net
<1>5. invoice[i].status \notin {"none", "draft"}
  BY <1>4, MoneyMeansSent
<1>6. payment[p].status # "none"
  BY <1>4, UnrecordedIsEmpty
<1>7. NetOfInvoice(alloc, i) <= invoice[i].total /\ invoice[i].total \in Nat
      /\ payment[p].unapplied \in Nat
  BY <1>1 DEF InvoiceOK, InvoiceRow, PaymentOK, PaymentRow
<1>8. NetOfInvoice(alloc, i) - Net(alloc[p][i]) + Net(NoAllocation) <= invoice[i].total
  BY <1>3, <1>4, <1>7
<1>9. Net(NoAllocation) <= Net(alloc[p][i]) + payment[p].unapplied
  BY <1>3, <1>4, <1>7
<1>10. /\ NoAllocation.refunded = alloc[p][i].refunded
       /\ NoAllocation.refunded <= NoAllocation.applied
  BY <1>2, <1>3
<1> QED BY <1>2, <1>3, <1>5, <1>6, <1>8, <1>9, <1>10, AllocationCall

\* A refund, from the pool and from the allocations, keeps the invariant.
LEMMA RecordRefundKeeps ==
    ASSUME IInv, NEW p \in Payments, NEW pool \in Nat,
           NEW slices \in [Invoices -> Nat], RecordRefund(p, pool, slices)
    PROVE  IInv'
<1> DEFINE listed      == {i \in Invoices : slices[i] > 0}
           cents       == pool + Total(slices, Invoices)
           rows        == [i \in Invoices |->
                             [applied  |-> alloc[p][i].applied,
                              refunded |-> alloc[p][i].refunded + slices[i]]]
           newApplied  == NetOfPayment(alloc', p)
           newRefunded == payment[p].refunded + cents
           unapplied   == payment[p].amount - newApplied - newRefunded
           status      == RefundStatus(payment[p].amount, newRefunded)
           row == [payment[p] EXCEPT !.applied = newApplied, !.refunded = newRefunded,
                                     !.unapplied = unapplied, !.status = status]
           log == [pool   |-> refundLog[p].pool + pool,
                   slices |-> [i \in Invoices |-> refundLog[p].slices[i] + slices[i]]]
<1>1. /\ payment[p].status # "none"
      /\ cents <= payment[p].amount - payment[p].refunded
      /\ pool <= payment[p].unapplied
      /\ \A i \in listed : slices[i] <= Net(alloc[p][i])
      /\ alloc' = [alloc EXCEPT ![p] = rows]
      /\ payment' = [payment EXCEPT ![p] = row]
      /\ refundLog' = [refundLog EXCEPT ![p] = log]
      /\ invoice' = InvoicesAfter(alloc', listed)
  BY DEF RecordRefund, Spendable
<1>2. /\ AllocOK(alloc)
      /\ \A i \in Invoices : InvoiceOK(invoice[i], NetOfInvoice(alloc, i))
      /\ PaymentOK(payment[p], NetOfPayment(alloc, p))
      /\ RefundOK(payment[p], refundLog[p], alloc[p])
  BY RowByRow
<1>3. /\ Total(slices, Invoices) \in Nat
      /\ \A i \in Invoices : slices[i] \in Nat /\ Net(alloc[p][i]) \in Nat
      /\ \A i \in Invoices : slices[i] <= Net(alloc[p][i])
  <2>1. \A i \in Invoices : slices[i] \in Nat /\ Net(alloc[p][i]) \in Nat
    BY <1>2, NetTypes
  <2> QED BY <1>1, <2>1, SlicesType
<1>4. alloc'[p] = rows /\ \A q \in Payments \ {p} : alloc'[q] = alloc[q]
  BY <1>1, <1>2 DEF AllocOK
<1>5. AllocOK(alloc')
  <2>1. \A i \in Invoices : rows[i] \in AllocationRow /\ rows[i].refunded <= rows[i].applied
    BY <1>2, <1>3 DEF AllocOK, AllocationRow, Net
  <2> HIDE DEF rows
  <2>2. rows \in [Invoices -> AllocationRow]
    BY <2>1 DEF rows
  <2> QED BY <1>1, <1>2, <1>4, <2>1, <2>2 DEF AllocOK
<1>6. \A i \in Invoices : Net(alloc'[p][i]) = Net(alloc[p][i]) - slices[i]
  BY <1>2, <1>3, <1>4 DEF Net, AllocOK, AllocationRow
<1>7. newApplied \in Nat /\ NetOfPayment(alloc, p) \in Nat
      /\ newApplied + Total(slices, Invoices) = NetOfPayment(alloc, p)
  <2> DEFINE f == [i \in Invoices |-> Net(alloc'[p][i])]
             h == [i \in Invoices |-> Net(alloc[p][i])]
  <2>1. CentsFn(f, Invoices) /\ CentsFn(slices, Invoices)
    BY <1>3, <1>6 DEF CentsFn
  <2>2. \A i \in Invoices : h[i] = f[i] + slices[i]
    BY <1>3, <1>6
  <2>3. NetOfPayment(alloc, p) = Total(h, Invoices) /\ newApplied = Total(f, Invoices)
    BY DEF NetOfPayment
  <2>4. newApplied \in Nat /\ NetOfPayment(alloc, p) \in Nat
    BY <1>2, <1>5, NetOfPaymentType
  <2> HIDE DEF f, h, newApplied
  <2>5. Total(h, Invoices) = Total(f, Invoices) + Total(slices, Invoices)
    BY <2>1, <2>2, LedgerAssumption, TotalPlus
  <2> QED BY <2>3, <2>4, <2>5
<1>8. \A i \in listed : /\ NetOfInvoice(alloc', i) <= invoice[i].total
                        /\ invoice[i].status \notin {"none", "draft"}
  <2> SUFFICES ASSUME NEW i \in Invoices, slices[i] > 0
               PROVE  /\ NetOfInvoice(alloc', i) <= invoice[i].total
                      /\ invoice[i].status \notin {"none", "draft"}
    OBVIOUS
  <2>1. NetOfInvoice(alloc', i) = NetOfInvoice(alloc, i) - Net(alloc[p][i]) + Net(alloc'[p][i])
    BY <1>2, <1>4, <1>5, OnePaymentMoves
  <2>2. /\ NetOfInvoice(alloc, i) \in Nat /\ invoice[i].total \in Nat
        /\ NetOfInvoice(alloc, i) <= invoice[i].total
    BY <1>2, NetTypes DEF InvoiceOK, InvoiceRow
  <2>3. Net(alloc[p][i]) > 0
    BY <1>3
  <2>4. invoice[i].status \notin {"none", "draft"}
    BY <2>3, MoneyMeansSent
  <2>5. NetOfInvoice(alloc', i) <= invoice[i].total
    BY <1>3, <1>6, <2>1, <2>2
  <2> QED BY <2>4, <2>5
<1>9. PaymentOK(row, newApplied) /\ row.refunded = newRefunded
  <2>1. /\ payment[p] \in PaymentRow
        /\ payment[p].amount \in Nat /\ payment[p].applied = NetOfPayment(alloc, p)
        /\ payment[p].refunded \in Nat /\ payment[p].unapplied \in Nat
        /\ payment[p].amount = payment[p].applied + payment[p].refunded
                                                  + payment[p].unapplied
    BY <1>2 DEF PaymentOK, PaymentRow
  <2> HIDE DEF newApplied
  <2>2. newRefunded \in Nat
    BY <1>3, <2>1
  <2>3. unapplied \in Nat /\ payment[p].amount = newApplied + newRefunded + unapplied
    BY <1>1, <1>3, <1>7, <2>1
  <2>4. status \in PaymentStatus /\ status # "none"
    BY DEF RefundStatus, PaymentStatus
  <2>5. status = RefundStatus(payment[p].amount, newRefunded)
    OBVIOUS
  <2> HIDE DEF newRefunded, unapplied, status
  <2>6. /\ row \in PaymentRow /\ row.applied = newApplied /\ row.refunded = newRefunded
        /\ row.unapplied = unapplied /\ row.status = status
        /\ row.amount = payment[p].amount
    BY <1>7, <2>1, <2>2, <2>3, <2>4 DEF PaymentRow
  <2> HIDE DEF row
  <2> QED BY <2>3, <2>4, <2>5, <2>6 DEF PaymentOK
<1>10. RefundOK(row, log, alloc'[p])
  <2>1. /\ refundLog[p].pool \in Nat /\ refundLog[p].slices \in [Invoices -> Nat]
        /\ payment[p].refunded = refundLog[p].pool + Total(refundLog[p].slices, Invoices)
        /\ \A i \in Invoices : refundLog[p].slices[i] = alloc[p][i].refunded
    BY <1>2 DEF RefundOK, RefundRow
  <2>2. log.slices \in [Invoices -> Nat] /\ log.pool \in Nat
    BY <1>3, <2>1
  <2>3. Total(log.slices, Invoices) = Total(refundLog[p].slices, Invoices)
                                        + Total(slices, Invoices)
    <3>1. CentsFn(refundLog[p].slices, Invoices) /\ CentsFn(slices, Invoices)
      BY <1>3, <2>1 DEF CentsFn
    <3>2. \A i \in Invoices : log.slices[i] = refundLog[p].slices[i] + slices[i]
      OBVIOUS
    <3> HIDE DEF log
    <3> QED BY <3>1, <3>2, LedgerAssumption, TotalPlus
  <2>4. \A i \in Invoices : log.slices[i] = alloc'[p][i].refunded
    BY <1>4, <2>1
  <2>5. log \in RefundRow
    BY <2>2 DEF RefundRow
  <2>6. Total(refundLog[p].slices, Invoices) \in Nat
    BY <2>1, SlicesType
  <2>7. log.pool = refundLog[p].pool + pool
    OBVIOUS
  <2>8. row.refunded = payment[p].refunded + (pool + Total(slices, Invoices))
    BY <1>9
  <2> HIDE DEF log, row
  <2> QED BY <1>3, <2>1, <2>3, <2>4, <2>5, <2>6, <2>7, <2>8 DEF RefundOK
<1>11. \A i \in Invoices \ listed : Net(alloc'[p][i]) = Net(alloc[p][i])
  BY <1>3, <1>6
<1>12. listed \in SUBSET Invoices
  OBVIOUS
<1> HIDE DEF listed, row, log
<1> QED BY <1>1, <1>4, <1>5, <1>8, <1>9, <1>10, <1>11, <1>12, PaymentCall

\* The calls of payment_service.py preserve the inductive invariant.
LEMMA PaymentStepKeeps ==
    ASSUME IInv, PaymentStep
    PROVE  IInv'
<1> PICK p \in Payments :
        \/ \E amount \in Amounts : \E slices \in SlicesUpTo(amount) :
              RecordPayment(p, amount, slices)
        \/ \E i \in Invoices, cents \in 1..payment[p].unapplied :
              ApplyUnapplied(p, i, cents)
        \/ \E i \in Invoices : UnapplyAllocation(p, i)
        \/ \E pool \in 0..payment[p].unapplied,
              slices \in SlicesUpTo(payment[p].applied) :
              RecordRefund(p, pool, slices)
  BY DEF PaymentStep
<1>1. ASSUME NEW amount \in Amounts, NEW slices \in SlicesUpTo(amount),
             RecordPayment(p, amount, slices)
      PROVE  IInv'
  <2>1. amount \in Nat /\ slices \in [Invoices -> Nat]
    BY LedgerAssumption DEF SlicesUpTo
  <2> QED BY <1>1, <2>1, RecordPaymentKeeps
<1>2. ASSUME NEW pool \in 0..payment[p].unapplied,
             NEW slices \in SlicesUpTo(payment[p].applied),
             RecordRefund(p, pool, slices)
      PROVE  IInv'
  <2>1. pool \in Nat /\ slices \in [Invoices -> Nat]
    BY DEF SlicesUpTo
  <2> QED BY <1>2, <2>1, RecordRefundKeeps
<1> QED BY <1>1, <1>2, ApplyUnappliedKeeps, UnapplyAllocationKeeps

\* Nothing changes while every service is idle.
LEMMA StutterKeeps ==
    ASSUME IInv, UNCHANGED vars
    PROVE  IInv'
BY DEF vars, IInv, TypeOK, FourWaySplit, PaymentLockstep, InvoiceLockstep,
       RefundHistory, StatusMatchesMoney, PaymentStatusDerived, NetOfPayment,
       NetOfInvoice

-----------------------------------------------------------------------------
\* The strengthening is an invariant of the ledger.
THEOREM LedgerInvariant == Spec => []IInv
<1>1. IInv /\ [Next]_vars => IInv'
  BY InvoiceStepKeeps, PaymentStepKeeps, StutterKeeps DEF Next
<1> QED BY <1>1, InitKeeps, PTL DEF Spec

\* Run one at a time, the services keep every column in its type: no applied,
\* unapplied or refunded amount is ever negative.
THEOREM TypesHold == Spec => []TypeOK
BY LedgerInvariant, PTL DEF IInv

\* The derived columns of payments are what their allocations and refund
\* events say: split four ways (payment_service.py:3), every refunded cent
\* explained.
THEOREM PaymentColumnsHold == Spec => []PaymentColumns
BY LedgerInvariant, PTL DEF IInv, PaymentColumns

\* The derived columns of invoices are what the allocations to them say: never
\* more than the total, and a status that does not contradict the money.
THEOREM InvoiceColumnsHold == Spec => []InvoiceColumns
BY LedgerInvariant, PTL DEF IInv, InvoiceColumns

-----------------------------------------------------------------------------
(***************************************************************************)
(* What the ledger promises from one step to the next: a schedule in force *)
(* covers its total, a cancelled invoice stays cancelled, and refunds are  *)
(* never taken back.                                                       *)
(***************************************************************************)

\* What ScheduleCoversTotal says of one invoice.
Covered(row) ==
    row.status \in {"sent", "partial", "paid"} =>
       /\ PlanTotal(row.plan) >= row.total
       /\ ~row.discounted => Balanced(row.plan, row.total)

-----------------------------------------------------------------------------
(***************************************************************************)
(* Schedules                                                               *)
(***************************************************************************)

\* A schedule asks for a natural number of cents.
LEMMA PlanTotalType ==
    ASSUME NEW plan \in Seq(Installment)
    PROVE  PlanTotal(plan) \in Nat /\ IsFiniteSet(DOMAIN plan)
<1> DEFINE f == [k \in DOMAIN plan |-> plan[k].amount]
<1>1. IsFiniteSet(DOMAIN plan)
  <2>1. DOMAIN plan = 1..Len(plan) /\ Len(plan) \in Nat
    OBVIOUS
  <2> QED BY <2>1, FS_Interval
<1>2. CentsFn(f, DOMAIN plan)
  <2>1. \A k \in DOMAIN plan : plan[k] \in Installment
    OBVIOUS
  <2> QED BY <2>1 DEF Installment, CentsFn
<1> HIDE DEF f
<1>3. Total(f, DOMAIN plan) \in Nat
  BY <1>1, <1>2, TotalType
<1> QED BY <1>1, <1>3 DEF PlanTotal, f

\* Stamping and unstamping changes neither the amounts nor their number.
LEMMA RestampedKeeps ==
    ASSUME NEW plan \in Seq(Installment), NEW money
    PROVE  /\ PlanTotal(Restamped(plan, money)) = PlanTotal(plan)
           /\ Len(Restamped(plan, money)) = Len(plan)
<1> DEFINE new == Restamped(plan, money)
           f   == [k \in DOMAIN plan |-> plan[k].amount]
           g   == [k \in DOMAIN new |-> new[k].amount]
<1>1. DOMAIN new = DOMAIN plan /\ DOMAIN plan = 1..Len(plan) /\ Len(plan) \in Nat
  BY DEF Restamped
<1>2. \A k \in DOMAIN plan : new[k].amount = plan[k].amount
  <2> SUFFICES ASSUME NEW k \in DOMAIN plan PROVE new[k].amount = plan[k].amount
    OBVIOUS
  <2>1. plan[k] \in Installment
    OBVIOUS
  <2> QED BY <2>1 DEF Restamped, Installment
<1>3. Len(new) = Len(plan)
  <2>1. new = [k \in 1..Len(plan) |-> new[k]]
    BY <1>1 DEF Restamped
  <2> HIDE DEF new
  <2> QED BY <1>1, <2>1
<1>4. PlanTotal(new) = Total(g, DOMAIN plan) /\ PlanTotal(plan) = Total(f, DOMAIN plan)
  BY <1>1 DEF PlanTotal
<1> HIDE DEF new
<1>5. \A k \in DOMAIN plan : g[k] = f[k]
  BY <1>1, <1>2
<1> HIDE DEF f, g
<1>6. Total(g, DOMAIN plan) = Total(f, DOMAIN plan)
  BY <1>5, TotalSame
<1> QED BY <1>3, <1>4, <1>6 DEF new

\* A late fee raises what the schedule asks for by the fee.
LEMMA FeeAddedTotal ==
    ASSUME NEW plan \in Seq(Installment), NEW k \in DOMAIN plan, NEW fee \in Nat
    PROVE  /\ PlanTotal(FeeAdded(plan, k, fee)) = PlanTotal(plan) + fee
           /\ Len(FeeAdded(plan, k, fee)) = Len(plan)
<1> DEFINE new == FeeAdded(plan, k, fee)
           f   == [j \in DOMAIN plan |-> plan[j].amount]
           g   == [j \in DOMAIN new |-> new[j].amount]
<1>1. DOMAIN new = DOMAIN plan /\ Len(new) = Len(plan)
  BY DEF FeeAdded
<1>2. /\ \A j \in DOMAIN plan : plan[j] \in Installment /\ plan[j].amount \in Nat
      /\ \A j \in DOMAIN plan \ {k} : new[j] = plan[j]
  <2>1. \A j \in DOMAIN plan : plan[j] \in Installment
    OBVIOUS
  <2>2. \A j \in DOMAIN plan : plan[j].amount \in Nat
    BY <2>1 DEF Installment
  <2>3. \A j \in DOMAIN plan \ {k} : new[j] = plan[j]
    BY DEF FeeAdded
  <2> QED BY <2>1, <2>2, <2>3
<1>3. new[k].amount = plan[k].amount + fee
  BY <1>2 DEF FeeAdded, Installment
<1>4. PlanTotal(new) = Total(g, DOMAIN plan) /\ PlanTotal(plan) = Total(f, DOMAIN plan)
  BY <1>1 DEF PlanTotal
<1> HIDE DEF new
<1>5. /\ CentsFn(f, DOMAIN plan) /\ CentsFn(g, DOMAIN plan)
      /\ \A j \in DOMAIN plan \ {k} : g[j] = f[j]
      /\ f[k] = plan[k].amount /\ g[k] = plan[k].amount + fee
  BY <1>1, <1>2, <1>3 DEF CentsFn
<1>6. IsFiniteSet(DOMAIN plan) /\ PlanTotal(plan) \in Nat /\ plan[k].amount \in Nat
  BY <1>2, PlanTotalType
<1> HIDE DEF f, g
<1>7. ASSUME NEW S, S = DOMAIN plan
      PROVE  Total(g, S) = Total(f, S) - f[k] + g[k]
  <2>1. k \in S /\ IsFiniteSet(S) /\ CentsFn(f, S) /\ CentsFn(g, S)
    BY <1>5, <1>6, <1>7
  <2>2. \A j \in S \ {k} : g[j] = f[j]
    BY <1>5, <1>7
  <2> QED BY ONLY <2>1, <2>2, TotalUpdate
<1> QED BY <1>1, <1>4, <1>5, <1>6, <1>7 DEF new

\* A recompute neither puts an invoice in force nor changes what it asks for.
LEMMA RecomputedCovered ==
    ASSUME NEW row \in InvoiceRow, Covered(row), NEW money
    PROVE  Covered(Recomputed(row, money))
<1> DEFINE new == Recomputed(row, money)
<1>1. /\ new.status = DerivedStatus(row.status, row.total, money)
      /\ new.plan = Restamped(row.plan, money)
      /\ new.total = row.total /\ new.discounted = row.discounted
  BY DEF Recomputed, InvoiceRow
<1>2. new.status \in {"sent", "partial", "paid"} =>
         row.status \in {"sent", "partial", "paid"}
  BY <1>1 DEF DerivedStatus, InvoiceRow, InvoiceStatus
<1>3. /\ PlanTotal(new.plan) = PlanTotal(row.plan)
      /\ Len(new.plan) = Len(row.plan)
  BY <1>1, RestampedKeeps DEF InvoiceRow
<1> HIDE DEF new
<1>4. Covered(new)
  BY <1>1, <1>2, <1>3 DEF Covered, Balanced
<1> QED BY <1>4 DEF new

\* A call of payment_service.py recomputes an invoice or leaves it alone.
LEMMA PaymentStepRecomputes ==
    ASSUME PaymentStep, NEW i \in Invoices
    PROVE  \/ invoice'[i] = invoice[i]
           \/ \E money : invoice'[i] = Recomputed(invoice[i], money)
<1>1. \E touched \in SUBSET Invoices : invoice' = InvoicesAfter(alloc', touched)
  BY DEF PaymentStep, RecordPayment, ApplyUnapplied, UnapplyAllocation, RecordRefund
<1> QED BY <1>1 DEF InvoicesAfter

\* A step on an invoice leaves every schedule covering its total.
LEMMA InvoiceStepCovered ==
    ASSUME IInv, ScheduleCoversTotal, InvoiceStep, NEW j \in Invoices
    PROVE  Covered(invoice'[j])
<1>1. \A i \in Invoices : invoice[i] \in InvoiceRow /\ Covered(invoice[i])
  BY DEF IInv, TypeOK, ScheduleCoversTotal, InForce, Covered
<1>2. invoice \in [Invoices -> InvoiceRow]
  BY DEF IInv, TypeOK
<1>3. PICK i \in Invoices :
        \/ \E total \in Totals, plan \in Plans \cup {<<>>}, d \in BOOLEAN :
              CreateInvoice(i, total, plan, d)
        \/ \E total \in Totals \cup {invoice[i].total}, d \in BOOLEAN :
              \/ \E plan \in Plans \cup {<<>>} :
                    UpdateInvoice(i, total, d, TRUE, plan)
              \/ UpdateInvoice(i, total, d, FALSE, <<>>)
        \/ MarkSent(i)
        \/ CancelInvoice(i)
        \/ SoftDeleteInvoice(i)
        \/ \E fee \in Fees : \E line \in 0..fee : AppendLateFee(i, fee, line)
  BY DEF InvoiceStep
<1> DEFINE B(total, plan) == PlanTotal(plan) >= total /\ Balanced(plan, total)
<1>4. ASSUME NEW total \in Totals, NEW plan \in Plans \cup {<<>>}, NEW d \in BOOLEAN,
             CreateInvoice(i, total, plan, d)
      PROVE  Covered(invoice'[j])
  BY <1>1, <1>2, <1>4 DEF CreateInvoice, Covered
<1>5. ASSUME NEW total \in Totals \cup {invoice[i].total}, NEW d \in BOOLEAN,
             NEW replan \in BOOLEAN, NEW plan \in Plans \cup {<<>>},
             UpdateInvoice(i, total, d, replan, plan)
      PROVE  Covered(invoice'[j])
  <2> DEFINE newPlan == IF replan THEN plan ELSE invoice[i].plan
  <2>1. /\ invoice' = [invoice EXCEPT ![i].total = total, ![i].discounted = d,
                                      ![i].plan = newPlan]
        /\ invoice[i].status = "draft" \/ invoice[i].status \in {"sent", "partial"}
        /\ invoice[i].status \in {"sent", "partial"} => Balanced(newPlan, total)
    BY <1>5 DEF UpdateInvoice, EditBalanced
  <2>2. total \in Nat
    BY <1>1, LedgerAssumption DEF InvoiceRow
  <2> HIDE DEF newPlan
  <2>3. /\ invoice'[i].status = invoice[i].status
        /\ invoice'[i].total = total /\ invoice'[i].plan = newPlan
        /\ \A k \in Invoices \ {i} : invoice'[k] = invoice[k]
    BY <1>1, <1>2, <2>1 DEF InvoiceRow
  <2>4. Covered(invoice'[i])
    BY <2>1, <2>2, <2>3 DEF Covered, Balanced
  <2> QED BY <1>1, <2>3, <2>4
<1>6. CASE MarkSent(i)
  <2>1. /\ invoice'[i].total = invoice[i].total /\ invoice'[i].plan = invoice[i].plan
        /\ \A k \in Invoices \ {i} : invoice'[k] = invoice[k]
        /\ Balanced(invoice[i].plan, invoice[i].total)
    BY <1>1, <1>2, <1>6 DEF MarkSent, InvoiceRow
  <2>2. invoice[i].total \in Nat
    BY <1>1 DEF InvoiceRow
  <2>3. Covered(invoice'[i])
    BY <2>1, <2>2 DEF Covered, Balanced
  <2> QED BY <1>1, <2>1, <2>3
<1>7. CASE CancelInvoice(i)
  BY <1>1, <1>2, <1>7 DEF CancelInvoice, Covered, InvoiceRow
<1>8. CASE SoftDeleteInvoice(i)
  BY <1>1, <1>2, <1>8 DEF SoftDeleteInvoice, Covered, InvoiceRow
<1>9. ASSUME NEW fee \in Fees, NEW line \in 0..fee, AppendLateFee(i, fee, line)
      PROVE  Covered(invoice'[j])
  <2>1. PICK k \in DOMAIN invoice[i].plan :
          invoice' = [invoice EXCEPT ![i].total = @ + line,
                                     ![i].plan = FeeAdded(@, k, fee)]
    BY <1>9 DEF AppendLateFee
  <2>2. /\ line = fee \/ invoice[i].discounted
        /\ invoice[i].status \in {"sent", "partial"}
        /\ fee \in Nat /\ line \in Nat /\ line <= fee
    BY <1>9, LedgerAssumption DEF AppendLateFee, FeeLine
  <2>3. /\ invoice'[i].total = invoice[i].total + line
        /\ invoice'[i].plan = FeeAdded(invoice[i].plan, k, fee)
        /\ invoice'[i].discounted = invoice[i].discounted
        /\ \A m \in Invoices \ {i} : invoice'[m] = invoice[m]
    BY <1>1, <1>2, <2>1 DEF InvoiceRow
  <2>4. /\ PlanTotal(invoice'[i].plan) = PlanTotal(invoice[i].plan) + fee
        /\ Len(invoice'[i].plan) = Len(invoice[i].plan)
    BY <1>1, <2>2, <2>3, FeeAddedTotal DEF InvoiceRow
  <2>5. PlanTotal(invoice[i].plan) \in Nat /\ invoice[i].total \in Nat
    BY <1>1, PlanTotalType DEF InvoiceRow
  <2>6. /\ PlanTotal(invoice[i].plan) >= invoice[i].total
        /\ ~invoice[i].discounted => Balanced(invoice[i].plan, invoice[i].total)
    BY <1>1, <2>2 DEF Covered
  <2>7. PlanTotal(invoice'[i].plan) >= invoice'[i].total
    BY <2>2, <2>3, <2>4, <2>5, <2>6
  <2>8. ~invoice[i].discounted => Balanced(invoice'[i].plan, invoice'[i].total)
    BY <2>2, <2>3, <2>4, <2>5, <2>6 DEF Balanced
  <2>9. Covered(invoice'[i])
    BY <2>3, <2>7, <2>8 DEF Covered
  <2> QED BY <1>1, <2>3, <2>9
<1> QED BY <1>3, <1>4, <1>5, <1>6, <1>7, <1>8, <1>9

\* A schedule in force never asks for less than the invoice's total, and only
\* that of a discounted invoice, through a late fee, for more.
THEOREM ScheduleCoversTotalHolds == Spec => []ScheduleCoversTotal
<1>1. Init => ScheduleCoversTotal
  BY DEF Init, NoInvoice, ScheduleCoversTotal, InForce
<1>2. IInv /\ ScheduleCoversTotal /\ [Next]_vars => ScheduleCoversTotal'
  <2> SUFFICES ASSUME IInv, ScheduleCoversTotal, [Next]_vars, NEW j \in Invoices
               PROVE  Covered(invoice'[j])
    BY DEF ScheduleCoversTotal, InForce, Covered
  <2>1. invoice[j] \in InvoiceRow /\ Covered(invoice[j])
    BY DEF IInv, TypeOK, ScheduleCoversTotal, InForce, Covered
  <2>2. CASE InvoiceStep
    BY <2>2, InvoiceStepCovered
  <2>3. CASE PaymentStep
    BY <2>1, <2>3, PaymentStepRecomputes, RecomputedCovered
  <2>4. CASE UNCHANGED vars
    BY <2>1, <2>4 DEF vars
  <2> QED BY <2>2, <2>3, <2>4 DEF Next
<1> QED BY <1>1, <1>2, LedgerInvariant, PTL DEF Spec

-----------------------------------------------------------------------------
(***************************************************************************)
(* Cancelled invoices                                                      *)
(***************************************************************************)

\* A recompute leaves a cancelled invoice cancelled.
LEMMA RecomputedCancelled ==
    ASSUME NEW row \in InvoiceRow, row.status = "cancelled", NEW money
    PROVE  /\ Recomputed(row, money).status = "cancelled"
           /\ Recomputed(row, money).paid = money
BY DEF Recomputed, DerivedStatus, InvoiceRow

\* What CancelledIsFinal asks of a step, when invoice i is cancelled.
StaysCancelled(i) ==
    invoice'[i].status = "cancelled" /\ invoice'[i].paid <= invoice[i].paid

\* A payment call that takes money off a cancelled invoice or leaves it alone
\* keeps it cancelled.
LEMMA ClawBack ==
    ASSUME IInv, IInv', NEW p \in Payments, NEW touched \in SUBSET Invoices,
           NEW i \in Invoices, invoice[i].status = "cancelled",
           invoice' = InvoicesAfter(alloc', touched),
           \A q \in Payments \ {p} : alloc'[q] = alloc[q],
           i \in touched => Net(alloc'[p][i]) <= Net(alloc[p][i])
    PROVE  StaysCancelled(i)
<1>1. /\ AllocOK(alloc) /\ AllocOK(alloc')
      /\ invoice[i] \in InvoiceRow /\ invoice[i].paid = NetOfInvoice(alloc, i)
      /\ invoice[i].paid \in Nat
  BY RowByRow, RowByRowNext DEF InvoiceOK, InvoiceRow
<1>2. CASE i \in touched
  <2>1. invoice'[i] = Recomputed(invoice[i], NetOfInvoice(alloc', i))
    BY <1>2 DEF InvoicesAfter
  <2>2. NetOfInvoice(alloc', i)
          = NetOfInvoice(alloc, i) - Net(alloc[p][i]) + Net(alloc'[p][i])
    BY <1>1, OnePaymentMoves
  <2>3. Net(alloc[p][i]) \in Nat /\ Net(alloc'[p][i]) \in Nat
    BY <1>1, NetTypes
  <2>4. NetOfInvoice(alloc', i) <= invoice[i].paid
    BY <1>1, <1>2, <2>2, <2>3
  <2> QED BY <1>1, <2>1, <2>4, RecomputedCancelled DEF StaysCancelled
<1>3. CASE i \notin touched
  <2>1. invoice'[i] = invoice[i]
    BY <1>3 DEF InvoicesAfter
  <2> QED BY <1>1, <2>1 DEF StaysCancelled
<1> QED BY <1>2, <1>3

\* No step on a payment brings a cancelled invoice back.
LEMMA PaymentStepStaysCancelled ==
    ASSUME IInv, IInv', PaymentStep, NEW i \in Invoices, invoice[i].status = "cancelled"
    PROVE  StaysCancelled(i)
<1>0. /\ alloc \in [Payments -> [Invoices -> AllocationRow]]
      /\ ~Allocatable(i)
  BY DEF IInv, TypeOK, Allocatable
<1>1. ASSUME NEW p \in Payments, NEW amount \in Amounts,
             NEW slices \in SlicesUpTo(amount), RecordPayment(p, amount, slices)
      PROVE  StaysCancelled(i)
  <2> DEFINE listed == {j \in Invoices : slices[j] > 0}
  <2>1. /\ invoice' = InvoicesAfter(alloc', listed)
        /\ \A q \in Payments \ {p} : alloc'[q] = alloc[q]
        /\ i \notin listed
    BY <1>0, <1>1 DEF RecordPayment
  <2> HIDE DEF listed
  <2> QED BY <2>1, ClawBack DEF listed
<1>2. ASSUME NEW p \in Payments, NEW j \in Invoices, NEW cents \in Nat,
             ApplyUnapplied(p, j, cents)
      PROVE  StaysCancelled(i)
  <2>1. /\ invoice' = InvoicesAfter(alloc', {j})
        /\ \A q \in Payments \ {p} : alloc'[q] = alloc[q]
        /\ i \notin {j}
    BY <1>0, <1>2 DEF ApplyUnapplied
  <2> QED BY <2>1, ClawBack
<1>3. ASSUME NEW p \in Payments, NEW j \in Invoices, UnapplyAllocation(p, j)
      PROVE  StaysCancelled(i)
  <2>1. /\ invoice' = InvoicesAfter(alloc', {j})
        /\ \A q \in Payments \ {p} : alloc'[q] = alloc[q]
        /\ alloc'[p][j] = NoAllocation
    BY <1>0, <1>3 DEF UnapplyAllocation
  <2>2. Net(alloc[p][j]) \in Nat
    BY RowByRow, NetTypes
  <2>3. i \in {j} => Net(alloc'[p][i]) <= Net(alloc[p][i])
    BY <2>1, <2>2 DEF Net, NoAllocation
  <2> QED BY <2>1, <2>3, ClawBack
<1>4. ASSUME NEW p \in Payments, NEW pool \in Nat,
             NEW slices \in [Invoices -> Nat], RecordRefund(p, pool, slices)
      PROVE  StaysCancelled(i)
  <2> DEFINE listed == {j \in Invoices : slices[j] > 0}
  <2>1. /\ invoice' = InvoicesAfter(alloc', listed)
        /\ \A q \in Payments \ {p} : alloc'[q] = alloc[q]
        /\ alloc'[p][i] = [applied  |-> alloc[p][i].applied,
                           refunded |-> alloc[p][i].refunded + slices[i]]
    BY <1>0, <1>4 DEF RecordRefund
  <2>2. alloc[p][i].applied \in Nat /\ alloc[p][i].refunded \in Nat /\ slices[i] \in Nat
    BY <1>0 DEF AllocationRow
  <2>3. Net(alloc'[p][i]) <= Net(alloc[p][i])
    BY <2>1, <2>2 DEF Net
  <2> HIDE DEF listed
  <2> QED BY <2>1, <2>3, ClawBack DEF listed
<1>6. \A p \in Payments : /\ SlicesUpTo(payment[p].applied) \subseteq [Invoices -> Nat]
                          /\ 0..payment[p].unapplied \subseteq Nat
                          /\ 1..payment[p].unapplied \subseteq Nat
  BY DEF SlicesUpTo
<1> QED BY <1>1, <1>2, <1>3, <1>4, <1>6 DEF PaymentStep

\* The step rewrites at most invoice i, which is not cancelled.
TouchesOnly(i) ==
    /\ invoice[i].status # "cancelled"
    /\ \A k \in Invoices \ {i} : invoice'[k] = invoice[k]

\* A call of invoice_service.py rewrites one invoice.
LEMMA InvoiceStepTouchesOne ==
    ASSUME IInv, InvoiceStep
    PROVE  \E i \in Invoices : TouchesOnly(i)
<1>0. invoice \in [Invoices -> InvoiceRow]
  BY DEF IInv, TypeOK
<1>1. PICK i \in Invoices :
        \/ \E total \in Totals, plan \in Plans \cup {<<>>}, d \in BOOLEAN :
              CreateInvoice(i, total, plan, d)
        \/ \E total \in Totals \cup {invoice[i].total}, d \in BOOLEAN :
              \/ \E plan \in Plans \cup {<<>>} :
                    UpdateInvoice(i, total, d, TRUE, plan)
              \/ UpdateInvoice(i, total, d, FALSE, <<>>)
        \/ MarkSent(i)
        \/ CancelInvoice(i)
        \/ SoftDeleteInvoice(i)
        \/ \E fee \in Fees : \E line \in 0..fee : AppendLateFee(i, fee, line)
  BY DEF InvoiceStep
<1>2. ASSUME NEW total, NEW plan, NEW d, CreateInvoice(i, total, plan, d)
      PROVE  TouchesOnly(i)
  BY <1>0, <1>2 DEF CreateInvoice, TouchesOnly
<1>3. ASSUME NEW total, NEW d, NEW replan \in BOOLEAN, NEW plan,
             UpdateInvoice(i, total, d, replan, plan)
      PROVE  TouchesOnly(i)
  <2>1. invoice[i].status \in {"draft", "sent", "partial"}
    BY <1>3 DEF UpdateInvoice
  <2>2. \E row : invoice' = [invoice EXCEPT ![i] = row]
    BY <1>3 DEF UpdateInvoice
  <2> QED BY <1>0, <2>1, <2>2 DEF TouchesOnly
<1>4. ASSUME NEW fee, NEW line, AppendLateFee(i, fee, line)
      PROVE  TouchesOnly(i)
  <2>1. invoice[i].status \in {"sent", "partial"}
    BY <1>4 DEF AppendLateFee
  <2>2. \E row : invoice' = [invoice EXCEPT ![i] = row]
    BY <1>4 DEF AppendLateFee
  <2> QED BY <1>0, <2>1, <2>2 DEF TouchesOnly
<1>5. CASE MarkSent(i)
  BY <1>0, <1>5 DEF MarkSent, TouchesOnly
<1>6. CASE CancelInvoice(i)
  BY <1>0, <1>6 DEF CancelInvoice, TouchesOnly
<1>7. CASE SoftDeleteInvoice(i)
  BY <1>0, <1>7 DEF SoftDeleteInvoice, TouchesOnly
<1> QED BY <1>1, <1>2, <1>3, <1>4, <1>5, <1>6, <1>7

\* Run one at a time, no call revives a cancelled invoice or puts money on it.
THEOREM CancelledIsFinalHolds == Spec => CancelledIsFinal
<1>1. IInv /\ IInv' /\ [Next]_vars =>
        [\A i \in Invoices :
           invoice[i].status = "cancelled" =>
              /\ invoice'[i].status = "cancelled"
              /\ invoice'[i].paid <= invoice[i].paid]_vars
  <2> SUFFICES ASSUME IInv, IInv', Next, NEW i \in Invoices,
                      invoice[i].status = "cancelled"
               PROVE  StaysCancelled(i)
    BY DEF StaysCancelled
  <2>1. invoice \in [Invoices -> InvoiceRow]
    BY DEF IInv, TypeOK
  <2>2. CASE InvoiceStep
    <3>1. invoice'[i] = invoice[i]
      <4>1. PICK j \in Invoices :
              /\ invoice[j].status # "cancelled"
              /\ \A k \in Invoices \ {j} : invoice'[k] = invoice[k]
        BY <2>2, InvoiceStepTouchesOne DEF TouchesOnly
      <4> QED BY <4>1
    <3>2. invoice[i].paid \in Nat
      BY <2>1 DEF InvoiceRow
    <3> QED BY <3>1, <3>2 DEF StaysCancelled
  <2>3. CASE PaymentStep
    BY <2>3, PaymentStepStaysCancelled
  <2> QED BY <2>2, <2>3 DEF Next
<1> QED BY <1>1, LedgerInvariant, PTL DEF Spec, CancelledIsFinal

-----------------------------------------------------------------------------
(***************************************************************************)
(* Refunds                                                                 *)
(***************************************************************************)

\* What RefundsAreForever asks of a step, for payment p.
RefundsKept(p) ==
    /\ payment[p].refunded <= payment'[p].refunded
    /\ \A i \in Invoices : alloc[p][i].refunded <= alloc'[p][i].refunded
    /\ payment[p].status = "refunded" => payment'[p] = payment[p]

\* Every cent of a fully refunded payment is gone: it has no live allocation.
LEMMA RefundedHasNothingLeft ==
    ASSUME IInv, NEW p \in Payments, NEW i \in Invoices,
           payment[p].status = "refunded"
    PROVE  Net(alloc[p][i]) = 0
<1>1. /\ AllocOK(alloc) /\ PaymentOK(payment[p], NetOfPayment(alloc, p))
  BY RowByRow
<1>2. /\ payment[p].amount = payment[p].applied + payment[p].refunded
                                                + payment[p].unapplied
      /\ payment[p].applied = NetOfPayment(alloc, p)
      /\ payment[p].applied \in Nat /\ payment[p].refunded \in Nat
      /\ payment[p].unapplied \in Nat /\ payment[p].amount \in Nat
      /\ payment[p].refunded >= payment[p].amount
  BY <1>1 DEF PaymentOK, PaymentRow, RefundStatus
<1>3. NetOfPayment(alloc, p) = 0
  BY <1>2
<1>4. Net(alloc[p][i]) \in Nat /\ Net(alloc[p][i]) <= NetOfPayment(alloc, p)
  BY <1>1, NetTypes
<1> QED BY <1>3, <1>4

\* Payments a call does not name keep everything.
LEMMA OthersKept ==
    ASSUME IInv, NEW p \in Payments, payment'[p] = payment[p], alloc'[p] = alloc[p]
    PROVE  RefundsKept(p)
<1>1. /\ payment[p].refunded \in Nat
      /\ \A i \in Invoices : alloc[p][i].refunded \in Nat
  BY DEF IInv, TypeOK, PaymentRow, AllocationRow
<1> QED BY <1>1 DEF RefundsKept

\* A step on a payment never takes a refund back.
LEMMA PaymentStepKeepsRefunds ==
    ASSUME IInv, PaymentStep, NEW q \in Payments
    PROVE  RefundsKept(q)
<1>0. /\ alloc \in [Payments -> [Invoices -> AllocationRow]]
      /\ payment \in [Payments -> PaymentRow]
      /\ payment[q].refunded \in Nat
      /\ \A i \in Invoices : alloc[q][i].applied \in Nat /\ alloc[q][i].refunded \in Nat
  BY DEF IInv, TypeOK, PaymentRow, AllocationRow
<1>1. ASSUME NEW p \in Payments, NEW amount \in Nat, NEW slices \in [Invoices -> Nat],
             RecordPayment(p, amount, slices)
      PROVE  RefundsKept(q)
  <2>1. CASE q # p
    BY <1>0, <1>1, <2>1, OthersKept DEF RecordPayment
  <2>2. CASE q = p
    <3>1. payment[q].status = "none"
      BY <1>1, <2>2 DEF RecordPayment
    <3>2. /\ payment[q].refunded = 0
          /\ \A i \in Invoices : refundLog[q].slices[i] = 0
      BY <3>1, UnrecordedIsEmpty
    <3>3. \A i \in Invoices : alloc[q][i].refunded = 0
      BY <3>2 DEF IInv, RefundHistory
    <3>4. /\ payment'[q].refunded = 0
          /\ \A i \in Invoices : alloc'[q][i].refunded = 0
      BY <1>0, <1>1, <2>2 DEF RecordPayment
    <3> QED BY <3>1, <3>2, <3>3, <3>4 DEF RefundsKept
  <2> QED BY <2>1, <2>2
<1>2. ASSUME NEW p \in Payments, NEW j \in Invoices, NEW cents \in Nat,
             ApplyUnapplied(p, j, cents)
      PROVE  RefundsKept(q)
  <2>1. CASE q # p
    BY <1>0, <1>2, <2>1, OthersKept DEF ApplyUnapplied
  <2>2. CASE q = p
    <3>1. payment[q].status # "refunded"
      BY <1>2, <2>2 DEF ApplyUnapplied, Spendable
    <3>2. payment'[q] = Reapplied(payment[q], NetOfPayment(alloc', q))
      BY <1>0, <1>2, <2>2 DEF ApplyUnapplied
    <3>3. payment'[q].refunded = payment[q].refunded
      BY <1>0, <3>2 DEF Reapplied, PaymentRow
    <3>4. \A i \in Invoices : alloc'[q][i].refunded = alloc[q][i].refunded
      <4>1. alloc[q][j] \in AllocationRow /\ alloc[q] \in [Invoices -> AllocationRow]
        BY <1>0
      <4>2. alloc'[q] = [alloc[q] EXCEPT ![j].applied = @ + cents]
        BY <1>0, <1>2, <2>2 DEF ApplyUnapplied
      <4> QED BY <4>1, <4>2 DEF AllocationRow
    <3> QED BY <1>0, <3>1, <3>3, <3>4 DEF RefundsKept
  <2> QED BY <2>1, <2>2
<1>3. ASSUME NEW p \in Payments, NEW j \in Invoices, UnapplyAllocation(p, j)
      PROVE  RefundsKept(q)
  <2>1. CASE q # p
    BY <1>0, <1>3, <2>1, OthersKept DEF UnapplyAllocation
  <2>2. CASE q = p
    <3>1. alloc[q][j].applied > 0 /\ alloc[q][j].refunded = 0
      BY <1>3, <2>2 DEF UnapplyAllocation
    <3>2. payment[q].status # "refunded"
      BY <1>0, <3>1, RefundedHasNothingLeft DEF Net
    <3>3. payment'[q] = Reapplied(payment[q], NetOfPayment(alloc', q))
      BY <1>0, <1>3, <2>2 DEF UnapplyAllocation
    <3>4. payment'[q].refunded = payment[q].refunded
      BY <1>0, <3>3 DEF Reapplied, PaymentRow
    <3>5. \A i \in Invoices : alloc'[q][i].refunded = alloc[q][i].refunded
      BY <1>0, <1>3, <2>2, <3>1 DEF UnapplyAllocation, NoAllocation
    <3> QED BY <1>0, <3>2, <3>4, <3>5 DEF RefundsKept
  <2> QED BY <2>1, <2>2
<1>4. ASSUME NEW p \in Payments, NEW pool \in Nat,
             NEW slices \in [Invoices -> Nat], RecordRefund(p, pool, slices)
      PROVE  RefundsKept(q)
  <2>1. CASE q # p
    BY <1>0, <1>4, <2>1, OthersKept DEF RecordRefund
  <2>2. CASE q = p
    <3>1. payment[q].status # "refunded"
      BY <1>4, <2>2 DEF RecordRefund, Spendable
    <3>2. \A i \in Invoices : alloc'[q][i].refunded = alloc[q][i].refunded + slices[i]
      BY <1>0, <1>4, <2>2 DEF RecordRefund
    <3>3. Total(slices, Invoices) \in Nat
      BY SlicesType
    <3>4. payment'[q].refunded = payment[q].refunded + (pool + Total(slices, Invoices))
      BY <1>0, <1>4, <2>2 DEF RecordRefund, PaymentRow
    <3> QED BY <1>0, <3>1, <3>2, <3>3, <3>4 DEF RefundsKept
  <2> QED BY <2>1, <2>2
<1>5. /\ Amounts \subseteq Nat
      /\ \A amount \in Amounts : SlicesUpTo(amount) \subseteq [Invoices -> Nat]
      /\ \A p \in Payments : /\ SlicesUpTo(payment[p].applied) \subseteq [Invoices -> Nat]
                             /\ 0..payment[p].unapplied \subseteq Nat
                             /\ 1..payment[p].unapplied \subseteq Nat
  BY LedgerAssumption DEF SlicesUpTo
<1> QED BY <1>1, <1>2, <1>3, <1>4, <1>5 DEF PaymentStep

\* The invoice service moves no money: payments and allocations stay as they are.
LEMMA InvoiceStepMovesNoMoney ==
    ASSUME InvoiceStep
    PROVE  payment' = payment /\ alloc' = alloc
<1>1. \A i, total, plan, d :
        CreateInvoice(i, total, plan, d) => UNCHANGED <<payment, alloc>>
  BY DEF CreateInvoice
<1>2. \A i, total, d, replan, plan :
        UpdateInvoice(i, total, d, replan, plan) => UNCHANGED <<payment, alloc>>
  BY DEF UpdateInvoice
<1>3. \A i : MarkSent(i) => UNCHANGED <<payment, alloc>>
  BY DEF MarkSent
<1>4. \A i : CancelInvoice(i) => UNCHANGED <<payment, alloc>>
  BY DEF CancelInvoice
<1>5. \A i : SoftDeleteInvoice(i) => UNCHANGED <<payment, alloc>>
  BY DEF SoftDeleteInvoice
<1>6. \A i, fee, line : AppendLateFee(i, fee, line) => UNCHANGED <<payment, alloc>>
  BY DEF AppendLateFee
<1> QED BY <1>1, <1>2, <1>3, <1>4, <1>5, <1>6 DEF InvoiceStep

\* Run one at a time, no call takes a refund back or touches a payment that
\* was refunded in full.
THEOREM RefundsAreForeverHolds == Spec => RefundsAreForever
<1>1. IInv /\ [Next]_vars =>
        [\A p \in Payments :
           /\ payment[p].refunded <= payment'[p].refunded
           /\ \A i \in Invoices : alloc[p][i].refunded <= alloc'[p][i].refunded
           /\ payment[p].status = "refunded" => payment'[p] = payment[p]]_vars
  <2> SUFFICES ASSUME IInv, Next, NEW p \in Payments
               PROVE  RefundsKept(p)
    BY DEF RefundsKept
  <2>1. CASE InvoiceStep
    <3> QED BY <2>1, InvoiceStepMovesNoMoney, OthersKept
  <2>2. CASE PaymentStep
    BY <2>2, PaymentStepKeepsRefunds
  <2> QED BY <2>1, <2>2 DEF Next
<1> QED BY <1>1, LedgerInvariant, PTL DEF Spec, RefundsAreForever

-----------------------------------------------------------------------------
(***************************************************************************)
(* Stamps                                                                  *)
(***************************************************************************)

\* The cents each installment asks for.
AsksFor(plan) == [k \in DOMAIN plan |-> plan[k].amount]

\* What StampsTrustworthy says of one invoice.  A schedule has three rows at
\* most (_validate_schedule), so one of its stamped rows falls due last.
StampedRight(row) ==
    /\ Len(row.plan) <= 3
    /\ Total(AsksFor(row.plan), StampedRows(row.plan)) <= row.paid
    /\ row.status = "paid" /\ Balanced(row.plan, row.total) =>
          StampedRows(row.plan) = DOMAIN row.plan

\* Fewer rows hold no more cents.
LEMMA TotalSubset ==
    ASSUME NEW T, IsFiniteSet(T), NEW f, CentsFn(f, T), NEW S \in SUBSET T
    PROVE  Total(f, S) \in Nat /\ Total(f, S) <= Total(f, T)
<1>1. CentsOf(f, S) \subseteq CentsOf(f, T)
  BY DEF CentsOf
<1>2. IsFiniteSet(CentsOf(f, T)) /\ Total(f, T) \in Nat
  BY TotalType
<1>3. IsFiniteSet(S) /\ CentsFn(f, S)
  BY FS_Subset DEF CentsFn
<1>4. Total(f, S) \in Nat
  BY <1>3, TotalType
<1>5. Cardinality(CentsOf(f, S)) <= Cardinality(CentsOf(f, T))
  BY <1>1, <1>2, FS_Subset
<1> QED BY <1>4, <1>5 DEF Total

\* The rows of a schedule and what they ask for.
LEMMA PlanRows ==
    ASSUME NEW plan \in Seq(Installment)
    PROVE  /\ IsFiniteSet(DOMAIN plan) /\ CentsFn(AsksFor(plan), DOMAIN plan)
           /\ PlanTotal(plan) = Total(AsksFor(plan), DOMAIN plan)
           /\ \A k \in DOMAIN plan : plan[k] \in Installment
<1>1. \A k \in DOMAIN plan : plan[k] \in Installment
  OBVIOUS
<1>2. CentsFn(AsksFor(plan), DOMAIN plan)
  BY <1>1 DEF CentsFn, AsksFor, Installment
<1> QED BY <1>1, <1>2, PlanTotalType DEF PlanTotal, AsksFor

\* Of a few rows one falls due last.
LEMMA OneFallsDueLast ==
    ASSUME NEW plan \in Seq(Installment), Len(plan) <= 3,
           NEW S \in SUBSET DOMAIN plan, S # {}
    PROVE  \E k \in S : S \subseteq DueThrough(plan, k)
<1> DEFINE L(j, k) == plan[j].due < plan[k].due \/ (plan[j].due = plan[k].due /\ j <= k)
<1>1. \A k \in DOMAIN plan : plan[k].due \in Nat /\ k \in 1..3
  <2>1. DOMAIN plan = 1..Len(plan) /\ Len(plan) \in Nat
    OBVIOUS
  <2> QED BY <2>1, PlanRows DEF Installment
<1>2. \A j, k \in S : L(j, k) \/ L(k, j)
  BY <1>1
<1>3. \A i, j, k \in S : L(i, j) /\ L(j, k) => L(i, k)
  BY <1>1
<1>4. \A k \in S : L(k, k) /\ k \in {1, 2, 3}
  BY <1>1
<1> HIDE DEF L
<1>5. \E k \in S : \A j \in S : L(j, k)
  <2>1. CASE 1 \notin S /\ 2 \notin S
    BY <1>4, <2>1
  <2>2. CASE 1 \notin S /\ 3 \notin S
    BY <1>4, <2>2
  <2>3. CASE 2 \notin S /\ 3 \notin S
    BY <1>4, <2>3
  <2>4. CASE 1 \in S /\ 2 \in S /\ 3 \notin S
    <3>1. S = {1, 2} /\ L(1, 1) /\ L(2, 2) /\ (L(1, 2) \/ L(2, 1))
      BY <1>2, <1>4, <2>4
    <3> QED BY <3>1
  <2>5. CASE 1 \in S /\ 3 \in S /\ 2 \notin S
    BY <1>2, <1>4, <2>5
  <2>6. CASE 2 \in S /\ 3 \in S /\ 1 \notin S
    BY <1>2, <1>4, <2>6
  <2>7. CASE 1 \in S /\ 2 \in S /\ 3 \in S
    <3>1. PICK k \in {1, 2} : L(1, k) /\ L(2, k)
      BY <1>2, <1>4, <2>7
    <3>2. CASE L(3, k)
      BY <1>4, <2>7, <3>1, <3>2
    <3>3. CASE L(k, 3)
      <4>1. L(1, 3) /\ L(2, 3)
        BY <1>3, <2>7, <3>1, <3>3
      <4> QED BY <1>4, <2>7, <4>1
    <3> QED BY <1>2, <2>7, <3>1, <3>2, <3>3
  <2>8. 1 \in S \/ 2 \in S \/ 3 \in S
    BY <1>4
  <2> QED BY <2>1, <2>2, <2>3, <2>4, <2>5, <2>6, <2>7, <2>8
<1> QED BY <1>5 DEF DueThrough, L

\* The walk stamps rows the money covers, and all of them if it covers all.
LEMMA RestampedRight ==
    ASSUME NEW plan \in Seq(Installment), Len(plan) <= 3, NEW money \in Nat
    PROVE  LET new == Restamped(plan, money)
           IN  /\ Total(AsksFor(new), StampedRows(new)) <= money
               /\ money > 0 /\ PlanTotal(plan) <= money => StampedRows(new) = DOMAIN new
<1> DEFINE new == Restamped(plan, money)
           S == StampedRows(new)
           reached(k) == money > 0 /\ Total(AsksFor(plan), DueThrough(plan, k)) <= money
<1>1. /\ DOMAIN new = DOMAIN plan
      /\ \A k \in DOMAIN plan : new[k].amount = plan[k].amount /\ new[k].stamped = reached(k)
  BY PlanRows DEF Restamped, Installment, AsksFor
<1>2. S = {k \in DOMAIN plan : reached(k)}
  BY <1>1 DEF StampedRows
<1>3. Total(AsksFor(new), S) = Total(AsksFor(plan), S)
  <2>1. \A k \in S : AsksFor(new)[k] = AsksFor(plan)[k]
    BY <1>1, <1>2 DEF AsksFor
  <2> HIDE DEF new, S
  <2> QED BY <2>1, TotalSame
<1> HIDE DEF new, S
<1>4. Total(AsksFor(plan), S) <= money
  <2>1. CASE S = {}
    <3>1. Total(AsksFor(plan), S) = 0
      BY <2>1, TotalZero
    <3> QED BY <3>1
  <2>2. CASE S # {}
    <3>1. PICK k \in S : S \subseteq DueThrough(plan, k)
      BY <1>2, <2>2, OneFallsDueLast
    <3>2. DueThrough(plan, k) \subseteq DOMAIN plan
      BY DEF DueThrough
    <3>3. /\ IsFiniteSet(DueThrough(plan, k))
          /\ CentsFn(AsksFor(plan), DueThrough(plan, k))
      BY <3>2, PlanRows, FS_Subset DEF CentsFn
    <3>4. /\ Total(AsksFor(plan), S) \in Nat
          /\ Total(AsksFor(plan), S) <= Total(AsksFor(plan), DueThrough(plan, k))
      BY <3>1, <3>3, TotalSubset
    <3>5. /\ Total(AsksFor(plan), DueThrough(plan, k)) <= money
          /\ Total(AsksFor(plan), DueThrough(plan, k)) \in Nat
      BY <1>2, <3>3, TotalType
    <3> QED BY <3>4, <3>5
  <2> QED BY <2>1, <2>2
<1>5. ASSUME money > 0, PlanTotal(plan) <= money PROVE S = DOMAIN new
  <2>1. ASSUME NEW k \in DOMAIN plan PROVE reached(k)
    <3>1. DueThrough(plan, k) \subseteq DOMAIN plan
      BY DEF DueThrough
    <3>2. /\ Total(AsksFor(plan), DueThrough(plan, k)) \in Nat
          /\ Total(AsksFor(plan), DueThrough(plan, k)) <= PlanTotal(plan)
      BY <3>1, PlanRows, TotalSubset
    <3> QED BY <1>5, <3>2, PlanTotalType
  <2> QED BY <1>1, <1>2, <2>1
<1> QED BY <1>3, <1>4, <1>5 DEF new, S

\* So a recompute leaves the stamps right, whatever they were.
LEMMA RecomputedStamps ==
    ASSUME NEW row \in InvoiceRow, Len(row.plan) <= 3, row.status # "paid" \/ row.total > 0,
           NEW money \in Nat
    PROVE  StampedRight(Recomputed(row, money))
<1> DEFINE new == Recomputed(row, money)
<1>1. /\ new.status = DerivedStatus(row.status, row.total, money)
      /\ new.plan = Restamped(row.plan, money)
      /\ new.total = row.total /\ new.paid = money
      /\ row.plan \in Seq(Installment) /\ row.total \in Nat
  BY DEF Recomputed, InvoiceRow
<1>2. new.status = "paid" => row.total > 0 /\ money >= row.total
  BY <1>1 DEF DerivedStatus
<1> HIDE DEF new
<1>3. /\ PlanTotal(new.plan) = PlanTotal(row.plan) /\ Len(new.plan) = Len(row.plan)
  BY <1>1, RestampedKeeps
<1>4. new.status = "paid" /\ Balanced(new.plan, new.total) =>
         money > 0 /\ PlanTotal(row.plan) <= money
  BY <1>1, <1>2, <1>3 DEF Balanced
<1>5. StampedRight(new)
  BY <1>1, <1>3, <1>4, RestampedRight DEF StampedRight
<1> QED BY <1>5 DEF new

\* A schedule without stamps, as staff enter it, is stamped right.
LEMMA UnstampedRight ==
    ASSUME NEW plan \in Plans \cup {<<>>}
    PROVE  StampedRows(plan) = {} /\ Total(AsksFor(plan), StampedRows(plan)) = 0
<1>1. StampedRows(plan) = {}
  BY LedgerAssumption DEF StampedRows
<1> QED BY <1>1, TotalZero

\* A step on an invoice leaves every stamp on a status that earned it.
LEMMA InvoiceStepStamps ==
    ASSUME IInv, \A i \in Invoices : StampedRight(invoice[i]), InvoiceStep,
           NEW j \in Invoices
    PROVE  StampedRight(invoice'[j])
<1>1. /\ invoice \in [Invoices -> InvoiceRow]
      /\ \A i \in Invoices : /\ invoice[i] \in InvoiceRow /\ StampedRight(invoice[i])
                             /\ invoice[i].paid \in Nat /\ invoice[i].total \in Nat
  BY DEF IInv, TypeOK, InvoiceRow
<1>2. PICK i \in Invoices :
        \/ \E total \in Totals, plan \in Plans \cup {<<>>}, d \in BOOLEAN :
              CreateInvoice(i, total, plan, d)
        \/ \E total \in Totals \cup {invoice[i].total}, d \in BOOLEAN :
              \/ \E plan \in Plans \cup {<<>>} :
                    UpdateInvoice(i, total, d, TRUE, plan)
              \/ UpdateInvoice(i, total, d, FALSE, <<>>)
        \/ MarkSent(i)
        \/ CancelInvoice(i)
        \/ SoftDeleteInvoice(i)
        \/ \E fee \in Fees : \E line \in 0..fee : AppendLateFee(i, fee, line)
  BY DEF InvoiceStep
<1>3. ASSUME NEW total \in Totals, NEW plan \in Plans \cup {<<>>}, NEW d \in BOOLEAN,
             CreateInvoice(i, total, plan, d)
      PROVE  StampedRight(invoice'[j])
  <2>1. /\ invoice'[i].status = "draft" /\ invoice'[i].paid = 0 /\ invoice'[i].plan = plan
        /\ plan = <<>> \/ Len(plan) \in 1..3
        /\ \A k \in Invoices \ {i} : invoice'[k] = invoice[k]
    BY <1>1, <1>3 DEF CreateInvoice, Balanced
  <2>2. Len(plan) <= 3
    <3>1. Len(<<>>) <= 3
      OBVIOUS
    <3>2. \A n \in 1..3 : n <= 3
      OBVIOUS
    <3> QED BY <2>1, <3>1, <3>2, Zenon
  <2>3. StampedRight(invoice'[i])
    BY <2>1, <2>2, UnstampedRight DEF StampedRight
  <2> QED BY <1>1, <2>1, <2>3
<1>4. ASSUME NEW total, NEW d, NEW plan \in Plans \cup {<<>>}, NEW replan \in BOOLEAN,
             UpdateInvoice(i, total, d, replan, plan)
      PROVE  StampedRight(invoice'[j])
  <2>1. /\ invoice'[i].status # "paid" /\ invoice'[i].paid = invoice[i].paid
        /\ invoice'[i].plan = IF replan THEN plan ELSE invoice[i].plan
        /\ replan => Len(plan) <= 3
        /\ \A k \in Invoices \ {i} : invoice'[k] = invoice[k]
    BY <1>1, <1>4 DEF UpdateInvoice, InvoiceRow
  <2>2. StampedRight(invoice'[i])
    BY <1>1, <2>1, UnstampedRight DEF StampedRight
  <2> QED BY <1>1, <2>1, <2>2
<1>5. CASE MarkSent(i) \/ CancelInvoice(i) \/ SoftDeleteInvoice(i)
  <2>1. /\ invoice'[i].status # "paid" /\ invoice'[i].paid = invoice[i].paid
        /\ invoice'[i].plan = invoice[i].plan
        /\ \A k \in Invoices \ {i} : invoice'[k] = invoice[k]
    BY <1>1, <1>5 DEF MarkSent, CancelInvoice, SoftDeleteInvoice, InvoiceRow
  <2>2. StampedRight(invoice'[i])
    BY <1>1, <2>1 DEF StampedRight
  <2> QED BY <1>1, <2>1, <2>2
<1>6. ASSUME NEW fee \in Fees, NEW line \in 0..fee, AppendLateFee(i, fee, line)
      PROVE  StampedRight(invoice'[j])
  <2> DEFINE old == invoice[i].plan
             new == invoice'[i].plan
  <2>1. PICK k \in DOMAIN old :
          /\ ~old[k].stamped
          /\ invoice' = [invoice EXCEPT ![i].total = @ + line,
                                        ![i].plan = FeeAdded(@, k, fee)]
    BY <1>6 DEF AppendLateFee
  <2>2. /\ invoice'[i].status # "paid" /\ invoice'[i].paid = invoice[i].paid
        /\ new = FeeAdded(old, k, fee)
        /\ \A m \in Invoices \ {i} : invoice'[m] = invoice[m]
    BY <1>1, <1>6, <2>1 DEF AppendLateFee, InvoiceRow
  <2>3. old \in Seq(Installment) /\ fee \in Nat
    BY <1>1, LedgerAssumption DEF InvoiceRow
  <2>4. /\ DOMAIN new = DOMAIN old /\ new[k].stamped = old[k].stamped
        /\ \A m \in DOMAIN old \ {k} : new[m] = old[m]
    BY <2>2, <2>3, PlanRows DEF FeeAdded, Installment
  <2>5. StampedRows(new) = StampedRows(old)
    BY <2>1, <2>4 DEF StampedRows
  <2>6. Len(new) = Len(old)
    BY <2>2, <2>3, FeeAddedTotal
  <2>7. Total(AsksFor(new), StampedRows(new)) = Total(AsksFor(old), StampedRows(old))
    <3> HIDE DEF old, new
    <3>0. \A m \in StampedRows(old) : m \in DOMAIN old /\ m # k
      BY <2>1 DEF StampedRows
    <3>1. \A m \in StampedRows(old) : AsksFor(new)[m] = AsksFor(old)[m]
      BY <2>4, <3>0 DEF AsksFor
    <3> QED BY <2>5, <3>1, TotalSame
  <2>8. StampedRight(invoice'[i])
    BY <1>1, <2>2, <2>6, <2>7 DEF StampedRight
  <2> QED BY <1>1, <2>2, <2>8
<1> QED BY <1>2, <1>3, <1>4, <1>5, <1>6

\* In every reachable state the stamps say what the money says.
THEOREM StampsTrustworthyHolds == Spec => []StampsTrustworthy
<1> DEFINE Right == \A i \in Invoices : StampedRight(invoice[i])
<1>1. Init => Right
  <2>1. StampedRight(NoInvoice)
    <3>1. StampedRows(<<>>) = {} /\ Total(AsksFor(<<>>), {}) = 0 /\ Len(<<>>) = 0
      BY TotalZero DEF StampedRows
    <3>2. NoInvoice.plan = <<>> /\ NoInvoice.paid = 0 /\ NoInvoice.status = "none"
      BY DEF NoInvoice
    <3>3. Len(NoInvoice.plan) = 0
      BY <3>1, <3>2, Zenon
    <3>4. Total(AsksFor(NoInvoice.plan), StampedRows(NoInvoice.plan)) = 0
      BY <3>1, <3>2, Zenon
    <3> QED BY <3>2, <3>3, <3>4 DEF StampedRight
  <2> QED BY <2>1 DEF Init
<1>2. IInv /\ IInv' /\ Right /\ [Next]_vars => Right'
  <2> SUFFICES ASSUME IInv, IInv', Right, [Next]_vars, NEW j \in Invoices
               PROVE  StampedRight(invoice'[j])
    OBVIOUS
  <2>1. /\ invoice[j] \in InvoiceRow /\ StampedRight(invoice[j])
        /\ invoice[j].status = "paid" => invoice[j].total > 0
    BY RowByRow DEF InvoiceOK
  <2>2. CASE InvoiceStep
    BY <2>2, InvoiceStepStamps
  <2>3. CASE PaymentStep
    <3>1. CASE invoice'[j] = invoice[j]
      BY <2>1, <3>1
    <3>2. ASSUME NEW money, invoice'[j] = Recomputed(invoice[j], money)
          PROVE  StampedRight(invoice'[j])
      <4>1. invoice'[j].paid = money
        BY <2>1, <3>2 DEF Recomputed, InvoiceRow
      <4>2. money \in Nat
        BY <4>1, RowByRowNext DEF InvoiceOK, InvoiceRow
      <4> QED BY <2>1, <3>2, <4>2, RecomputedStamps DEF StampedRight
    <3> QED BY <2>3, <3>1, <3>2, PaymentStepRecomputes
  <2>4. CASE UNCHANGED vars
    BY <2>1, <2>4 DEF vars
  <2> QED BY <2>2, <2>3, <2>4 DEF Next
<1>3. Right => StampsTrustworthy
  BY DEF StampedRight, StampsTrustworthy, AsksFor
<1> QED BY <1>1, <1>2, <1>3, LedgerInvariant, PTL DEF Spec
-----------------------------------------------------------------------------
(***************************************************************************)
(* Calls that overlap (LedgerSessions)                                     *)
(*                                                                         *)
(* A race may lose money from a column; it never invents a refund or uses  *)
(* a number twice.  A refund under way was computed from a row and from an *)
(* allocation that the log accounted for when they were read, and the log  *)
(* only grows; a number is drawn under the lock of numbering_state, and    *)
(* until that lock is gone nobody else draws one.  The invoices as loaded  *)
(* play no part, so their values are left open (V).                        *)
(***************************************************************************)

\* A payment row a call is about to write: before the CHECK constraints have
\* seen it the pool may be overdrawn.
PaymentDraft == [status : PaymentStatus, amount : Nat, applied : Nat,
                 unapplied : Int, refunded : Nat]

Txns(V) == [op : OpNames \cup {"idle"},
            step : {"idle", "number", "allocate", "sum", "flush"},
            p : Payments \cup {"none"}, i : Invoices \cup {"none"},
            cents : Nat, pool : Nat, pay : PaymentDraft, newPay : PaymentDraft,
            inv : V, newInv : V, row : AllocationRow, inserts : BOOLEAN,
            found : BOOLEAN,
            holds : BOOLEAN, numbers : BOOLEAN, seq : Nat]

\* What the refund events of a payment say was handed back.
HandedBack(log) == log.pool + Total(log.slices, Invoices)
Logged(p) == HandedBack(refundLog[p])

OnPayment == {"record", "apply", "unapply", "refund"}

\* What the tables, of which it needs the refund events and the sequence, and
\* its own step say of a transaction.
Sound(t, log, last) ==
    /\ t.op \in OnPayment => t.p \in Payments /\ t.i \in Invoices
    /\ t.op \notin OnPayment => t.p = "none" /\ ~t.holds
    /\ t.op = "send" => t.i \in Invoices
    /\ t.step = "number" => t.op \in {"record", "send"} /\ ~t.holds
    /\ t.step = "allocate" => t.op \in {"apply", "unapply", "refund"}
    /\ t.step = "sum" => t.op \in OnPayment
    /\ t.inserts => t.op = "apply"
    /\ t.holds =>
          /\ t.row.refunded <= t.row.applied
          /\ t.row.refunded <= log[t.p].slices[t.i]
                                 + IF t.op = "refund" THEN t.cents ELSE 0
    /\ t.op # "refund" => t.newPay.refunded = t.pay.refunded
    /\ t.op = "refund" => t.newPay.refunded <= HandedBack(log[t.p]) + t.pool + t.cents
    /\ t.op = "send" /\ t.step = "flush" => t.numbers /\ t.seq = last + 1

TxnOK(t) == Sound(t, refundLog, lastNumber)

Tables ==
    /\ AllocOK(alloc)
    /\ payment \in [Payments -> PaymentRow]
    /\ refundLog \in [Payments -> RefundRow]
    /\ lastNumber \in Nat /\ number \in [Invoices -> Nat]

SessionsInv ==
    /\ Tables
    /\ NothingInvented
    /\ \E V : session \in [Sessions -> Txns(V)]
    /\ \A s \in Sessions : TxnOK(session[s])
    /\ \A s, t \in Sessions : session[s].numbers /\ session[t].numbers => s = t

-----------------------------------------------------------------------------
\* An UPDATE writes the columns that were changed since the row was loaded.
LEMMA WrittenDraft ==
    ASSUME NEW cur \in PaymentDraft, NEW old \in PaymentDraft, NEW new \in PaymentDraft
    PROVE  /\ Written(cur, old, new) \in PaymentDraft
           /\ Written(cur, old, new).refunded
                 = IF new.refunded # old.refunded THEN new.refunded ELSE cur.refunded
<1> DEFINE w == Written(cur, old, new)
           W(c) == IF new[c] # old[c] THEN new[c] ELSE cur[c]
<1>1. DOMAIN cur = {"status", "amount", "applied", "unapplied", "refunded"}
  BY DEF PaymentDraft
<1>2. w = [c \in {"status", "amount", "applied", "unapplied", "refunded"} |-> W(c)]
  BY <1>1 DEF Written
<1>3. w = [status |-> W("status"), amount |-> W("amount"), applied |-> W("applied"),
           unapplied |-> W("unapplied"), refunded |-> W("refunded")]
  BY <1>2
<1>4. /\ W("status") \in PaymentStatus /\ W("amount") \in Nat /\ W("applied") \in Nat
      /\ W("unapplied") \in Int /\ W("refunded") \in Nat
  BY DEF PaymentDraft
<1>5. W("refunded") = IF new.refunded # old.refunded THEN new.refunded ELSE cur.refunded
  OBVIOUS
<1> HIDE DEF w, W
<1>6. w \in PaymentDraft /\ w.refunded = W("refunded")
  BY <1>3, <1>4 DEF PaymentDraft
<1> QED BY <1>5, <1>6 DEF w

\* A transaction over some values is one over more of them.
LEMMA TxnsGrow ==
    ASSUME NEW V, NEW W
    PROVE  Txns(V) \subseteq Txns(V \cup W) /\ Txns(W) \subseteq Txns(V \cup W)
BY DEF Txns

\* A stored row is a draft, and the log of a payment is a number of cents.
LEMMA LogTypes ==
    ASSUME refundLog \in [Payments -> RefundRow], NEW p \in Payments
    PROVE  /\ refundLog[p].pool \in Nat /\ refundLog[p].slices \in [Invoices -> Nat]
           /\ Logged(p) \in Nat
<1>1. refundLog[p].pool \in Nat /\ refundLog[p].slices \in [Invoices -> Nat]
  BY DEF RefundRow
<1> QED BY <1>1, SlicesType DEF Logged, HandedBack

\* A step that only moves session s on, to a transaction that is as it should be.
LEMMA SessionMoves ==
    ASSUME SessionsInv, NEW s \in Sessions, NEW W, NEW txn \in Txns(W), TxnOK(txn),
           txn.numbers => \A t \in Sessions \ {s} : ~session[t].numbers,
           session' = [session EXCEPT ![s] = txn],
           UNCHANGED <<payment, alloc, refundLog, number, lastNumber>>
    PROVE  SessionsInv'
<1>1. PICK V : session \in [Sessions -> Txns(V)]
  BY DEF SessionsInv
<1>2. session' \in [Sessions -> Txns(V \cup W)]
  BY <1>1, TxnsGrow
<1>3. Tables' /\ NothingInvented'
  BY DEF SessionsInv, Tables, NothingInvented, RefundsNeverInvented, NumbersDistinct
<1>4. \A t \in Sessions : session'[t] = IF t = s THEN txn ELSE session[t]
  BY <1>1
<1>5. \A t \in Sessions : TxnOK(session'[t])
  BY <1>4 DEF SessionsInv
<1>6. ASSUME NEW t, TxnOK(t) PROVE TxnOK(t)'
  BY <1>6 DEF TxnOK, Sound, Logged, HandedBack
<1>7. \A t \in Sessions : TxnOK(session[t])'
  BY <1>4, <1>5 DEF TxnOK, Sound, Logged, HandedBack
<1>8. \A t, u \in Sessions : session'[t].numbers /\ session'[u].numbers => t = u
  BY <1>4 DEF SessionsInv
<1> QED BY <1>2, <1>3, <1>7, <1>8 DEF SessionsInv

\* What the rows of session s are.
LEMMA TxnTypes ==
    ASSUME SessionsInv, NEW s \in Sessions
    PROVE  /\ \E V : session[s] \in Txns(V)
           /\ TxnOK(session[s])
           /\ Tables
BY DEF SessionsInv

\* The idle session knows nothing.
LEMMA IdleOK == Idle \in Txns({NoInvoice}) /\ TxnOK(Idle) /\ ~Idle.numbers
BY DEF Idle, Txns, TxnOK, Sound, OpNames, OnPayment, PaymentDraft, NoPayment, PaymentStatus, AllocationRow,
       NoAllocation
\* A call that begins with a transaction that is as it should be.
LEMMA BeginKeeps ==
    ASSUME SessionsInv, NEW s \in Sessions, NEW W, NEW txn \in Txns(W), TxnOK(txn),
           ~txn.numbers, Begin(s, txn)
    PROVE  SessionsInv'
<1>1. /\ session' = [session EXCEPT ![s] = txn]
      /\ UNCHANGED <<payment, alloc, refundLog, number, lastNumber>>
  BY DEF Begin, vars
<1> QED BY <1>1, SessionMoves

\* A transaction is one of Txns(W) as soon as the fields that differ from
\* those of Idle are of the right type.
LEMMA IdleType == ASSUME NEW W, NoInvoice \in W PROVE Idle \in Txns(W)
BY DEF Idle, Txns, OpNames, PaymentDraft, NoPayment, PaymentStatus, AllocationRow,
       NoAllocation

\* A stored payment is a draft of one.
LEMMA RowIsDraft == PaymentRow \subseteq PaymentDraft
BY DEF PaymentRow, PaymentDraft

\* Recording begins: the transaction reads the rows it will write.
LEMMA BeginRecordKeeps ==
    ASSUME SessionsInv, NEW s \in Sessions, NEW p \in Payments, NEW i \in Invoices,
           NEW amount \in Nat, NEW cents \in Nat, BeginRecord(s, p, i, amount, cents)
    PROVE  SessionsInv'
<1> DEFINE new == [status |-> "completed", amount |-> amount, applied |-> cents,
                   unapplied |-> amount - cents, refunded |-> 0]
           txn == [Idle EXCEPT
                     !.op = "record", !.step = "number", !.p = p, !.i = i,
                     !.cents = cents, !.inv = invoice[i], !.newInv = invoice[i],
                     !.newPay = new]
           W == {NoInvoice, invoice[i]}
<1>1. Begin(s, txn)
  BY DEF BeginRecord
<1>2. new \in PaymentDraft /\ new.refunded = 0
  BY DEF PaymentDraft, PaymentStatus
<1>3. Idle \in Txns(W)
  BY IdleType
<1> HIDE DEF new
<1>4. txn \in Txns(W)
  BY <1>2, <1>3 DEF Txns, OpNames
<1>5. TxnOK(txn) /\ ~txn.numbers
  BY <1>2 DEF TxnOK, Sound, Idle, OnPayment, NoPayment
<1> HIDE DEF txn, W
<1> QED BY <1>1, <1>4, <1>5, BeginKeeps

\* Applying begins: the transaction reads the rows it will write.
LEMMA BeginApplyKeeps ==
    ASSUME SessionsInv, NEW s \in Sessions, NEW p \in Payments, NEW i \in Invoices,
           NEW cents \in Nat, BeginApply(s, p, i, cents)
    PROVE  SessionsInv'
<1> DEFINE inserts == alloc[p][i].applied = 0
           found == alloc[p][i].applied > 0
           txn == [Idle EXCEPT
                     !.op = "apply", !.step = "allocate", !.p = p, !.i = i,
                     !.cents = cents, !.pay = payment[p], !.newPay = payment[p],
                     !.inv = invoice[i], !.newInv = invoice[i],
                     !.inserts = inserts, !.found = found]
           W == {NoInvoice, invoice[i]}
<1>1. Begin(s, txn)
  BY DEF BeginApply
<1>2. payment[p] \in PaymentDraft
  BY RowIsDraft DEF SessionsInv, Tables
<1>3. Idle \in Txns(W) /\ inserts \in BOOLEAN /\ found \in BOOLEAN
  BY IdleType
<1> HIDE DEF inserts, found
<1>4. txn \in Txns(W)
  BY <1>2, <1>3 DEF Txns, OpNames
<1>5. TxnOK(txn) /\ ~txn.numbers
  BY DEF TxnOK, Sound, Idle, OnPayment
<1> HIDE DEF txn, W
<1> QED BY <1>1, <1>4, <1>5, BeginKeeps

\* Unapplying begins: the transaction reads the rows it will write.
LEMMA BeginUnapplyKeeps ==
    ASSUME SessionsInv, NEW s \in Sessions, NEW p \in Payments, NEW i \in Invoices,
           BeginUnapply(s, p, i)
    PROVE  SessionsInv'
<1> DEFINE txn == [Idle EXCEPT
                     !.op = "unapply", !.step = "allocate", !.p = p, !.i = i,
                     !.found = TRUE, !.pay = payment[p], !.newPay = payment[p]]
           W == {NoInvoice}
<1>1. Begin(s, txn)
  BY DEF BeginUnapply
<1>2. payment[p] \in PaymentDraft
  BY RowIsDraft DEF SessionsInv, Tables
<1>3. Idle \in Txns(W)
  BY IdleType
<1>4. txn \in Txns(W)
  BY <1>2, <1>3 DEF Txns, OpNames
<1>5. TxnOK(txn) /\ ~txn.numbers
  BY DEF TxnOK, Sound, Idle, OnPayment
<1> HIDE DEF txn, W
<1> QED BY <1>1, <1>4, <1>5, BeginKeeps

\* The row a refund computes is a draft, and claims no more was handed back
\* than the events of the payment and this refund account for.
LEMMA BeginRefundKeeps ==
    ASSUME SessionsInv, NEW s \in Sessions, NEW p \in Payments, NEW i \in Invoices,
           NEW pool \in Nat, NEW cents \in Nat, BeginRefund(s, p, i, pool, cents)
    PROVE  SessionsInv'
<1> DEFINE row         == payment[p]
           newApplied  == NetOfPayment(alloc, p) - cents
           newRefunded == row.refunded + pool + cents
           unapplied   == row.amount - newApplied - newRefunded
           status      == RefundStatus(row.amount, newRefunded)
           new == [row EXCEPT !.applied = newApplied, !.refunded = newRefunded,
                              !.unapplied = unapplied, !.status = status]
           step == IF cents > 0 THEN "allocate" ELSE "flush"
           found == cents > 0
           txn == [Idle EXCEPT
                     !.op = "refund", !.step = step, !.p = p, !.i = i, !.pool = pool,
                     !.cents = cents, !.found = found, !.pay = row, !.newPay = new]
           W == {NoInvoice}
<1>1. Begin(s, txn) /\ (cents > 0 => cents <= Net(alloc[p][i]))
  BY DEF BeginRefund
<1>2. /\ row \in PaymentRow /\ row.amount \in Nat /\ row.refunded \in Nat
      /\ row.refunded <= Logged(p) /\ AllocOK(alloc)
      /\ refundLog \in [Payments -> RefundRow]
  BY DEF SessionsInv, Tables, PaymentRow, NothingInvented, RefundsNeverInvented, Logged, HandedBack
<1>3. /\ NetOfPayment(alloc, p) \in Nat /\ Net(alloc[p][i]) \in Nat
      /\ Net(alloc[p][i]) <= NetOfPayment(alloc, p)
  BY <1>2, NetTypes
<1>4. newApplied \in Nat
  BY <1>1, <1>3
<1>5. Logged(p) \in Nat
  BY <1>2, LogTypes
<1>6. newRefunded \in Nat /\ newRefunded <= Logged(p) + pool + cents
  BY <1>2, <1>5
<1> HIDE DEF newApplied, newRefunded
<1>7. unapplied \in Int
  BY <1>2, <1>4, <1>6
<1>8. status \in PaymentStatus
  BY DEF RefundStatus, PaymentStatus
<1> HIDE DEF unapplied, status
<1>9. new \in PaymentDraft /\ new.refunded = newRefunded
  BY <1>2, <1>4, <1>6, <1>7, <1>8 DEF PaymentRow, PaymentDraft
<1>10. Idle \in Txns(W) /\ row \in PaymentDraft
  BY <1>2, IdleType, RowIsDraft
<1> HIDE DEF new, row
<1>11. step \in {"allocate", "flush"} /\ found \in BOOLEAN
  OBVIOUS
<1> HIDE DEF step, found
<1>12. txn \in Txns(W)
  BY <1>9, <1>10, <1>11 DEF Txns, OpNames
<1>13. TxnOK(txn) /\ ~txn.numbers
  BY <1>6, <1>9, <1>11 DEF TxnOK, Sound, Logged, Idle, OnPayment
<1> HIDE DEF txn, W
<1> QED BY <1>1, <1>12, <1>13, BeginKeeps DEF row, new, step, found, unapplied, status,
        newApplied, newRefunded

\* A cancellation or a send begins: the transaction reads its invoice.
LEMMA BeginOnInvoiceKeeps ==
    ASSUME SessionsInv, NEW s \in Sessions, NEW i \in Invoices,
           BeginCancel(s, i) \/ BeginSend(s, i)
    PROVE  SessionsInv'
<1> DEFINE new(st) == [invoice[i] EXCEPT !.status = st]
           txn(op, step, st) == [Idle EXCEPT
               !.op = op, !.step = step, !.i = i, !.inv = invoice[i],
               !.newInv = [invoice[i] EXCEPT !.status = st]]
           W == {NoInvoice, invoice[i], new("cancelled"), new("sent")}
<1>1. Begin(s, txn("cancel", "flush", "cancelled")) \/ Begin(s, txn("send", "number", "sent"))
  BY DEF BeginCancel, BeginSend
<1>2. Idle \in Txns(W)
  BY IdleType
<1>3. ASSUME NEW op, NEW step, NEW st,
             \/ op = "cancel" /\ step = "flush" /\ st = "cancelled"
             \/ op = "send" /\ step = "number" /\ st = "sent"
      PROVE  txn(op, step, st) \in Txns(W)
  <2>1. new(st) \in W /\ invoice[i] \in W
    BY <1>3
  <2>2. op \in OpNames /\ step \in {"flush", "number"}
    BY <1>3 DEF OpNames
  <2> HIDE DEF W, new
  <2> QED BY <1>2, <2>1, <2>2 DEF Txns, new
<1>4. /\ TxnOK(txn("cancel", "flush", "cancelled")) /\ TxnOK(txn("send", "number", "sent"))
      /\ ~txn("cancel", "flush", "cancelled").numbers
      /\ ~txn("send", "number", "sent").numbers
  BY DEF TxnOK, Sound, Idle, OnPayment
<1>5. /\ txn("cancel", "flush", "cancelled") \in Txns(W)
      /\ txn("send", "number", "sent") \in Txns(W)
  BY <1>3
<1> HIDE DEF txn, W
<1> QED BY <1>1, <1>4, <1>5, BeginKeeps
\* A call in flight moves on to a transaction that is as it should be.
LEMMA ContinueKeeps ==
    ASSUME SessionsInv, NEW s \in Sessions, NEW W, NEW txn \in Txns(W), TxnOK(txn),
           txn.numbers => \A t \in Sessions \ {s} : ~session[t].numbers,
           Continue(s, txn)
    PROVE  SessionsInv'
<1>1. /\ session' = [session EXCEPT ![s] = txn]
      /\ UNCHANGED <<payment, alloc, refundLog, number, lastNumber>>
  BY DEF Continue, vars
<1> QED BY <1>1, SessionMoves

\* It ends without a trace.
LEMMA GivesUp ==
    ASSUME SessionsInv, NEW s \in Sessions, Continue(s, Idle)
    PROVE  SessionsInv'
BY IdleOK, ContinueKeeps

\* The allocations a call sees are as sound as the stored ones.
LEMMA SeenOK ==
    ASSUME SessionsInv, NEW s \in Sessions
    PROVE  AllocOK(Seen(s))
<1>1. PICK V : session[s] \in Txns(V)
  BY TxnTypes
<1>2. TxnOK(session[s]) /\ AllocOK(alloc)
  BY DEF SessionsInv, Tables
<1>3. CASE session[s].holds
  <2> DEFINE t == session[s]
  <2>1. t.p \in Payments /\ t.i \in Invoices
    BY <1>2, <1>3 DEF TxnOK, Sound
  <2>2. t.row \in AllocationRow /\ t.row.refunded <= t.row.applied
    BY <1>1, <1>2, <1>3 DEF TxnOK, Sound, Txns
  <2>3. Seen(s) = [alloc EXCEPT ![t.p][t.i] = t.row]
    BY <1>3 DEF Seen
  <2> HIDE DEF t
  <2> QED BY <1>2, <2>1, <2>2, <2>3 DEF AllocOK
<1>4. CASE ~session[s].holds
  BY <1>2, <1>4 DEF Seen
<1> QED BY <1>3, <1>4

\* Taking the numbering row moves the transaction on; no number is stored yet.
LEMMA AssignNumberKeeps ==
    ASSUME SessionsInv, NEW s \in Sessions, AssignNumber(s)
    PROVE  SessionsInv'
<1> DEFINE t == session[s]
<1>1. PICK V : t \in Txns(V)
  BY TxnTypes
<1>2. TxnOK(t) /\ t.step = "number" /\ Tables
  BY DEF SessionsInv, AssignNumber
<1>3. \A u \in Sessions \ {s} : ~session[u].numbers
  BY DEF AssignNumber, NumberingFree
<1>4. CASE t.op = "record" /\ t.cents > 0
  <2> DEFINE row == [applied |-> t.cents, refunded |-> 0]
             txn == [t EXCEPT !.numbers = TRUE, !.step = "sum", !.holds = TRUE,
                              !.row = row]
  <2>1. Continue(s, txn)
    BY <1>4 DEF AssignNumber
  <2>2. row \in AllocationRow /\ row.refunded = 0 /\ row.refunded <= row.applied
    BY <1>1 DEF AllocationRow, Txns
  <2>3. t.p \in Payments /\ t.i \in Invoices
    BY <1>2, <1>4 DEF TxnOK, Sound, OnPayment
  <2>4. refundLog[t.p].slices[t.i] \in Nat
    BY <1>2, <2>3, LogTypes DEF Tables
  <2> HIDE DEF row, t
  <2>5. txn \in Txns(V)
    BY <1>1, <2>2 DEF Txns
  <2>6. /\ txn.op = "record" /\ txn.p = t.p /\ txn.i = t.i /\ txn.step = "sum"
        /\ txn.row = row /\ txn.newPay = t.newPay /\ txn.pay = t.pay
        /\ txn.inserts = t.inserts
    BY <1>1, <1>4 DEF Txns
  <2> HIDE DEF txn
  <2>7. TxnOK(txn)
    BY <1>2, <1>4, <2>2, <2>3, <2>4, <2>6 DEF TxnOK, Sound, OnPayment
  <2> QED BY <1>3, <2>1, <2>5, <2>7, ContinueKeeps
<1>5. CASE ~(t.op = "record" /\ t.cents > 0)
  <2> DEFINE txn == [t EXCEPT !.numbers = TRUE, !.step = "flush", !.seq = lastNumber + 1]
  <2>1. Continue(s, txn)
    BY <1>5 DEF AssignNumber
  <2>2. lastNumber + 1 \in Nat
    BY <1>2 DEF Tables
  <2> HIDE DEF t
  <2>5. txn \in Txns(V)
    BY <1>1, <2>2 DEF Txns
  <2>6. /\ txn.op = t.op /\ txn.p = t.p /\ txn.i = t.i /\ txn.step = "flush"
        /\ txn.holds = t.holds /\ txn.newPay = t.newPay /\ txn.pay = t.pay
        /\ txn.pool = t.pool /\ txn.cents = t.cents /\ txn.inserts = t.inserts
        /\ txn.numbers /\ txn.seq = lastNumber + 1 /\ ~t.holds
    BY <1>1, <1>2 DEF Txns, TxnOK, Sound
  <2> HIDE DEF txn
  <2>7. TxnOK(txn)
    BY <1>2, <2>6 DEF TxnOK, Sound
  <2> QED BY <1>3, <2>1, <2>5, <2>7, ContinueKeeps
<1> QED BY <1>4, <1>5

\* The flush of an allocation stays inside the transaction until it commits.
LEMMA WriteAllocationKeeps ==
    ASSUME SessionsInv, NEW s \in Sessions, WriteAllocation(s)
    PROVE  SessionsInv'
<1> DEFINE t == session[s]
           row == AllocationAfter(t)
           stored == alloc[t.p][t.i]
           holds == t.inserts \/ t.found
           txn == [t EXCEPT !.step = "sum", !.row = row, !.holds = holds]
<1>1. PICK V : t \in Txns(V)
  BY TxnTypes
<1>2. TxnOK(t) /\ t.step = "allocate" /\ Tables
  BY DEF SessionsInv, WriteAllocation
<1>3. t.op \in {"apply", "unapply", "refund"} /\ t.p \in Payments /\ t.i \in Invoices
  BY <1>2 DEF TxnOK, Sound, OnPayment
<1>4. /\ stored \in AllocationRow /\ stored.refunded <= stored.applied
      /\ stored.refunded <= refundLog[t.p].slices[t.i]
      /\ refundLog[t.p].slices[t.i] \in Nat
  <2>1. stored \in AllocationRow /\ stored.refunded <= stored.applied
    BY <1>2, <1>3 DEF Tables, AllocOK
  <2>2. stored.refunded <= refundLog[t.p].slices[t.i]
    BY <1>3 DEF SessionsInv, NothingInvented, RefundsNeverInvented
  <2>3. refundLog[t.p].slices[t.i] \in Nat
    BY <1>2, <1>3, LogTypes DEF Tables
  <2> QED BY <2>1, <2>2, <2>3
<1>5. t.cents \in Nat
  BY <1>1 DEF Txns
<1>6. /\ t.op = "apply" => row = [stored EXCEPT !.applied = @ + t.cents]
      /\ t.op = "refund" => row = [stored EXCEPT !.refunded = @ + t.cents]
      /\ t.op = "unapply" => row = NoAllocation
  BY DEF AllocationAfter
<1> HIDE DEF row, stored
<1>7. /\ row \in AllocationRow
      /\ t.op # "refund" => row.refunded <= row.applied
      /\ row.refunded <= refundLog[t.p].slices[t.i] + IF t.op = "refund" THEN t.cents ELSE 0
  <2>1. CASE t.op = "apply"
    BY <1>4, <1>5, <1>6, <2>1 DEF AllocationRow
  <2>2. CASE t.op = "refund"
    BY <1>4, <1>5, <1>6, <2>2 DEF AllocationRow
  <2>3. CASE t.op = "unapply"
    BY <1>4, <1>5, <1>6, <2>3 DEF AllocationRow, NoAllocation
  <2> QED BY <1>3, <2>1, <2>2, <2>3
<1>8. CASE Continue(s, Refused(t))
  BY <1>8, GivesUp DEF Refused
<1>9. CASE Continue(s, txn) /\ ~(t.found /\ row.refunded > row.applied)
  <2>1. holds \in BOOLEAN
    OBVIOUS
  <2>2. holds => row.refunded <= row.applied
    <3>1. t.inserts => t.op = "apply"
      BY <1>2 DEF TxnOK, Sound
    <3> QED BY <1>7, <1>9, <3>1 DEF AllocationRow
  <2> HIDE DEF t, holds
  <2>3. txn \in Txns(V)
    BY <1>1, <1>7, <2>1 DEF Txns
  <2>4. /\ txn.op = t.op /\ txn.p = t.p /\ txn.i = t.i /\ txn.step = "sum"
        /\ txn.holds = holds /\ txn.row = row /\ txn.newPay = t.newPay /\ txn.pay = t.pay
        /\ txn.pool = t.pool /\ txn.cents = t.cents /\ txn.inserts = t.inserts
        /\ txn.numbers = t.numbers /\ txn.seq = t.seq
    BY <1>1 DEF Txns
  <2>5. t.numbers => \A u \in Sessions \ {s} : ~session[u].numbers
    BY DEF SessionsInv, t
  <2>6. TxnOK(txn)
    BY <1>2, <1>3, <1>7, <2>2, <2>4 DEF TxnOK, Sound, OnPayment
  <2> HIDE DEF txn
  <2> QED BY <1>9, <2>3, <2>4, <2>5, <2>6, ContinueKeeps
<1> QED BY <1>8, <1>9 DEF WriteAllocation, row, stored

\* The recompute changes only the transaction's own copy of the invoice.
LEMMA RecomputeKeeps ==
    ASSUME SessionsInv, NEW s \in Sessions, Recompute(s)
    PROVE  SessionsInv'
<1> DEFINE t == session[s]
           inv == IF t.op \in {"record", "apply"}
                  THEN [t.inv EXCEPT !.plan = invoice[t.i].plan]
                  ELSE invoice[t.i]
           newInv == Recomputed(inv, NetOfInvoice(Seen(s), t.i))
           money == NetOfPayment(Seen(s), t.p)
           newPay == IF t.op \in {"record", "refund"} THEN t.newPay
                     ELSE Reapplied(t.pay, money)
           txn == [t EXCEPT !.step = "flush", !.inv = inv, !.newInv = newInv,
                            !.newPay = newPay]
<1>1. PICK V : t \in Txns(V)
  BY TxnTypes
<1>2. TxnOK(t) /\ t.step = "sum"
  BY DEF SessionsInv, Recompute
<1>3. t.op \in OnPayment /\ t.p \in Payments
  BY <1>2 DEF TxnOK, Sound
<1>4. money \in Nat
  BY <1>3, SeenOK, NetOfPaymentType
<1>5. Continue(s, txn)
  BY DEF Recompute
<1>6. t.pay \in PaymentDraft /\ t.newPay \in PaymentDraft
  BY <1>1 DEF Txns
<1> HIDE DEF money, inv, newInv
<1>7. /\ newPay \in PaymentDraft
      /\ t.op # "refund" => newPay.refunded = t.pay.refunded
      /\ t.op = "refund" => newPay = t.newPay
  <2>1. CASE t.op \in {"record", "refund"}
    BY <1>2, <1>6, <2>1 DEF TxnOK, Sound
  <2>2. CASE t.op \notin {"record", "refund"}
    <3> DEFINE unapplied == t.pay.amount - t.pay.refunded - money
               status == RefundStatus(t.pay.amount, t.pay.refunded)
    <3>1. newPay = [t.pay EXCEPT !.applied = money, !.unapplied = unapplied,
                                 !.status = status]
      BY <2>2 DEF Reapplied
    <3>2. unapplied \in Int
      BY <1>4, <1>6 DEF PaymentDraft
    <3>3. status \in PaymentStatus
      BY DEF RefundStatus, PaymentStatus
    <3> HIDE DEF unapplied, status, newPay
    <3>4. newPay \in PaymentDraft /\ newPay.refunded = t.pay.refunded
      BY <1>4, <1>6, <3>1, <3>2, <3>3 DEF PaymentDraft
    <3> QED BY <2>2, <3>4
  <2> QED BY <2>1, <2>2
<1>8. t.numbers => \A u \in Sessions \ {s} : ~session[u].numbers
  BY DEF SessionsInv
<1> DEFINE W == {inv, newInv}
<1> HIDE DEF t, newPay
<1>9. t \in Txns(V \cup W) /\ inv \in V \cup W /\ newInv \in V \cup W
  BY <1>1, TxnsGrow
<1> HIDE DEF W
<1>10. txn \in Txns(V \cup W)
  BY <1>7, <1>9 DEF Txns
<1>11. /\ txn.op = t.op /\ txn.p = t.p /\ txn.i = t.i /\ txn.step = "flush"
       /\ txn.holds = t.holds /\ txn.row = t.row /\ txn.newPay = newPay
       /\ txn.pay = t.pay /\ txn.pool = t.pool /\ txn.cents = t.cents
       /\ txn.inserts = t.inserts /\ txn.numbers = t.numbers /\ txn.seq = t.seq
  BY <1>1 DEF Txns
<1> HIDE DEF txn
<1>12. TxnOK(txn)
  BY <1>2, <1>3, <1>7, <1>11 DEF TxnOK, Sound, OnPayment
<1> QED BY <1>5, <1>8, <1>10, <1>11, <1>12, ContinueKeeps DEF txn

\* A rollback leaves an idle session and no row changed.
LEMMA RollbackKeeps ==
    ASSUME SessionsInv, NEW s \in Sessions, Rollback(s)
    PROVE  SessionsInv'
BY GivesUp DEF Rollback
-----------------------------------------------------------------------------
(***************************************************************************)
(* COMMIT: the tables take what the transaction wrote                      *)
(***************************************************************************)

\* The refund events only grow, and by what a committed refund handed back.
LEMMA CommitLogs ==
    ASSUME SessionsInv, NEW s \in Sessions, Commit(s)
    PROVE  /\ refundLog' \in [Payments -> RefundRow]
           /\ \A p \in Payments : /\ Logged(p) \in Nat /\ HandedBack(refundLog'[p]) \in Nat
                                  /\ Logged(p) <= HandedBack(refundLog'[p])
           /\ \A p \in Payments, i \in Invoices :
                 /\ refundLog[p].slices[i] \in Nat /\ refundLog'[p].slices[i] \in Nat
                 /\ refundLog[p].slices[i] <= refundLog'[p].slices[i]
           /\ session[s].op = "refund" =>
                 /\ HandedBack(refundLog'[session[s].p])
                       = Logged(session[s].p) + session[s].pool + session[s].cents
                 /\ refundLog'[session[s].p].slices[session[s].i]
                       = refundLog[session[s].p].slices[session[s].i] + session[s].cents
<1> DEFINE t == session[s]
<1>1. PICK V : t \in Txns(V)
  BY TxnTypes
<1>2. TxnOK(t) /\ refundLog \in [Payments -> RefundRow]
  BY DEF SessionsInv, Tables
<1>3. refundLog' = IF t.op = "refund" THEN LogAfter(t) ELSE refundLog
  BY DEF Commit
<1>4. \A p \in Payments : /\ refundLog[p].pool \in Nat /\ Logged(p) \in Nat
                          /\ refundLog[p].slices \in [Invoices -> Nat]
  BY <1>2, LogTypes
<1>5. CASE t.op # "refund"
  BY <1>2, <1>3, <1>4, <1>5 DEF Logged, HandedBack
<1>6. CASE t.op = "refund"
  <2> DEFINE q == t.p
             pool == refundLog[q].pool + t.pool
             slices == [refundLog[q].slices EXCEPT ![t.i] = @ + t.cents]
             log == [pool |-> pool, slices |-> slices]
  <2>1. q \in Payments /\ t.i \in Invoices /\ t.pool \in Nat /\ t.cents \in Nat
    BY <1>1, <1>2, <1>6 DEF TxnOK, Sound, OnPayment, Txns
  <2>2. pool \in Nat /\ slices \in [Invoices -> Nat]
        /\ slices[t.i] = refundLog[q].slices[t.i] + t.cents
        /\ \A i \in Invoices \ {t.i} : slices[i] = refundLog[q].slices[i]
    BY <1>4, <2>1
  <2>3. refundLog' = [refundLog EXCEPT ![q] = log]
    <3>1. refundLog[q] \in RefundRow /\ DOMAIN refundLog = Payments
      BY <1>2, <2>1
    <3> DEFINE after == LogAfter(t)
    <3>2. after = [refundLog EXCEPT ![q].pool = pool, ![q].slices[t.i] = @ + t.cents]
      BY DEF LogAfter
    <3>3. after[q] = [[refundLog[q] EXCEPT !.pool = pool] EXCEPT !.slices = slices]
      BY <1>2, <2>1, <3>1, <3>2 DEF RefundRow
    <3>4. \A p \in Payments \ {q} : after[p] = refundLog[p]
      BY <1>2, <2>1, <3>1, <3>2
    <3>5. DOMAIN after = Payments /\ after = [p \in Payments |-> after[p]]
      BY <3>1, <3>2
    <3> HIDE DEF pool, slices, q, after
    <3>6. [[refundLog[q] EXCEPT !.pool = pool] EXCEPT !.slices = slices] = log
      <4> DEFINE row == refundLog[q]
      <4>1. row = [pool |-> row.pool, slices |-> row.slices]
        BY <3>1 DEF RefundRow
      <4> HIDE DEF row
      <4>2. [row EXCEPT !.pool = pool] = [pool |-> pool, slices |-> row.slices]
        BY <4>1
      <4>3. [[pool |-> pool, slices |-> row.slices] EXCEPT !.slices = slices]
               = [pool |-> pool, slices |-> slices]
        OBVIOUS
      <4> QED BY <4>2, <4>3, Zenon DEF row
    <3> QED BY <1>2, <1>3, <1>6, <2>1, <3>1, <3>3, <3>4, <3>5, <3>6 DEF after
  <2> HIDE DEF pool, slices
  <2>4. log \in RefundRow /\ log.pool = pool /\ log.slices = slices
    BY <2>2 DEF RefundRow
  <2> HIDE DEF log, q
  <2>5. /\ refundLog' \in [Payments -> RefundRow] /\ refundLog'[q] = log
        /\ \A p \in Payments \ {q} : refundLog'[p] = refundLog[p]
    BY <1>2, <2>1, <2>3, <2>4
  <2>6. Total(slices, Invoices) = Total(refundLog[q].slices, Invoices) + t.cents
        /\ Total(refundLog[q].slices, Invoices) \in Nat
    <3> DEFINE f == refundLog[q].slices
    <3>1. f \in [Invoices -> Nat]
      BY <1>4, <2>1
    <3> HIDE DEF f
    <3>2. CentsFn(f, Invoices) /\ CentsFn(slices, Invoices)
      BY <2>2, <3>1 DEF CentsFn
    <3>3. \A i \in Invoices \ {t.i} : slices[i] = f[i]
      BY <2>2 DEF f
    <3>4. Total(slices, Invoices) = Total(f, Invoices) - f[t.i] + slices[t.i]
      <4>1. IsFiniteSet(Invoices) /\ t.i \in Invoices
        BY <2>1, LedgerAssumption
      <4> HIDE DEF t
      <4> QED BY <3>2, <3>3, <4>1, TotalUpdate
    <3>5. Total(f, Invoices) \in Nat /\ f[t.i] \in Nat
      BY <2>1, <3>1, SlicesType
    <3>6. slices[t.i] = f[t.i] + t.cents
      BY <2>2 DEF f
    <3>7. Total(slices, Invoices) = Total(f, Invoices) + t.cents
      BY <2>1, <3>4, <3>5, <3>6
    <3> QED BY <3>5, <3>7 DEF f
  <2>7. HandedBack(refundLog'[q]) = refundLog'[q].pool + Total(refundLog'[q].slices, Invoices)
        /\ Logged(q) = refundLog[q].pool + Total(refundLog[q].slices, Invoices)
    BY DEF Logged, HandedBack, HandedBack
  <2>8. HandedBack(refundLog'[q]) = Logged(q) + t.pool + t.cents
    <3>1. refundLog'[q].pool = refundLog[q].pool + t.pool
          /\ Total(refundLog'[q].slices, Invoices)
                = Total(refundLog[q].slices, Invoices) + t.cents
      BY <2>4, <2>5, <2>6 DEF pool
    <3> QED BY <1>4, <2>1, <2>6, <2>7, <3>1
  <2>9. \A p \in Payments \ {q} : HandedBack(refundLog'[p]) = Logged(p)
    BY <2>5 DEF Logged, HandedBack
  <2>10. \A p \in Payments : /\ HandedBack(refundLog'[p]) \in Nat
                             /\ Logged(p) <= HandedBack(refundLog'[p])
    BY <1>4, <2>1, <2>8, <2>9
  <2>11. \A p \in Payments, i \in Invoices :
            /\ refundLog[p].slices[i] \in Nat /\ refundLog'[p].slices[i] \in Nat
            /\ refundLog[p].slices[i] <= refundLog'[p].slices[i]
    BY <1>4, <2>1, <2>2, <2>4, <2>5
  <2>12. refundLog'[q].slices[t.i] = refundLog[q].slices[t.i] + t.cents
    BY <2>2, <2>4, <2>5
  <2> QED BY <1>4, <2>5, <2>8, <2>10, <2>11, <2>12 DEF q
<1> QED BY <1>5, <1>6

\* The payment row that a flush leaves, once the CHECK constraints accept it.
LEMMA CommitPays ==
    ASSUME SessionsInv, NEW s \in Sessions, Commit(s)
    PROVE  /\ payment' \in [Payments -> PaymentRow]
           /\ \A p \in Payments : payment'[p].refunded <= HandedBack(refundLog'[p])
<1> DEFINE t == session[s]
           row == PaymentFlushed(t)
<1>1. PICK V : t \in Txns(V)
  BY TxnTypes
<1>2. TxnOK(t) /\ payment \in [Payments -> PaymentRow]
  BY DEF SessionsInv, Tables
<1>3. payment' = [p \in Payments |-> IF p = t.p THEN row ELSE payment[p]]
  BY DEF Commit
<1>4. \A p \in Payments : /\ payment[p].refunded \in Nat /\ Logged(p) \in Nat
                          /\ HandedBack(refundLog'[p]) \in Nat
                          /\ Logged(p) <= HandedBack(refundLog'[p])
                          /\ payment[p].refunded <= Logged(p)
  BY <1>2, CommitLogs
     DEF SessionsInv, NothingInvented, RefundsNeverInvented, Logged, HandedBack, PaymentRow
<1>5. ASSUME t.p \in Payments
      PROVE  row \in PaymentRow /\ row.refunded <= HandedBack(refundLog'[t.p])
  <2>1. PaymentCheck(row)
    <3>1. t.p # "none"
      BY <1>5, SessionsAssumption
    <3> QED BY <3>1 DEF Commit, RefusedByCheck
  <2>2. /\ payment[t.p] \in PaymentDraft /\ t.pay \in PaymentDraft
        /\ t.newPay \in PaymentDraft
    BY <1>1, <1>2, <1>5, RowIsDraft DEF Txns
  <2>3. /\ row \in PaymentDraft
        /\ row.refunded = IF t.newPay.refunded # t.pay.refunded THEN t.newPay.refunded
                          ELSE payment[t.p].refunded
    BY <2>2, WrittenDraft DEF PaymentFlushed
  <2> HIDE DEF row
  <2>4. row \in PaymentRow
    BY <2>1, <2>3 DEF PaymentCheck, PaymentDraft, PaymentRow
  <2>5. CASE t.newPay.refunded # t.pay.refunded
    <3>1. t.op = "refund" /\ t.newPay.refunded <= Logged(t.p) + t.pool + t.cents
      BY <1>2, <2>5 DEF TxnOK, Sound, Logged
    <3>2. HandedBack(refundLog'[t.p]) = Logged(t.p) + t.pool + t.cents
      BY <3>1, CommitLogs
    <3> QED BY <2>3, <2>4, <2>5, <3>1, <3>2
  <2>6. CASE t.newPay.refunded = t.pay.refunded
    <3>1. row.refunded = payment[t.p].refunded
      BY <2>3, <2>6
    <3> QED BY <1>4, <1>5, <2>4, <3>1
  <2> QED BY <2>5, <2>6
<1> HIDE DEF row, t
<1>6. \A p \in Payments : payment'[p] = IF p = t.p THEN row ELSE payment[p]
  BY <1>3
<1>7. \A p \in Payments : payment'[p] \in PaymentRow
  BY <1>2, <1>5, <1>6
<1>8. payment' \in [Payments -> PaymentRow]
  BY <1>3, <1>7
<1>9. ASSUME NEW p \in Payments PROVE payment'[p].refunded <= HandedBack(refundLog'[p])
  <2>1. CASE p = t.p
    BY <1>5, <1>6, <2>1
  <2>2. CASE p # t.p
    <3>1. payment'[p].refunded = payment[p].refunded
      BY <1>6, <2>2
    <3> QED BY <1>4, <3>1
  <2> QED BY <2>1, <2>2
<1> QED BY <1>8, <1>9

\* The allocation row that a commit leaves is accounted for by the log it leaves.
LEMMA CommitAllocates ==
    ASSUME SessionsInv, NEW s \in Sessions, Commit(s)
    PROVE  /\ AllocOK(alloc')
           /\ \A p \in Payments, i \in Invoices :
                 alloc'[p][i].refunded <= refundLog'[p].slices[i]
<1> DEFINE t == session[s]
<1>1. PICK V : t \in Txns(V)
  BY TxnTypes
<1>2. TxnOK(t) /\ AllocOK(alloc)
  BY DEF SessionsInv, Tables
<1>3. alloc' = Seen(s) /\ AllocOK(Seen(s))
  BY SeenOK DEF Commit
<1>4. ASSUME NEW p \in Payments, NEW i \in Invoices
      PROVE  alloc'[p][i].refunded <= refundLog'[p].slices[i]
  <2>1. /\ refundLog[p].slices[i] \in Nat /\ refundLog'[p].slices[i] \in Nat
        /\ refundLog[p].slices[i] <= refundLog'[p].slices[i]
    BY CommitLogs
  <2>2. /\ alloc[p][i].refunded \in Nat
        /\ alloc[p][i].refunded <= refundLog[p].slices[i]
    BY <1>2 DEF SessionsInv, NothingInvented, RefundsNeverInvented, AllocOK, AllocationRow
  <2>3. CASE t.holds /\ p = t.p /\ i = t.i
    <3>1. alloc'[p][i] = t.row
      BY <1>2, <1>3, <2>3 DEF Seen, AllocOK
    <3>2. /\ t.row.refunded \in Nat /\ t.cents \in Nat
          /\ t.row.refunded <= refundLog[p].slices[i]
                                 + IF t.op = "refund" THEN t.cents ELSE 0
      BY <1>1, <1>2, <2>3 DEF TxnOK, Sound, Txns, AllocationRow
    <3>3. t.op = "refund" => refundLog'[p].slices[i] = refundLog[p].slices[i] + t.cents
      BY <2>3, CommitLogs
    <3> HIDE DEF t
    <3>4. CASE t.op = "refund"
      BY <2>1, <3>1, <3>2, <3>3, <3>4
    <3>5. CASE t.op # "refund"
      BY <2>1, <3>1, <3>2, <3>5
    <3> QED BY <3>4, <3>5
  <2>4. CASE ~(t.holds /\ p = t.p /\ i = t.i)
    <3>1. alloc'[p][i] = alloc[p][i]
      <4>1. t.holds => t.p \in Payments /\ t.i \in Invoices
        BY <1>2 DEF TxnOK, Sound
      <4> QED BY <1>2, <1>3, <2>4, <4>1 DEF Seen, AllocOK
    <3> QED BY <2>1, <2>2, <3>1
  <2> QED BY <2>3, <2>4
<1> QED BY <1>3, <1>4

\* A number that was drawn under the lock is the next one, and new.
LEMMA CommitNumbers ==
    ASSUME SessionsInv, NEW s \in Sessions, Commit(s)
    PROVE  /\ lastNumber' \in Nat /\ number' \in [Invoices -> Nat]
           /\ NumbersDistinct'
           /\ session[s].op # "send" => lastNumber' = lastNumber
           /\ session[s].op = "send" => session[s].numbers
<1> DEFINE t == session[s]
<1>1. TxnOK(t) /\ lastNumber \in Nat /\ number \in [Invoices -> Nat] /\ NumbersDistinct
  BY DEF SessionsInv, Tables, NothingInvented
<1>2. t.step = "flush"
  BY DEF Commit
<1>3. CASE t.op = "send"
  <2>1. t.i \in Invoices /\ t.numbers /\ t.seq = lastNumber + 1
    BY <1>1, <1>2, <1>3 DEF TxnOK, Sound
  <2>2. lastNumber' = t.seq /\ number' = [number EXCEPT ![t.i] = t.seq]
    BY <1>3 DEF Commit
  <2> HIDE DEF t
  <2>3. number' \in [Invoices -> Nat] /\ lastNumber' \in Nat /\ number'[t.i] = lastNumber'
    BY <1>1, <2>1, <2>2
  <2>4. \A i \in Invoices \ {t.i} : /\ number'[i] = number[i] /\ number[i] <= lastNumber
                                    /\ number[i] \in Nat
    BY <1>1, <2>2 DEF NumbersDistinct
  <2>5. \A i \in Invoices \ {t.i} : number'[i] < lastNumber' /\ number'[i] \in Nat
    BY <1>1, <2>1, <2>2, <2>4
  <2>6. ASSUME NEW i \in Invoices, NEW j \in Invoices
        PROVE  /\ number'[i] <= lastNumber'
               /\ i # j /\ number'[i] # 0 => number'[i] # number'[j]
    <3>1. i # j /\ i # t.i /\ j # t.i => (number'[i] # 0 => number'[i] # number'[j])
      BY <1>1, <2>4 DEF NumbersDistinct
    <3> QED BY <2>3, <2>5, <3>1
  <2>7. NumbersDistinct'
    BY <2>6 DEF NumbersDistinct
  <2> QED BY <1>3, <2>1, <2>3, <2>7 DEF t
<1>4. CASE t.op # "send"
  <2>1. UNCHANGED <<lastNumber, number>>
    BY <1>4 DEF Commit
  <2> QED BY <1>1, <1>4, <2>1 DEF NumbersDistinct
<1> QED BY <1>3, <1>4

\* A call that goes on while another commits loses at most its `found`, and
\* what it remembers stays accounted for: the log has only grown, and unless
\* it is the other that drew a number, the sequence has not moved.
LEMMA OthersStayOK ==
    ASSUME SessionsInv, NEW s \in Sessions, Commit(s), NEW u \in Sessions \ {s}
    PROVE  TxnOK(session[u])'
<1> DEFINE t == session[u]
           v == session'[u]
<1>1. PICK V : session \in [Sessions -> Txns(V)]
  BY DEF SessionsInv
<1>2. TxnOK(t) /\ t \in Txns(V) /\ session[s] \in Txns(V)
  BY <1>1 DEF SessionsInv
<1>3. v = IF AllocationLost(t, session[s]) THEN [t EXCEPT !.found = FALSE] ELSE t
  BY DEF Commit
<1> HIDE DEF t, v
<1>4. /\ v.op = t.op /\ v.p = t.p /\ v.i = t.i /\ v.step = t.step /\ v.holds = t.holds
      /\ v.row = t.row /\ v.newPay = t.newPay /\ v.pay = t.pay /\ v.pool = t.pool
      /\ v.cents = t.cents /\ v.inserts = t.inserts /\ v.numbers = t.numbers
      /\ v.seq = t.seq
  BY <1>2, <1>3 DEF Txns
<1>5. /\ t.pool \in Nat /\ t.cents \in Nat /\ t.newPay.refunded \in Nat
      /\ t.row.refunded \in Nat
  BY <1>2 DEF Txns, PaymentDraft, AllocationRow
<1>6. t.numbers => lastNumber' = lastNumber
  <2>1. t.numbers => ~session[s].numbers
    BY DEF SessionsInv, t
  <2> QED BY <2>1, CommitNumbers
<1>7. t.holds => /\ t.row.refunded <= t.row.applied
                 /\ t.row.refunded <= refundLog'[t.p].slices[t.i]
                                        + IF t.op = "refund" THEN t.cents ELSE 0
  <2> SUFFICES ASSUME t.holds
               PROVE  t.row.refunded <= refundLog'[t.p].slices[t.i]
                                          + IF t.op = "refund" THEN t.cents ELSE 0
    BY <1>2 DEF TxnOK, Sound
  <2>1. t.p \in Payments /\ t.i \in Invoices
        /\ t.row.refunded <= refundLog[t.p].slices[t.i]
                               + IF t.op = "refund" THEN t.cents ELSE 0
    BY <1>2 DEF TxnOK, Sound
  <2>2. /\ refundLog[t.p].slices[t.i] \in Nat /\ refundLog'[t.p].slices[t.i] \in Nat
        /\ refundLog[t.p].slices[t.i] <= refundLog'[t.p].slices[t.i]
    BY <2>1, CommitLogs
  <2> QED BY <1>5, <2>1, <2>2
<1>8. ASSUME t.op = "refund"
      PROVE  t.newPay.refunded <= HandedBack(refundLog'[t.p]) + t.pool + t.cents
  <2>1. t.p \in Payments /\ t.newPay.refunded <= Logged(t.p) + t.pool + t.cents
    BY <1>2, <1>8 DEF TxnOK, Sound, OnPayment, Logged, HandedBack
  <2>2. /\ Logged(t.p) \in Nat /\ HandedBack(refundLog'[t.p]) \in Nat
        /\ Logged(t.p) <= HandedBack(refundLog'[t.p])
    BY <2>1, CommitLogs
  <2> QED BY <1>5, <2>1, <2>2
<1>9. Sound(v, refundLog', lastNumber')
  BY <1>2, <1>4, <1>6, <1>7, <1>8 DEF TxnOK, Sound
<1> QED BY <1>9 DEF TxnOK, v
\* A commit writes the columns that changed, over the rows as they now stand.
LEMMA CommitKeeps ==
    ASSUME SessionsInv, NEW s \in Sessions, Commit(s)
    PROVE  SessionsInv'
<1>1. PICK V : session \in [Sessions -> Txns(V)]
  BY DEF SessionsInv
<1>2. session' = [u \in Sessions |->
         CASE u = s -> Idle
           [] u # s /\ AllocationLost(session[u], session[s]) ->
                 [session[u] EXCEPT !.found = FALSE]
           [] OTHER -> session[u]]
  BY DEF Commit
<1>3. ASSUME NEW u \in Sessions
      PROVE  /\ session'[u] \in Txns(V \cup {NoInvoice})
             /\ session'[u].numbers => u # s /\ session[u].numbers
  <2>1. CASE u = s
    <3>1. session'[u] = Idle
      BY <1>2, <2>1
    <3>2. Idle \in Txns(V \cup {NoInvoice}) /\ ~Idle.numbers
      BY IdleOK, TxnsGrow
    <3> QED BY <3>1, <3>2
  <2>2. CASE u # s
    <3>1. session'[u] = session[u] \/ session'[u] = [session[u] EXCEPT !.found = FALSE]
      BY <1>2, <2>2
    <3>2. session[u] \in Txns(V)
      BY <1>1
    <3>3. session'[u] \in Txns(V) /\ session'[u].numbers = session[u].numbers
      BY <3>1, <3>2 DEF Txns
    <3> QED BY <2>2, <3>3, TxnsGrow
  <2> QED BY <2>1, <2>2
<1>4. session' \in [Sessions -> Txns(V \cup {NoInvoice})]
  BY <1>2, <1>3
<1>5. \A u \in Sessions : TxnOK(session[u])'
  <2>1. TxnOK(session[s])'
    <3>1. session'[s] = Idle
      BY <1>2
    <3> QED BY <3>1 DEF TxnOK, Sound, Idle, OnPayment, NoPayment
  <2> QED BY <2>1, OthersStayOK
<1>6. \A u, v \in Sessions : session'[u].numbers /\ session'[v].numbers => u = v
  BY <1>3 DEF SessionsInv
<1>7. Tables'
  BY CommitLogs, CommitPays, CommitAllocates, CommitNumbers DEF Tables
<1>8. NothingInvented'
  <2>1. RefundsNeverInvented'
    BY CommitPays, CommitAllocates DEF RefundsNeverInvented, HandedBack
  <2> QED BY <2>1, CommitNumbers DEF NothingInvented
<1> QED BY <1>4, <1>5, <1>6, <1>7, <1>8 DEF SessionsInv

\* Steps that leave the ledger of payments and the sessions alone.
LEMMA OnlyInvoicesMove ==
    ASSUME SessionsInv, UNCHANGED <<payment, alloc, refundLog, session, number, lastNumber>>
    PROVE  SessionsInv'
<1>1. Tables' /\ NothingInvented'
  BY DEF SessionsInv, Tables, NothingInvented, RefundsNeverInvented, NumbersDistinct
<1>2. \A s \in Sessions : TxnOK(session[s])'
  BY DEF SessionsInv, TxnOK
<1> QED BY <1>1, <1>2 DEF SessionsInv

\* Idle sessions over the empty ledger satisfy the invariant.
LEMMA SessionsInitKeeps == SessionsInit => SessionsInv
<1> SUFFICES ASSUME SessionsInit PROVE SessionsInv
  OBVIOUS
<1> USE DEF SessionsInit, Init
<1>1. AllocOK(alloc)
  BY DEF AllocOK, AllocationRow, NoAllocation
<1>2. NoPayment \in PaymentRow /\ NoPayment.refunded = 0
  BY DEF PaymentRow, NoPayment, PaymentStatus
<1>3. NoRefund \in RefundRow /\ NoRefund.pool = 0 /\ \A i \in Invoices : NoRefund.slices[i] = 0
  BY DEF RefundRow, NoRefund
<1>4. Total(NoRefund.slices, Invoices) = 0
  BY <1>3, TotalZero
<1>5. Tables
  BY <1>1, <1>2, <1>3 DEF Tables
<1>6. RefundsNeverInvented
  BY <1>2, <1>3, <1>4 DEF RefundsNeverInvented, NoAllocation
<1>7. NumbersDistinct
  BY DEF NumbersDistinct
<1>8. session \in [Sessions -> Txns({NoInvoice})]
  BY IdleOK
<1>9. \A s \in Sessions : session[s] = Idle
  OBVIOUS
<1> QED BY <1>5, <1>6, <1>7, <1>8, <1>9, IdleOK DEF SessionsInv, NothingInvented

\* Every step of a session keeps the invariant, action by action.
LEMMA SessionsNextKeeps ==
    ASSUME SessionsInv, [SessionsNext]_sessionVars
    PROVE  SessionsInv'
<1>1. CASE SessionsNext
  <2>1. ASSUME NEW s \in Sessions, BeginCall(s) PROVE SessionsInv'
    <3>1. ASSUME NEW p \in Payments, NEW i \in Invoices, NEW amount \in Amounts,
                 NEW cents \in 0..amount, BeginRecord(s, p, i, amount, cents)
          PROVE  SessionsInv'
      <4>1. amount \in Nat /\ cents \in Nat
        BY LedgerAssumption
      <4> QED BY <3>1, <4>1, BeginRecordKeeps
    <3>2. ASSUME NEW p \in Payments, NEW i \in Invoices,
                 NEW cents \in 1..payment[p].unapplied, BeginApply(s, p, i, cents)
          PROVE  SessionsInv'
      <4>1. cents \in Nat
        OBVIOUS
      <4> QED BY <3>2, <4>1, BeginApplyKeeps
    <3>3. ASSUME NEW p \in Payments, NEW i \in Invoices, BeginUnapply(s, p, i)
          PROVE  SessionsInv'
      BY <3>3, BeginUnapplyKeeps
    <3>4. ASSUME NEW p \in Payments, NEW i \in Invoices,
                 NEW pool \in 0..payment[p].unapplied,
                 NEW cents \in 0..alloc[p][i].applied, BeginRefund(s, p, i, pool, cents)
          PROVE  SessionsInv'
      <4>1. pool \in Nat /\ cents \in Nat
        OBVIOUS
      <4> QED BY <3>4, <4>1, BeginRefundKeeps
    <3>5. ASSUME NEW i \in Invoices, BeginCancel(s, i) \/ BeginSend(s, i)
          PROVE  SessionsInv'
      BY <3>5, BeginOnInvoiceKeeps
    <3> QED BY <2>1, <3>1, <3>2, <3>3, <3>4, <3>5 DEF BeginCall
  <2>2. ASSUME NEW s \in Sessions, Advance(s) PROVE SessionsInv'
    BY <2>2, AssignNumberKeeps, WriteAllocationKeeps, RecomputeKeeps, RollbackKeeps,
       CommitKeeps DEF Advance
  <2>3. ASSUME NEW i \in Invoices, Prepare(i) PROVE SessionsInv'
    BY <2>3, OnlyInvoicesMove DEF Prepare, CreateInvoice
  <2> QED BY <1>1, <2>1, <2>2, <2>3 DEF SessionsNext
<1>2. CASE UNCHANGED sessionVars
  BY <1>2, OnlyInvoicesMove DEF sessionVars, vars
<1> QED BY <1>1, <1>2

\* Whatever calls overlap, and however: no column of the ledger claims a refund
\* that no refund event recorded, and no invoice number is given twice.
THEOREM NothingInventedHolds == SessionsSpec => []NothingInvented
<1>1. SessionsInv => NothingInvented
  BY DEF SessionsInv
<1> QED BY <1>1, SessionsInitKeeps, SessionsNextKeeps, PTL DEF SessionsSpec
-----------------------------------------------------------------------------
(***************************************************************************)
(* Recording alone implements the atomic ledger                            *)
(*                                                                         *)
(* While payments are only recorded and drafts only sent, an invoice moves *)
(* one way: once sent its money grows.  So a row loaded early is the row   *)
(* as it is now with less money on it (Grown), the lock of numbering_state *)
(* keeps the sum and the schedule a recording has read as they are until   *)
(* it commits, and the columns it does not write are already right.        *)
(***************************************************************************)

\* An invoice a recording loaded, against the row as it is now.
Grown(old, cur) ==
    /\ InvoiceOK(old, old.paid)
    /\ {old.status, cur.status} \subseteq {"sent", "partial", "paid"}
    /\ ~cur.deleted
    /\ cur.total = old.total /\ old.paid <= cur.paid

\* The payment a recording is about to store.
NewPayment(amount, cents) ==
    [status |-> "completed", amount |-> amount, applied |-> cents,
     unapplied |-> amount - cents, refunded |-> 0]

\* What a recording under way knows of the tables inv, pay and a.
RecordKnows(t, inv, pay, a) ==
    /\ t.op = "record" /\ t.step \in {"number", "sum", "flush"}
    /\ t.p \in Payments /\ t.i \in Invoices
    /\ pay[t.p].status = "none" /\ t.pay = NoPayment
    /\ t.newPay.amount \in Amounts
    /\ t.cents \in Nat /\ t.cents <= t.newPay.amount
    /\ t.newPay = NewPayment(t.newPay.amount, t.cents)
    /\ t.step # "number" => t.numbers
    /\ t.step = "sum" => t.cents > 0
    /\ t.holds <=> t.cents > 0 /\ t.step # "number"
    /\ t.holds => t.row = [applied |-> t.cents, refunded |-> 0]
    /\ t.cents = 0 => t.newInv = t.inv
    /\ t.cents > 0 => Grown(t.inv, inv[t.i])
    /\ t.cents > 0 /\ t.step = "flush" =>
          /\ t.inv.plan = inv[t.i].plan
          /\ t.newInv = Recomputed(t.inv,
                 NetOfInvoice([a EXCEPT ![t.p][t.i] = t.row], t.i))

\* What the sending of a draft knows: the row it loaded is the row there is.
SendKnows(t, inv) ==
    /\ t.op = "send" /\ t.step \in {"number", "flush"}
    /\ t.p = "none" /\ ~t.holds /\ t.i \in Invoices
    /\ t.inv = inv[t.i] /\ t.newInv = [inv[t.i] EXCEPT !.status = "sent"]
    /\ inv[t.i].status = "draft"
    /\ Balanced(inv[t.i].plan, inv[t.i].total)

CallKnows(t, inv, pay, a) ==
    t = Idle \/ RecordKnows(t, inv, pay, a) \/ SendKnows(t, inv)

\* No two calls record one payment or send one invoice.
Apart(txns) ==
    \A s, u \in Sessions : s # u /\ txns[s].op = txns[u].op =>
        /\ txns[s].op = "record" => txns[s].p # txns[u].p
        /\ txns[s].op = "send" => txns[s].i # txns[u].i

RecordingInv ==
    /\ IInv
    /\ \A s \in Sessions : CallKnows(session[s], invoice, payment, alloc)
    /\ Apart(session)

\* The mixes of MCLedgerSessions: in "recording" all of this holds.
MixedInv == SessionsInv /\ (mix = "recording" => RecordingInv)

-----------------------------------------------------------------------------
\* An UPDATE of a row that nobody else wrote leaves the new row; one that
\* changes no column leaves the row as it is.
LEMMA WrittenWhole ==
    ASSUME NEW f, NEW g, f = [c \in DOMAIN f |-> f[c]], g = [c \in DOMAIN f |-> g[c]]
    PROVE  Written(f, f, g) = g
<1>1. Written(f, f, g) = [c \in DOMAIN f |-> g[c]]
  BY DEF Written
<1> QED BY <1>1

\* A write of a row over itself changes no column.
LEMMA WrittenNothing ==
    ASSUME NEW f, NEW x, f = [c \in DOMAIN f |-> f[c]]
    PROVE  Written(f, x, x) = f
BY DEF Written

\* A write of an invoice over itself changes no column, the plan's included.
LEMMA InvoiceWrittenNothing ==
    ASSUME NEW row \in InvoiceRow, NEW x
    PROVE  InvoiceWritten(row, x, x) = row
<1>1. row.plan \in Seq(Installment) /\ row = [c \in DOMAIN row |-> row[c]]
  BY DEF InvoiceRow
<1>2. \A k \in DOMAIN row.plan : Written(row.plan[k], x.plan[k], x.plan[k]) = row.plan[k]
  <2> TAKE k \in DOMAIN row.plan
  <2>1. row.plan[k] \in Installment
    BY <1>1
  <2>2. row.plan[k] = [c \in DOMAIN row.plan[k] |-> row.plan[k][c]]
    BY <2>1 DEF Installment
  <2> QED BY <2>2, WrittenNothing
<1>3. Written(row, x, x) = row
  BY <1>1, WrittenNothing
<1>4. [k \in DOMAIN row.plan |-> Written(row.plan[k], x.plan[k], x.plan[k])] = row.plan
  BY <1>1, <1>2
<1>5. InvoiceWritten(row, x, x) = [row EXCEPT !.plan = row.plan]
  BY <1>3, <1>4 DEF InvoiceWritten
<1> QED BY <1>5 DEF InvoiceRow

\* A schedule walked by a payment is a schedule with the same rows.
LEMMA RestampedType ==
    ASSUME NEW plan \in Seq(Installment), NEW money
    PROVE  /\ Restamped(plan, money) \in Seq(Installment)
           /\ DOMAIN Restamped(plan, money) = DOMAIN plan
<1>1. \A k \in DOMAIN plan : plan[k] \in Installment
  OBVIOUS
<1>2. DOMAIN plan = 1..Len(plan) /\ Len(plan) \in Nat
  OBVIOUS
<1>3. ASSUME NEW k \in 1..Len(plan) PROVE Restamped(plan, money)[k] \in Installment
  BY <1>1, <1>2 DEF Restamped, Installment
<1>4. Restamped(plan, money) = [k \in 1..Len(plan) |-> Restamped(plan, money)[k]]
  BY <1>2 DEF Restamped
<1>5. DOMAIN Restamped(plan, money) = DOMAIN plan
  BY DEF Restamped
<1> QED BY <1>2, <1>3, <1>4, <1>5

\* Writing all of a schedule that was loaded as it is.
LEMMA PlanWritten ==
    ASSUME NEW plan \in Seq(Installment), NEW new \in Seq(Installment),
           DOMAIN new = DOMAIN plan
    PROVE  [k \in DOMAIN plan |-> Written(plan[k], plan[k], new[k])] = new
<1>1. ASSUME NEW k \in DOMAIN plan PROVE Written(plan[k], plan[k], new[k]) = new[k]
  <2>1. plan[k] \in Installment /\ new[k] \in Installment
    OBVIOUS
  <2>2. /\ plan[k] = [c \in DOMAIN plan[k] |-> plan[k][c]]
        /\ new[k] = [c \in DOMAIN plan[k] |-> new[k][c]]
    BY <2>1 DEF Installment
  <2> QED BY <2>2, WrittenWhole
<1> QED BY <1>1

\* Sending a draft nobody else touched.
LEMMA SentWritten ==
    ASSUME NEW row \in InvoiceRow
    PROVE  InvoiceWritten(row, row, [row EXCEPT !.status = "sent"])
             = [row EXCEPT !.status = "sent"]
<1> DEFINE new == [row EXCEPT !.status = "sent"]
<1>1. /\ row = [c \in DOMAIN row |-> row[c]]
      /\ new = [c \in DOMAIN row |-> new[c]]
      /\ new.plan = row.plan /\ row.plan \in Seq(Installment)
      /\ new = [new EXCEPT !.plan = row.plan]
  BY DEF InvoiceRow
<1> HIDE DEF new
<1>2. Written(row, row, new) = new
  BY <1>1, WrittenWhole
<1>3. [k \in DOMAIN row.plan |-> Written(row.plan[k], row.plan[k], row.plan[k])] = row.plan
  BY <1>1, PlanWritten
<1>4. InvoiceWritten(row, row, new) = [new EXCEPT !.plan = row.plan]
  BY <1>1, <1>2, <1>3 DEF InvoiceWritten
<1> QED BY <1>1, <1>4 DEF new

\* A recording that saw less money on the invoice than there is writes the row
\* that a recompute of the present row would: if its total allows that much.
LEMMA LateRecompute ==
    ASSUME NEW cur, NEW old, InvoiceOK(cur, cur.paid), Grown(old, cur),
           old.plan = cur.plan, NEW money \in Nat, money > cur.paid
    PROVE  /\ InvoiceWritten(cur, old, Recomputed(old, money)).paid = money
           /\ InvoiceWritten(cur, old, Recomputed(old, money)).total = cur.total
           /\ money <= cur.total =>
                 InvoiceWritten(cur, old, Recomputed(old, money)) = Recomputed(cur, money)
<1> DEFINE plan == Restamped(cur.plan, money)
           status == DerivedStatus(old.status, old.total, money)
           new == Recomputed(old, money)
           w == Written(cur, old, new)
           kept == IF status # old.status THEN status ELSE cur.status
<1>1. /\ cur \in InvoiceRow /\ old \in InvoiceRow
      /\ cur.total = old.total /\ old.paid <= cur.paid
      /\ cur.total \in Nat /\ cur.paid \in Nat /\ old.paid \in Nat
      /\ cur.plan \in Seq(Installment)
  BY DEF InvoiceOK, Grown, InvoiceRow
<1>2. plan \in Seq(Installment) /\ DOMAIN plan = DOMAIN cur.plan
  BY <1>1, RestampedType
<1>3. new = [old EXCEPT !.paid = money, !.status = status, !.plan = plan]
  BY DEF Recomputed, Grown
<1>4. Recomputed(cur, money)
        = [cur EXCEPT !.paid = money, !.status = DerivedStatus(cur.status, cur.total, money),
                      !.plan = plan]
  BY DEF Recomputed
<1>5. money <= cur.total => kept = DerivedStatus(cur.status, cur.total, money)
  BY <1>1 DEF DerivedStatus, Grown, InvoiceOK
<1> HIDE DEF plan, status, new, kept
<1>6. w = [status |-> kept, deleted |-> cur.deleted, discounted |-> cur.discounted,
           total |-> cur.total, paid |-> money, plan |-> w.plan]
  <2> DEFINE W(c) == IF new[c] # old[c] THEN new[c] ELSE cur[c]
  <2>1. DOMAIN cur = {"status", "deleted", "discounted", "total", "paid", "plan"}
    BY <1>1 DEF InvoiceRow
  <2>2. w = [c \in {"status", "deleted", "discounted", "total", "paid", "plan"} |-> W(c)]
    BY <2>1 DEF Written
  <2>3. /\ W("deleted") = cur.deleted /\ W("discounted") = cur.discounted
        /\ W("total") = cur.total
    BY <1>1, <1>3 DEF InvoiceRow
  <2>4. W("paid") = money
    BY <1>1, <1>3 DEF InvoiceRow
  <2>5. W("status") = kept
    BY <1>1, <1>3 DEF InvoiceRow, kept
  <2> HIDE DEF w, W
  <2>6. w = [status |-> W("status"), deleted |-> W("deleted"), discounted |-> W("discounted"),
             total |-> W("total"), paid |-> W("paid"), plan |-> W("plan")]
    BY <2>2
  <2>7. w.plan = W("plan")
    BY <2>6
  <2> QED BY <2>3, <2>4, <2>5, <2>6, <2>7
<1>7. [k \in DOMAIN cur.plan |-> Written(cur.plan[k], old.plan[k], new.plan[k])] = plan
  <2>1. new.plan = plan
    BY <1>1, <1>3 DEF InvoiceRow
  <2> QED BY <1>1, <1>2, <2>1, PlanWritten
<1>8. InvoiceWritten(cur, old, new) = [w EXCEPT !.plan = plan]
  BY <1>7 DEF InvoiceWritten
<1> HIDE DEF w
<1>9. InvoiceWritten(cur, old, new)
        = [status |-> kept, deleted |-> cur.deleted, discounted |-> cur.discounted,
           total |-> cur.total, paid |-> money, plan |-> plan]
  BY <1>6, <1>8
<1>10. Recomputed(cur, money)
        = [status |-> DerivedStatus(cur.status, cur.total, money), deleted |-> cur.deleted,
           discounted |-> cur.discounted, total |-> cur.total, paid |-> money, plan |-> plan]
  BY <1>1, <1>4 DEF InvoiceRow
<1> QED BY <1>5, <1>9, <1>10 DEF new

-----------------------------------------------------------------------------
\* The ledger under way: what is known of the rows a call works on.
LEMMA LedgerRows ==
    ASSUME IInv, NEW i \in Invoices
    PROVE  /\ AllocOK(alloc) /\ invoice[i] \in InvoiceRow
           /\ InvoiceOK(invoice[i], invoice[i].paid)
           /\ invoice[i].paid = NetOfInvoice(alloc, i) /\ invoice[i].paid \in Nat
<1>1. AllocOK(alloc) /\ InvoiceOK(invoice[i], NetOfInvoice(alloc, i))
  BY RowByRow
<1> QED BY <1>1 DEF InvoiceOK, InvoiceRow

\* A payment not yet recorded has no allocation at all.
LEMMA NothingAllocated ==
    ASSUME IInv, NEW p \in Payments, payment[p].status = "none"
    PROVE  payment[p] = NoPayment /\ alloc[p] = [i \in Invoices |-> NoAllocation]
<1>1. /\ AllocOK(alloc)
      /\ PaymentOK(payment[p], NetOfPayment(alloc, p))
      /\ RefundOK(payment[p], refundLog[p], alloc[p])
  BY RowByRow
<1>2. payment[p] \in PaymentRow /\ payment[p].amount = 0
      /\ payment[p].amount = payment[p].applied + payment[p].refunded + payment[p].unapplied
  BY <1>1 DEF PaymentOK
<1>3. payment[p] = NoPayment
  BY <1>2 DEF PaymentRow, NoPayment
<1>4. ASSUME NEW i \in Invoices PROVE alloc[p][i] = NoAllocation
  <2>1. Net(alloc[p][i]) = 0 /\ refundLog[p].slices[i] = 0
    BY UnrecordedIsEmpty
  <2>2. alloc[p][i] \in AllocationRow /\ alloc[p][i].refunded = 0
    BY <1>1, <2>1 DEF AllocOK, RefundOK
  <2> QED BY <2>1, <2>2 DEF Net, AllocationRow, NoAllocation
<1>5. alloc[p] \in [Invoices -> AllocationRow]
  BY <1>1 DEF AllocOK
<1> QED BY <1>3, <1>4, <1>5

\* With the row a recording writes, its invoice has received that much more.
LEMMA RecordingMoney ==
    ASSUME IInv, NEW p \in Payments, NEW i \in Invoices, payment[p].status = "none",
           NEW cents \in Nat
    PROVE  NetOfInvoice([alloc EXCEPT ![p][i] = [applied |-> cents, refunded |-> 0]], i)
             = invoice[i].paid + cents
<1> DEFINE row == [applied |-> cents, refunded |-> 0]
           b == [alloc EXCEPT ![p][i] = row]
<1>1. AllocOK(alloc) /\ invoice[i].paid = NetOfInvoice(alloc, i) /\ invoice[i].paid \in Nat
  BY LedgerRows
<1>2. row \in AllocationRow /\ row.refunded <= row.applied /\ Net(row) = cents
  BY DEF AllocationRow, Net
<1> HIDE DEF row
<1>3. AllocOK(b) /\ b[p][i] = row /\ \A q \in Payments \ {p} : b[q] = alloc[q]
  BY <1>1, <1>2 DEF AllocOK
<1> HIDE DEF b
<1>4. NetOfInvoice(b, i) = NetOfInvoice(alloc, i) - Net(alloc[p][i]) + Net(b[p][i])
  BY <1>1, <1>3, OnePaymentMoves
<1>5. Net(alloc[p][i]) = 0
  BY UnrecordedIsEmpty
<1> QED BY <1>1, <1>2, <1>3, <1>4, <1>5 DEF b, row

-----------------------------------------------------------------------------
(***************************************************************************)
(* The steps that leave the tables alone                                   *)
(***************************************************************************)

\* A call moves on, or begins, or gives up, and knows what it should.
LEMMA OneCallMoves ==
    ASSUME SessionsInv, RecordingInv, NEW s \in Sessions, NEW txn,
           session' = [session EXCEPT ![s] = txn], UNCHANGED vars,
           CallKnows(txn, invoice, payment, alloc),
           \A u \in Sessions \ {s} : txn.op = session[u].op =>
               /\ txn.op = "record" => txn.p # session[u].p
               /\ txn.op = "send" => txn.i # session[u].i
    PROVE  RecordingInv'
<1>1. IInv'
  BY StutterKeeps DEF RecordingInv
<1>2. \A u \in Sessions : session'[u] = IF u = s THEN txn ELSE session[u]
  BY DEF SessionsInv
<1>3. \A u \in Sessions : CallKnows(session'[u], invoice', payment', alloc')
  BY <1>2 DEF RecordingInv, vars
<1>4. Apart(session')
  BY <1>2 DEF RecordingInv, Apart
<1> QED BY <1>1, <1>3, <1>4 DEF RecordingInv

\* A call that moves on works on the same rows.
LEMMA SameCallMoves ==
    ASSUME SessionsInv, RecordingInv, NEW s \in Sessions, NEW txn, Continue(s, txn),
           CallKnows(txn, invoice, payment, alloc),
           \/ txn = Idle
           \/ /\ txn.op = session[s].op
              /\ txn.p = session[s].p /\ txn.i = session[s].i
    PROVE  RecordingInv'
<1>1. session' = [session EXCEPT ![s] = txn] /\ UNCHANGED vars
  BY DEF Continue
<1>2. \A u \in Sessions \ {s} : txn.op = session[u].op =>
               /\ txn.op = "record" => txn.p # session[u].p
               /\ txn.op = "send" => txn.i # session[u].i
  BY DEF RecordingInv, Apart, Idle
<1> QED BY <1>1, <1>2, OneCallMoves

\* Under the recording mix, what a recording loads is what the rows say.
LEMMA RecordBegins ==
    ASSUME SessionsInv, RecordingInv, NEW s \in Sessions, NEW p \in Payments,
           NEW i \in Invoices, NEW amount \in Amounts, NEW cents \in 0..amount,
           BeginRecord(s, p, i, amount, cents)
    PROVE  RecordingInv'
<1> DEFINE new == NewPayment(amount, cents)
           txn == [Idle EXCEPT
                     !.op = "record", !.step = "number", !.p = p, !.i = i,
                     !.cents = cents, !.inv = invoice[i], !.newInv = invoice[i],
                     !.newPay = new]
<1>1. Begin(s, txn) /\ payment[p].status = "none"
      /\ (\A t \in InFlight("record") : session[t].p # p)
      /\ (cents > 0 => Allocatable(i))
  BY DEF BeginRecord, NewPayment
<1>2. amount \in Nat /\ cents \in Nat /\ cents <= amount
  BY LedgerAssumption
<1>3. new.amount = amount
  BY DEF NewPayment
<1>4. cents > 0 => Grown(invoice[i], invoice[i])
  BY <1>1, LedgerRows DEF RecordingInv, Grown, Allocatable
<1>5. /\ txn.op = "record" /\ txn.step = "number" /\ txn.p = p /\ txn.i = i
      /\ txn.cents = cents /\ txn.inv = invoice[i] /\ txn.newInv = invoice[i]
      /\ txn.newPay = new /\ txn.pay = NoPayment /\ ~txn.holds
  BY DEF Idle
<1> HIDE DEF txn, new
<1>6. RecordKnows(txn, invoice, payment, alloc)
  BY <1>1, <1>2, <1>3, <1>4, <1>5 DEF RecordKnows, new
<1>7. session' = [session EXCEPT ![s] = txn] /\ UNCHANGED vars
  BY <1>1 DEF Begin
<1>8. \A u \in Sessions : session[u].op = "record" => session[u].p # p
  BY <1>1 DEF InFlight
<1>9. \A u \in Sessions \ {s} : txn.op = session[u].op =>
               /\ txn.op = "record" => txn.p # session[u].p
               /\ txn.op = "send" => txn.i # session[u].i
  BY <1>5, <1>8
<1>10. CallKnows(txn, invoice, payment, alloc)
  BY <1>6 DEF CallKnows
<1> QED BY <1>7, <1>9, <1>10, OneCallMoves

\* Under the recording mix, what a send loads is what the rows say.
LEMMA SendBegins ==
    ASSUME SessionsInv, RecordingInv, NEW s \in Sessions, NEW i \in Invoices,
           BeginSend(s, i), Apart(session')
    PROVE  RecordingInv'
<1> DEFINE txn == [Idle EXCEPT
                     !.op = "send", !.step = "number", !.i = i, !.inv = invoice[i],
                     !.newInv = [invoice[i] EXCEPT !.status = "sent"]]
<1>1. /\ Begin(s, txn) /\ invoice[i].status = "draft"
      /\ Balanced(invoice[i].plan, invoice[i].total)
  BY DEF BeginSend
<1>2. /\ txn.op = "send" /\ txn.step = "number" /\ txn.p = "none" /\ txn.i = i
      /\ txn.inv = invoice[i] /\ txn.newInv = [invoice[i] EXCEPT !.status = "sent"]
      /\ ~txn.holds
  BY DEF Idle
<1> HIDE DEF txn
<1>3. SendKnows(txn, invoice)
  BY <1>1, <1>2 DEF SendKnows
<1>4. session' = [session EXCEPT ![s] = txn] /\ UNCHANGED vars
  BY <1>1 DEF Begin
<1>5. \A u \in Sessions : session'[u] = IF u = s THEN txn ELSE session[u]
  BY <1>4 DEF SessionsInv
<1>6. \A u \in Sessions \ {s} : txn.op = session[u].op =>
               /\ txn.op = "record" => txn.p # session[u].p
               /\ txn.op = "send" => txn.i # session[u].i
  BY <1>2, <1>5 DEF Apart
<1>7. CallKnows(txn, invoice, payment, alloc)
  BY <1>3 DEF CallKnows
<1> QED BY <1>4, <1>6, <1>7, OneCallMoves

\* A statement of a recording or a sending that changes no table.
LEMMA RecordAdvances ==
    ASSUME SessionsInv, RecordingInv, NEW s \in Sessions,
           AssignNumber(s) \/ WriteAllocation(s) \/ Recompute(s) \/ Rollback(s)
    PROVE  RecordingInv'
<1> DEFINE t == session[s]
<1>1. PICK V : t \in Txns(V)
  BY TxnTypes
<1>2. CallKnows(t, invoice, payment, alloc) /\ IInv
  BY DEF RecordingInv
<1>3. t # Idle
  <2>1. Idle.step = "idle"
    BY DEF Idle
  <2>2. t.step \in {"number", "allocate", "sum", "flush"}
    BY DEF AssignNumber, WriteAllocation, Recompute, Rollback
  <2> QED BY <2>1, <2>2
<1>4. CASE Rollback(s)
  <2>1. Continue(s, Idle)
    BY <1>4 DEF Rollback
  <2> QED BY <2>1, SameCallMoves DEF CallKnows
<1>5. CASE WriteAllocation(s)
  BY <1>2, <1>3, <1>5 DEF WriteAllocation, CallKnows, RecordKnows, SendKnows
<1>6. CASE AssignNumber(s)
  <2>1. t.step = "number"
    BY <1>6 DEF AssignNumber
  <2>2. CASE t.op = "record" /\ t.cents > 0
    <3> DEFINE row == [applied |-> t.cents, refunded |-> 0]
               txn == [t EXCEPT !.numbers = TRUE, !.step = "sum", !.holds = TRUE,
                                !.row = row]
    <3>1. Continue(s, txn)
      BY <1>6, <2>2 DEF AssignNumber
    <3>2. RecordKnows(t, invoice, payment, alloc)
      BY <1>2, <1>3, <2>2 DEF CallKnows, SendKnows
    <3>3. /\ txn.op = t.op /\ txn.step = "sum" /\ txn.p = t.p /\ txn.i = t.i
          /\ txn.cents = t.cents /\ txn.pay = t.pay /\ txn.newPay = t.newPay
          /\ txn.inv = t.inv /\ txn.newInv = t.newInv /\ txn.row = row
          /\ txn.holds /\ txn.numbers
      BY <1>1 DEF Txns
    <3> HIDE DEF txn
    <3>4. RecordKnows(txn, invoice, payment, alloc)
      BY <2>2, <3>2, <3>3 DEF RecordKnows
    <3> QED BY <3>1, <3>3, <3>4, SameCallMoves DEF CallKnows
  <2>3. CASE ~(t.op = "record" /\ t.cents > 0)
    <3> DEFINE txn == [t EXCEPT !.numbers = TRUE, !.step = "flush", !.seq = lastNumber + 1]
    <3>1. Continue(s, txn)
      BY <1>6, <2>3 DEF AssignNumber
    <3>2. /\ txn.op = t.op /\ txn.step = "flush" /\ txn.p = t.p /\ txn.i = t.i
          /\ txn.cents = t.cents /\ txn.pay = t.pay /\ txn.newPay = t.newPay
          /\ txn.inv = t.inv /\ txn.newInv = t.newInv /\ txn.row = t.row
          /\ txn.holds = t.holds /\ txn.numbers
      BY <1>1 DEF Txns
    <3> HIDE DEF txn
    <3>3. ASSUME SendKnows(t, invoice) PROVE SendKnows(txn, invoice)
      BY <3>2, <3>3 DEF SendKnows
    <3>4. ASSUME RecordKnows(t, invoice, payment, alloc)
          PROVE  RecordKnows(txn, invoice, payment, alloc)
      BY <2>1, <2>3, <3>2, <3>4 DEF RecordKnows
    <3>5. CallKnows(txn, invoice, payment, alloc)
      BY <1>2, <1>3, <3>3, <3>4 DEF CallKnows
    <3> QED BY <3>1, <3>2, <3>5, SameCallMoves
  <2> QED BY <2>2, <2>3
<1>7. CASE Recompute(s)
  <2>1. RecordKnows(t, invoice, payment, alloc) /\ t.step = "sum"
    BY <1>2, <1>3, <1>7 DEF Recompute, CallKnows, SendKnows
  <2> DEFINE inv == [t.inv EXCEPT !.plan = invoice[t.i].plan]
             new == Recomputed(inv, NetOfInvoice(Seen(s), t.i))
             txn == [t EXCEPT !.step = "flush", !.inv = inv, !.newInv = new,
                              !.newPay = t.newPay]
  <2>2. Continue(s, txn)
    BY <1>7, <2>1 DEF Recompute, RecordKnows
  <2>3. Seen(s) = [alloc EXCEPT ![t.p][t.i] = t.row]
    BY <2>1 DEF Seen, RecordKnows
  <2>4. /\ txn.op = t.op /\ txn.step = "flush" /\ txn.p = t.p /\ txn.i = t.i
        /\ txn.cents = t.cents /\ txn.pay = t.pay /\ txn.newPay = t.newPay
        /\ txn.inv = inv /\ txn.newInv = new /\ txn.row = t.row
        /\ txn.holds = t.holds /\ txn.numbers = t.numbers
    BY <1>1 DEF Txns
  <2>5. t.i \in Invoices /\ t.cents > 0 /\ Grown(t.inv, invoice[t.i])
    BY <2>1 DEF RecordKnows
  <2>6. inv.plan = invoice[t.i].plan /\ Grown(inv, invoice[t.i])
    <3>1. t.inv \in InvoiceRow /\ invoice[t.i].plan \in Seq(Installment)
      BY <1>2, <2>5, LedgerRows DEF Grown, InvoiceOK, InvoiceRow
    <3>2. /\ inv \in InvoiceRow /\ inv.plan = invoice[t.i].plan
          /\ inv.status = t.inv.status /\ inv.paid = t.inv.paid /\ inv.total = t.inv.total
      BY <3>1 DEF InvoiceRow
    <3> HIDE DEF inv
    <3> QED BY <2>5, <3>2 DEF Grown, InvoiceOK
  <2> HIDE DEF inv, new, txn
  <2>7. RecordKnows(txn, invoice, payment, alloc)
    BY <2>1, <2>3, <2>4, <2>5, <2>6 DEF RecordKnows, new
  <2> QED BY <2>2, <2>4, <2>7, SameCallMoves DEF CallKnows
<1> QED BY <1>4, <1>5, <1>6, <1>7

-----------------------------------------------------------------------------
(***************************************************************************)
(* The commits: each is a call of PaymentLedger                            *)
(***************************************************************************)

\* The slices of a payment that goes to one invoice.
OneSlice(i, cents) == [j \in Invoices |-> IF j = i THEN cents ELSE 0]

\* A payment sliced onto one invoice totals that slice.
LEMMA OneSliceTotal ==
    ASSUME NEW i \in Invoices, NEW cents \in Nat
    PROVE  Total(OneSlice(i, cents), Invoices) = cents
<1> DEFINE none == [j \in Invoices |-> 0]
           one == OneSlice(i, cents)
<1>1. CentsFn(none, Invoices) /\ CentsFn(one, Invoices)
  BY DEF CentsFn, OneSlice
<1>2. \A j \in Invoices \ {i} : one[j] = none[j]
  BY DEF OneSlice
<1>3. one[i] = cents /\ none[i] = 0
  BY DEF OneSlice
<1>4. Total(none, Invoices) = 0
  BY TotalZero
<1>5. IsFiniteSet(Invoices) /\ i \in Invoices
  BY LedgerAssumption
<1> HIDE DEF none, one
<1>6. Total(one, Invoices) = Total(none, Invoices) - none[i] + one[i]
  BY ONLY <1>1, <1>2, <1>5, TotalUpdate
<1> QED BY <1>3, <1>4, <1>6 DEF one

\* A recording that commits stores its payment and its allocation.
LEMMA RecordCommitsRows ==
    ASSUME RecordingInv, NEW s \in Sessions, Commit(s),
           RecordKnows(session[s], invoice, payment, alloc)
    PROVE  LET t == session[s]
           IN  /\ payment' = [payment EXCEPT ![t.p] = NewPayment(t.newPay.amount, t.cents)]
               /\ alloc' = [alloc EXCEPT ![t.p] =
                     [i \in Invoices |-> [applied |-> OneSlice(t.i, t.cents)[i],
                                          refunded |-> 0]]]
               /\ refundLog' = refundLog
<1> DEFINE t == session[s]
           new == NewPayment(t.newPay.amount, t.cents)
           rows == [i \in Invoices |-> [applied |-> OneSlice(t.i, t.cents)[i], refunded |-> 0]]
<1>1. /\ t.p \in Payments /\ t.i \in Invoices /\ t.op = "record" /\ t.step = "flush"
      /\ payment[t.p].status = "none" /\ t.pay = NoPayment /\ t.newPay = new
      /\ t.cents \in Nat
  BY DEF Commit, RecordKnows
<1>2. /\ payment = [p \in Payments |-> payment[p]]
      /\ alloc \in [Payments -> [Invoices -> AllocationRow]]
  BY RowByRow DEF RecordingInv, AllocOK
<1>3. payment[t.p] = NoPayment /\ alloc[t.p] = [i \in Invoices |-> NoAllocation]
  BY <1>1, NothingAllocated DEF RecordingInv
<1>4. PaymentFlushed(t) = new
  <2>1. PaymentFlushed(t) = Written(NoPayment, NoPayment, new)
    BY <1>1, <1>3 DEF PaymentFlushed
  <2>2. /\ NoPayment = [c \in DOMAIN NoPayment |-> NoPayment[c]]
        /\ new = [c \in DOMAIN NoPayment |-> new[c]]
    BY DEF NoPayment, NewPayment
  <2> QED BY <2>1, <2>2, WrittenWhole
<1>5. payment' = [p \in Payments |-> IF p = t.p THEN PaymentFlushed(t) ELSE payment[p]]
  BY DEF Commit
<1>6. payment' = [payment EXCEPT ![t.p] = new]
  BY <1>2, <1>4, <1>5
<1>7. alloc' = Seen(s)
  BY DEF Commit
<1>8. alloc' = [alloc EXCEPT ![t.p] = rows]
  <2>1. CASE t.cents = 0
    <3>1. alloc' = alloc
      BY <1>7, <2>1 DEF Seen, RecordKnows
    <3>2. rows = alloc[t.p]
      BY <1>3, <2>1 DEF OneSlice, NoAllocation
    <3> HIDE DEF rows
    <3> QED BY <1>2, <3>1, <3>2
  <2>2. CASE t.cents # 0
    <3>1. t.holds /\ t.row = [applied |-> t.cents, refunded |-> 0]
      BY <1>1, <2>2 DEF RecordKnows
    <3>2. alloc' = [alloc EXCEPT ![t.p][t.i] = [applied |-> t.cents, refunded |-> 0]]
      BY <1>7, <3>1 DEF Seen
    <3>3. rows = [alloc[t.p] EXCEPT ![t.i] = [applied |-> t.cents, refunded |-> 0]]
      BY <1>1, <1>3 DEF OneSlice, NoAllocation
    <3> HIDE DEF rows
    <3> QED BY <1>1, <1>2, <3>2, <3>3
  <2> QED BY <2>1, <2>2
<1>9. refundLog' = refundLog
  BY <1>1 DEF Commit
<1> QED BY <1>6, <1>8, <1>9

\* The invoice it leaves is the one a recompute of the present row leaves.
LEMMA RecordCommitsInvoice ==
    ASSUME SessionsInv, RecordingInv, NEW s \in Sessions, Commit(s),
           RecordKnows(session[s], invoice, payment, alloc)
    PROVE  LET t == session[s]
           IN  /\ t.cents = 0 => invoice' = invoice
               /\ t.cents > 0 =>
                    /\ invoice[t.i].paid + t.cents <= invoice[t.i].total
                    /\ NetOfInvoice(alloc', t.i) = invoice[t.i].paid + t.cents
                    /\ invoice' = [invoice EXCEPT ![t.i] =
                           Recomputed(invoice[t.i], NetOfInvoice(alloc', t.i))]
<1> DEFINE t == session[s]
           row == invoice[t.i]
           money == row.paid + t.cents
<1>1. /\ t.p \in Payments /\ t.i \in Invoices /\ t.op = "record" /\ t.step = "flush"
      /\ payment[t.p].status = "none" /\ t.cents \in Nat /\ ~RefusedByCheck(t)
  BY DEF Commit, RecordKnows
<1>2. /\ row \in InvoiceRow /\ InvoiceOK(row, row.paid) /\ row.paid \in Nat
      /\ invoice = [i \in Invoices |-> invoice[i]]
  BY <1>1, LedgerRows, RowByRow DEF RecordingInv
<1>3. invoice' = [i \in Invoices |->
                    IF i = t.i /\ t.inv # NoInvoice THEN InvoiceFlushed(t) ELSE invoice[i]]
  BY DEF Commit
<1>4. CASE t.cents = 0
  <2>1. InvoiceFlushed(t) = row
    <3>1. t.newInv = t.inv
      BY <1>4 DEF RecordKnows
    <3> QED BY <1>2, <3>1, InvoiceWrittenNothing DEF InvoiceFlushed
  <2> QED BY <1>2, <1>3, <1>4, <2>1
<1>5. CASE t.cents # 0
  <2>1. /\ t.cents > 0 /\ t.row = [applied |-> t.cents, refunded |-> 0] /\ t.holds
        /\ Grown(t.inv, row) /\ t.inv.plan = row.plan
        /\ t.newInv = Recomputed(t.inv,
                         NetOfInvoice([alloc EXCEPT ![t.p][t.i] = t.row], t.i))
    BY <1>1, <1>5 DEF RecordKnows
  <2>2. /\ NetOfInvoice([alloc EXCEPT ![t.p][t.i] = t.row], t.i) = money
        /\ alloc' = [alloc EXCEPT ![t.p][t.i] = t.row]
    BY <1>1, <2>1, RecordingMoney DEF RecordingInv, Commit, Seen
  <2>3. money \in Nat /\ money > row.paid
    BY <1>1, <1>2, <2>1
  <2>4. t.inv # NoInvoice
    BY <2>1 DEF Grown, NoInvoice
  <2>5. /\ InvoiceFlushed(t).paid = money /\ InvoiceFlushed(t).total = row.total
        /\ money <= row.total => InvoiceFlushed(t) = Recomputed(row, money)
    BY <1>2, <2>1, <2>2, <2>3, LateRecompute DEF InvoiceFlushed
  <2>6. money <= row.total
    BY <1>1, <2>4, <2>5 DEF RefusedByCheck, InvoiceCheck
  <2>7. invoice' = [invoice EXCEPT ![t.i] = Recomputed(row, money)]
    BY <1>2, <1>3, <2>4, <2>5, <2>6
  <2> QED BY <1>5, <2>2, <2>6, <2>7
<1> QED BY <1>4, <1>5

\* So the commit of a recording is a RecordPayment.
LEMMA RecordCommits ==
    ASSUME SessionsInv, RecordingInv, NEW s \in Sessions, Commit(s),
           RecordKnows(session[s], invoice, payment, alloc)
    PROVE  PaymentStep
<1> DEFINE t == session[s]
           amount == t.newPay.amount
           slices == OneSlice(t.i, t.cents)
           listed == {i \in Invoices : slices[i] > 0}
<1>1. /\ t.p \in Payments /\ t.i \in Invoices /\ payment[t.p].status = "none"
      /\ amount \in Amounts /\ t.cents \in Nat /\ t.cents <= amount
  BY DEF RecordKnows
<1>2. amount \in Nat
  BY <1>1, LedgerAssumption
<1>3. Total(slices, Invoices) = t.cents
  BY <1>1, OneSliceTotal
<1>4. slices \in SlicesUpTo(amount)
  BY <1>1, <1>2 DEF SlicesUpTo, OneSlice
<1>5. /\ payment' = [payment EXCEPT ![t.p] = NewPayment(amount, t.cents)]
      /\ alloc' = [alloc EXCEPT ![t.p] =
             [i \in Invoices |-> [applied |-> slices[i], refunded |-> 0]]]
      /\ refundLog' = refundLog
  BY RecordCommitsRows
<1>6. /\ t.cents = 0 => invoice' = invoice
      /\ t.cents > 0 =>
           /\ invoice[t.i].paid + t.cents <= invoice[t.i].total
           /\ invoice' = [invoice EXCEPT ![t.i] =
                  Recomputed(invoice[t.i], NetOfInvoice(alloc', t.i))]
  BY RecordCommitsInvoice
<1>7. invoice = [i \in Invoices |-> invoice[i]]
  BY RowByRow DEF RecordingInv
<1>8. /\ t.cents = 0 => listed = {}
      /\ t.cents > 0 => listed = {t.i} /\ slices[t.i] = t.cents /\ Allocatable(t.i)
  BY <1>1 DEF OneSlice, RecordKnows, Grown, Allocatable
<1> HIDE DEF slices, listed, amount
<1>9. invoice' = InvoicesAfter(alloc', listed)
  BY <1>1, <1>6, <1>7, <1>8 DEF InvoicesAfter
<1>10. \A i \in listed : Allocatable(i) /\ invoice[i].paid + slices[i] <= invoice[i].total
  BY <1>1, <1>6, <1>8
<1>11. RecordPayment(t.p, amount, slices)
  BY <1>1, <1>3, <1>5, <1>9, <1>10 DEF RecordPayment, SlicesFit, NewPayment, listed
<1> QED BY <1>1, <1>4, <1>11 DEF PaymentStep

\* The commit of a sending is a MarkSent.
LEMMA SendCommits ==
    ASSUME SessionsInv, RecordingInv, NEW s \in Sessions, Commit(s),
           SendKnows(session[s], invoice)
    PROVE  /\ MarkSent(session[s].i)
           /\ \A i \in Invoices \ {session[s].i} : invoice'[i] = invoice[i]
<1> DEFINE t == session[s]
           row == invoice[t.i]
           new == [row EXCEPT !.status = "sent"]
<1>1. /\ t.op = "send" /\ t.p = "none" /\ ~t.holds /\ t.i \in Invoices
      /\ t.inv = row /\ t.newInv = new /\ row.status = "draft"
      /\ Balanced(row.plan, row.total)
  BY DEF SendKnows
<1>2. row \in InvoiceRow /\ invoice = [i \in Invoices |-> invoice[i]]
      /\ payment = [p \in Payments |-> payment[p]]
  BY <1>1, LedgerRows, RowByRow DEF RecordingInv
<1>3. InvoiceFlushed(t) = new
  BY <1>1, <1>2, SentWritten DEF InvoiceFlushed
<1>4. t.inv # NoInvoice
  BY <1>1 DEF NoInvoice
<1>5. \A p \in Payments : p # t.p
  BY <1>1, SessionsAssumption
<1>6. /\ payment' = [p \in Payments |-> IF p = t.p THEN PaymentFlushed(t) ELSE payment[p]]
      /\ invoice' = [i \in Invoices |->
            IF i = t.i /\ t.inv # NoInvoice THEN InvoiceFlushed(t) ELSE invoice[i]]
      /\ alloc' = Seen(s)
      /\ refundLog' = IF t.op = "refund" THEN LogAfter(t) ELSE refundLog
  BY DEF Commit
<1>7. payment' = payment /\ alloc' = alloc /\ refundLog' = refundLog
  BY <1>1, <1>2, <1>5, <1>6 DEF Seen
<1>8. invoice' = [invoice EXCEPT ![t.i] = new]
  BY <1>2, <1>3, <1>4, <1>6
<1>9. new = [invoice[t.i] EXCEPT !.status = "sent"]
  OBVIOUS
<1> HIDE DEF new
<1>10. invoice' = [invoice EXCEPT ![t.i].status = "sent"]
  BY <1>8, <1>9
<1> QED BY <1>1, <1>2, <1>7, <1>8, <1>10 DEF MarkSent

\* What another call knows survives a step that leaves its own rows alone, or
\* adds money to its invoice before it has drawn a number.
LEMMA KnowsKept ==
    ASSUME NEW t, CallKnows(t, invoice, payment, alloc),
           t.op = "record" => payment'[t.p].status = "none",
           t.op = "send" => invoice'[t.i] = invoice[t.i],
           t.op = "record" /\ t.cents > 0 =>
               \/ invoice'[t.i] = invoice[t.i] /\ alloc' = alloc
               \/ /\ ~t.numbers
                  /\ Grown(t.inv, invoice[t.i]) => Grown(t.inv, invoice'[t.i])
    PROVE  CallKnows(t, invoice', payment', alloc')
<1>1. CASE t = Idle
  BY <1>1 DEF CallKnows
<1>2. ASSUME SendKnows(t, invoice) PROVE SendKnows(t, invoice')
  BY <1>2 DEF SendKnows
<1>3. ASSUME RecordKnows(t, invoice, payment, alloc)
      PROVE  RecordKnows(t, invoice', payment', alloc')
  <2>1. t.op = "record" /\ payment'[t.p].status = "none"
    BY <1>3 DEF RecordKnows
  <2>2. CASE t.cents > 0 /\ invoice'[t.i] = invoice[t.i] /\ alloc' = alloc
    BY <1>3, <2>1, <2>2 DEF RecordKnows
  <2>3. CASE t.cents > 0 /\ ~t.numbers
             /\ (Grown(t.inv, invoice[t.i]) => Grown(t.inv, invoice'[t.i]))
    BY <1>3, <2>1, <2>3 DEF RecordKnows
  <2>4. CASE ~(t.cents > 0)
    BY <1>3, <2>1, <2>4 DEF RecordKnows
  <2> QED BY <2>1, <2>2, <2>3, <2>4
<1> QED BY <1>1, <1>2, <1>3 DEF CallKnows

\* A commit ends its own call and no other knows of it.
LEMMA CommitSessions ==
    ASSUME NEW s \in Sessions, Commit(s), session[s].op # "unapply"
    PROVE  /\ session' = [u \in Sessions |-> IF u = s THEN Idle ELSE session[u]]
           /\ session[s].step = "flush"
BY DEF Commit, AllocationLost

\* Idle calls and those of before are apart.
LEMMA ApartStays ==
    ASSUME Apart(session), NEW s \in Sessions,
           session' = [u \in Sessions |-> IF u = s THEN Idle ELSE session[u]]
    PROVE  Apart(session')
BY DEF Apart, Idle

\* More money on an invoice leaves it grown.
LEMMA GrowsOn ==
    ASSUME NEW old, NEW cur, Grown(old, cur), InvoiceOK(cur, cur.paid),
           NEW money \in Nat, cur.paid <= money
    PROVE  Grown(old, Recomputed(cur, money))
<1>1. cur \in InvoiceRow /\ old.paid \in Nat /\ cur.paid \in Nat
  BY DEF Grown, InvoiceOK, InvoiceRow
<1>2. /\ Recomputed(cur, money).paid = money /\ Recomputed(cur, money).total = cur.total
      /\ Recomputed(cur, money).deleted = cur.deleted
      /\ Recomputed(cur, money).status = DerivedStatus(cur.status, cur.total, money)
  BY <1>1 DEF Recomputed, InvoiceRow
<1>3. cur.status \in {"sent", "partial", "paid"}
  BY DEF Grown
<1>4. DerivedStatus(cur.status, cur.total, money) \in {"sent", "partial", "paid"}
  BY <1>3 DEF DerivedStatus
<1> QED BY <1>1, <1>2, <1>4 DEF Grown

\* Under the recording mix, a commit is one step of the abstract ledger.
LEMMA CommitKeepsRecording ==
    ASSUME SessionsInv, RecordingInv, NEW s \in Sessions, Commit(s)
    PROVE  RecordingInv' /\ Next
<1> DEFINE t == session[s]
<1>1. CallKnows(t, invoice, payment, alloc) /\ IInv /\ Apart(session)
  BY DEF RecordingInv
<1>2. t # Idle
  BY DEF Commit, Idle
<1>3. /\ session' = [u \in Sessions |-> IF u = s THEN Idle ELSE session[u]]
      /\ t.step = "flush"
  BY <1>1, <1>2, CommitSessions DEF CallKnows, RecordKnows, SendKnows
<1>4. Apart(session')
  BY <1>1, <1>3, ApartStays
<1>5. SUFFICES /\ Next
               /\ \A u \in Sessions \ {s} :
                     CallKnows(session[u], invoice', payment', alloc')
  <2>1. IInv /\ Next => IInv'
    BY InvoiceStepKeeps, PaymentStepKeeps DEF Next
  <2> QED BY <1>1, <1>3, <1>4, <2>1 DEF RecordingInv, CallKnows
<1>6. CASE RecordKnows(t, invoice, payment, alloc)
  <2>1. Next
    BY <1>6, RecordCommits DEF Next
  <2>2. ASSUME NEW u \in Sessions \ {s}
        PROVE  CallKnows(session[u], invoice', payment', alloc')
    <3> DEFINE v == session[u]
    <3>1. CallKnows(v, invoice, payment, alloc) /\ ~v.numbers
      BY <1>3, <1>6 DEF RecordingInv, SessionsInv, RecordKnows
    <3>2. /\ t.p \in Payments /\ t.i \in Invoices /\ t.op = "record" /\ t.cents \in Nat
          /\ t.cents > 0 => Grown(t.inv, invoice[t.i])
      BY <1>6 DEF RecordKnows
    <3>3. v.op = "record" => payment'[v.p].status = "none"
      <4>1. payment' = [payment EXCEPT ![t.p] = NewPayment(t.newPay.amount, t.cents)]
        BY <1>6, RecordCommitsRows
      <4>2. v.op = "record" => v.p # t.p
        BY <1>1, <3>2 DEF Apart
      <4>3. v.op = "record" => payment[v.p].status = "none"
        BY <3>1 DEF CallKnows, RecordKnows, SendKnows, Idle
      <4> QED BY <4>1, <4>2, <4>3
    <3>4. /\ t.cents = 0 => invoice' = invoice
          /\ t.cents > 0 =>
               /\ NetOfInvoice(alloc', t.i) = invoice[t.i].paid + t.cents
               /\ invoice' = [invoice EXCEPT ![t.i] =
                      Recomputed(invoice[t.i], NetOfInvoice(alloc', t.i))]
      BY <1>6, RecordCommitsInvoice
    <3>5. InvoiceOK(invoice[t.i], invoice[t.i].paid) /\ invoice[t.i].paid \in Nat
          /\ invoice = [i \in Invoices |-> invoice[i]]
      BY <1>1, <3>2, LedgerRows, RowByRow
    <3>6. \A i \in Invoices : t.cents = 0 \/ i # t.i => invoice'[i] = invoice[i]
      BY <3>2, <3>4, <3>5
    <3>7. v.op = "send" => invoice'[v.i] = invoice[v.i]
      <4>1. v.op = "send" => v.i \in Invoices /\ invoice[v.i].status = "draft"
        BY <3>1 DEF CallKnows, RecordKnows, SendKnows, Idle
      <4>2. t.cents > 0 => invoice[t.i].status # "draft"
        BY <3>2 DEF Grown
      <4> QED BY <3>2, <3>6, <4>1, <4>2
    <3>8. v.op = "record" /\ Grown(v.inv, invoice[v.i])
             => Grown(v.inv, invoice'[v.i])
      <4>1. CASE t.cents > 0 /\ v.i = t.i
        <5> DEFINE money == NetOfInvoice(alloc', t.i)
        <5>1. money \in Nat /\ invoice[t.i].paid <= money
          BY <3>2, <3>4, <3>5, <4>1
        <5>2. invoice'[v.i] = Recomputed(invoice[t.i], money)
          BY <3>2, <3>4, <3>5, <4>1
        <5> HIDE DEF money
        <5> QED BY <3>5, <4>1, <5>1, <5>2, GrowsOn
      <4>2. CASE ~(t.cents > 0 /\ v.i = t.i)
        <5>1. v.op = "record" => v.i \in Invoices
          BY <3>1 DEF CallKnows, RecordKnows, SendKnows, Idle
        <5> QED BY <3>2, <3>6, <4>2, <5>1
      <4> QED BY <4>1, <4>2
    <3> QED BY <3>1, <3>3, <3>7, <3>8, KnowsKept
  <2> QED BY <2>1, <2>2
<1>7. CASE SendKnows(t, invoice)
  <2>1. /\ MarkSent(t.i) /\ t.i \in Invoices /\ t.op = "send"
        /\ invoice[t.i].status = "draft"
        /\ \A i \in Invoices \ {t.i} : invoice'[i] = invoice[i]
    BY <1>7, SendCommits DEF SendKnows
  <2>2. payment' = payment /\ alloc' = alloc
    BY <2>1 DEF MarkSent
  <2>3. Next
    BY <2>1 DEF Next, InvoiceStep
  <2>4. ASSUME NEW u \in Sessions \ {s}
        PROVE  CallKnows(session[u], invoice', payment', alloc')
    <3> DEFINE v == session[u]
    <3>1. CallKnows(v, invoice, payment, alloc)
      BY DEF RecordingInv
    <3>2. v.op = "record" => payment'[v.p].status = "none"
      BY <2>2, <3>1 DEF CallKnows, RecordKnows, SendKnows, Idle
    <3>3. v.op = "send" => v.i \in Invoices \ {t.i}
      BY <1>1, <2>1, <3>1 DEF Apart, CallKnows, RecordKnows, SendKnows, Idle
    <3>4. v.op = "record" /\ v.cents > 0 => v.i \in Invoices \ {t.i}
      BY <2>1, <3>1 DEF CallKnows, RecordKnows, SendKnows, Grown, Idle
    <3> QED BY <2>1, <2>2, <3>1, <3>2, <3>3, <3>4, KnowsKept
  <2> QED BY <2>3, <2>4
<1> QED BY <1>1, <1>2, <1>6, <1>7 DEF CallKnows

\* A draft prepared meanwhile is an invoice that no call knows of.
LEMMA PrepareKeepsRecording ==
    ASSUME SessionsInv, RecordingInv, NEW i \in Invoices, Prepare(i)
    PROVE  RecordingInv' /\ Next
<1>1. PICK total \in Totals, plan \in Plans : CreateInvoice(i, total, plan, FALSE)
  BY DEF Prepare
<1>2. /\ session' = session /\ payment' = payment /\ alloc' = alloc
      /\ invoice[i].status = "none"
      /\ \A j \in Invoices \ {i} : invoice'[j] = invoice[j]
  BY <1>1, RowByRow DEF Prepare, CreateInvoice, RecordingInv
<1>3. Next
  BY <1>1 DEF Next, InvoiceStep
<1>4. ASSUME NEW u \in Sessions
      PROVE  CallKnows(session[u], invoice', payment', alloc')
  <2> DEFINE v == session[u]
  <2>1. CallKnows(v, invoice, payment, alloc)
    BY DEF RecordingInv
  <2>2. v.op = "record" => payment'[v.p].status = "none"
    BY <1>2, <2>1 DEF CallKnows, RecordKnows, SendKnows, Idle
  <2>3. v.op = "send" \/ (v.op = "record" /\ v.cents > 0) => v.i \in Invoices \ {i}
    BY <1>2, <2>1 DEF CallKnows, RecordKnows, SendKnows, Grown, Idle
  <2> QED BY <1>2, <2>1, <2>2, <2>3, KnowsKept
<1>5. IInv'
  BY <1>3, InvoiceStepKeeps, PaymentStepKeeps DEF Next, RecordingInv
<1> QED BY <1>2, <1>3, <1>4, <1>5 DEF RecordingInv

-----------------------------------------------------------------------------
\* The initial states of either mix satisfy the invariant.
LEMMA MixedInitKeeps == MixedInit => MixedInv
<1> SUFFICES ASSUME MixedInit PROVE MixedInv
  OBVIOUS
<1>1. SessionsInv /\ IInv
  BY SessionsInitKeeps, InitKeeps DEF MixedInit, SessionsInit
<1>2. \A s \in Sessions : session[s] = Idle
  BY DEF MixedInit, SessionsInit
<1>3. Apart(session)
  BY <1>2 DEF Apart, Idle
<1> QED BY <1>1, <1>2, <1>3 DEF MixedInv, RecordingInv, CallKnows

\* Each step of the mix "recording" is a step of the ledger, or none.
LEMMA RecordingStep ==
    ASSUME SessionsInv, RecordingInv, SessionsNext, mix = "recording", mix' = mix, InMix'
    PROVE  RecordingInv' /\ [Next]_vars
<1>1. /\ \A s \in Sessions : session'[s].op \in {"record", "send", "idle"}
      /\ \A s, u \in InFlight("send")' : session'[s].i = session'[u].i => s = u
  BY DEF InMix, OpsOf
<1>2. ASSUME NEW s \in Sessions, BeginCall(s)
      PROVE  RecordingInv' /\ UNCHANGED vars
  <2>1. ASSUME NEW p \in Payments, NEW i \in Invoices, NEW amount \in Amounts,
               NEW cents \in 0..amount, BeginRecord(s, p, i, amount, cents)
        PROVE  RecordingInv' /\ UNCHANGED vars
    <3>1. UNCHANGED vars
      BY <2>1 DEF BeginRecord, Begin
    <3>2. RecordingInv'
      BY <2>1, RecordBegins
    <3> QED BY <3>1, <3>2
  <2>2. ASSUME NEW i \in Invoices, BeginSend(s, i)
        PROVE  RecordingInv' /\ UNCHANGED vars
    <3>1. ASSUME NEW u \in Sessions, NEW w \in Sessions, u # w,
                 session'[u].op = "send", session'[w].op = "send"
          PROVE  session'[u].i # session'[w].i
      BY <1>1, <3>1 DEF InFlight
    <3>2. \A u \in Sessions : session'[u].op = "record" => session'[u] = session[u]
      BY <2>2 DEF BeginSend, Begin, SessionsInv, Idle
    <3>3. Apart(session')
      BY <3>1, <3>2 DEF Apart, RecordingInv
    <3>4. RecordingInv'
      BY <2>2, <3>3, SendBegins
    <3>5. UNCHANGED vars
      BY <2>2 DEF BeginSend, Begin
    <3> QED BY <3>4, <3>5
  <2>3. ASSUME NEW txn, Begin(s, txn) PROVE txn.op \in {"record", "send", "idle"}
    <3>1. session'[s] = txn
      BY <2>3 DEF Begin, SessionsInv
    <3> QED BY <1>1, <3>1
  <2>4. ASSUME NEW p \in Payments, NEW i \in Invoices, NEW cents, BeginApply(s, p, i, cents)
        PROVE  FALSE
    <3> DEFINE txn == [Idle EXCEPT
                   !.op = "apply", !.step = "allocate", !.p = p, !.i = i,
                   !.cents = cents, !.pay = payment[p], !.newPay = payment[p],
                   !.inv = invoice[i], !.newInv = invoice[i],
                   !.inserts = alloc[p][i].applied = 0,
                   !.found = alloc[p][i].applied > 0]
    <3>1. Begin(s, txn)
      BY <2>4 DEF BeginApply
    <3>2. txn.op = "apply"
      BY DEF Idle
    <3> HIDE DEF txn
    <3> QED BY <2>3, <3>1, <3>2
  <2>5. ASSUME NEW p \in Payments, NEW i \in Invoices, BeginUnapply(s, p, i)
        PROVE  FALSE
    <3> DEFINE txn == [Idle EXCEPT
                   !.op = "unapply", !.step = "allocate", !.p = p, !.i = i, !.found = TRUE,
                   !.pay = payment[p], !.newPay = payment[p]]
    <3>1. Begin(s, txn)
      BY <2>5 DEF BeginUnapply
    <3>2. txn.op = "unapply"
      BY DEF Idle
    <3> HIDE DEF txn
    <3> QED BY <2>3, <3>1, <3>2
  <2>6. ASSUME NEW p \in Payments, NEW i \in Invoices, NEW pool, NEW cents,
               BeginRefund(s, p, i, pool, cents)
        PROVE  FALSE
    <3> DEFINE row         == payment[p]
               newApplied  == NetOfPayment(alloc, p) - cents
               newRefunded == row.refunded + pool + cents
               txn == [Idle EXCEPT
                   !.op = "refund", !.step = IF cents > 0 THEN "allocate" ELSE "flush",
                   !.p = p, !.i = i, !.pool = pool, !.cents = cents,
                   !.found = cents > 0, !.pay = row,
                   !.newPay = [row EXCEPT
                       !.applied   = newApplied,
                       !.refunded  = newRefunded,
                       !.unapplied = row.amount - newApplied - newRefunded,
                       !.status    = RefundStatus(row.amount, newRefunded)]]
    <3>1. Begin(s, txn)
      BY <2>6 DEF BeginRefund
    <3>2. txn.op = "refund"
      BY DEF Idle
    <3> HIDE DEF txn
    <3> QED BY <2>3, <3>1, <3>2
  <2>7. ASSUME NEW i \in Invoices, BeginCancel(s, i) PROVE FALSE
    <3> DEFINE txn == [Idle EXCEPT
                   !.op = "cancel", !.step = "flush", !.i = i, !.inv = invoice[i],
                   !.newInv = [invoice[i] EXCEPT !.status = "cancelled"]]
    <3>1. Begin(s, txn)
      BY <2>7 DEF BeginCancel
    <3>2. txn.op = "cancel"
      BY DEF Idle
    <3> HIDE DEF txn
    <3> QED BY <2>3, <3>1, <3>2
  <2> QED BY <1>2, <2>1, <2>2, <2>4, <2>5, <2>6, <2>7 DEF BeginCall
<1>3. ASSUME NEW s \in Sessions,
             AssignNumber(s) \/ WriteAllocation(s) \/ Recompute(s) \/ Rollback(s)
      PROVE  RecordingInv' /\ UNCHANGED vars
  <2>1. UNCHANGED vars
    BY <1>3 DEF AssignNumber, WriteAllocation, Recompute, Rollback, Continue
  <2>2. RecordingInv'
    BY <1>3, RecordAdvances
  <2> QED BY <2>1, <2>2
<1>4. ASSUME NEW s \in Sessions, Commit(s) PROVE RecordingInv' /\ Next
  BY <1>4, CommitKeepsRecording
<1>5. ASSUME NEW i \in Invoices, Prepare(i) PROVE RecordingInv' /\ Next
  BY <1>5, PrepareKeepsRecording
<1> QED BY <1>2, <1>3, <1>4, <1>5 DEF SessionsNext, Advance

\* Every step of a mix keeps the invariant; in the recording mix it maps to
\* a step of the abstract ledger or to a stutter.
LEMMA MixedNextKeeps ==
    ASSUME MixedInv, [MixedNext]_<<sessionVars, mix>>
    PROVE  MixedInv' /\ (mix = "recording" => [Next]_vars)
<1>1. SessionsInv'
  BY SessionsNextKeeps DEF MixedInv, MixedNext
<1>2. CASE MixedNext
  BY <1>1, <1>2, RecordingStep DEF MixedInv, MixedNext
<1>3. CASE UNCHANGED <<sessionVars, mix>>
  <2>1. UNCHANGED vars /\ session' = session
    BY <1>3 DEF sessionVars
  <2>2. RecordingInv => RecordingInv'
    BY <2>1, StutterKeeps DEF RecordingInv, vars
  <2> QED BY <1>1, <1>3, <2>1, <2>2 DEF MixedInv
<1> QED BY <1>2, <1>3

\* However many recordings overlap on the same invoices, the tables move as if
\* each ran alone: every commit is one RecordPayment or one MarkSent, every other
\* statement leaves them alone.
THEOREM RecordingImplements == MixedSpec => RecordingImplementsLedger
<1>1. MixedInit => Init
  BY DEF MixedInit, SessionsInit
<1>2. MixedInv /\ [MixedNext]_<<sessionVars, mix>> => MixedInv'
  BY MixedNextKeeps
<1>3. MixedInv /\ [MixedNext]_<<sessionVars, mix>>
        => [mix = "recording" => [Next]_vars]_<<sessionVars, mix>>
  BY MixedNextKeeps
<1> QED
  BY <1>1, <1>2, <1>3, MixedInitKeeps, PTL DEF MixedSpec, RecordingImplementsLedger
=============================================================================
