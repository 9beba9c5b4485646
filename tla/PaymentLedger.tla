---------------------------- MODULE PaymentLedger ----------------------------
(***************************************************************************)
(* The receivables ledger of the deals module: payments, their allocations *)
(* to invoices, refunds, and the invoice lifecycle that the money drives   *)
(* (payment_service.py and the money-bearing part of invoice_service.py).  *)
(*                                                                         *)
(* Each action is one service call together with the COMMIT of the router  *)
(* that made it, run alone: this module is what the services promise when  *)
(* no two of them overlap.  LedgerSessions takes the calls apart into the  *)
(* statements Postgres interleaves and asks which of them keep the promise.*)
(*                                                                         *)
(* One variable per table.  A row that does not exist yet has status       *)
(* "none"; an allocation that does not exist has applied = 0 (the CHECK    *)
(* chk_alloc_applied_pos keeps every stored one positive).                 *)
(***************************************************************************)
EXTENDS Cents, Sequences

CONSTANTS
    Payments,   \* payment ids that may be recorded
    Invoices,   \* invoice ids that may be created
    Amounts,    \* gross amounts a payment may carry, in cents
    Totals,     \* invoice totals the line items may add up to, in cents
    Plans,      \* installment schedules staff may enter
    Fees,       \* late fees the reminder pass may charge, in cents
    MaxTotal    \* bound: late fees stop once a schedule has reached it

\* One row of invoice_installments; a sequence of rows is in sort_order.
Installment == [amount : Nat \ {0}, due : Nat, stamped : BOOLEAN]

ASSUME LedgerAssumption ==
    /\ IsFiniteSet(Payments)
    /\ IsFiniteSet(Invoices)
    /\ Amounts \subseteq Nat \ {0}
    /\ Totals \subseteq Nat
    /\ Plans \subseteq {plan \in Seq(Installment) :
                          \A k \in DOMAIN plan : ~plan[k].stamped}
    /\ Fees \subseteq Nat \ {0}
    /\ MaxTotal \in Nat

VARIABLES
    invoice,    \* table invoices, with the schedule of each
    payment,    \* table payments
    alloc,      \* table payment_allocations, UNIQUE (payment_id, invoice_id)
    refundLog   \* table refund_events, summed per payment and allocation

vars == <<invoice, payment, alloc, refundLog>>

-----------------------------------------------------------------------------
(***************************************************************************)
(* Rows                                                                    *)
(***************************************************************************)
InvoiceStatus == {"none", "draft", "sent", "partial", "paid", "cancelled"}

InvoiceRow == [status : InvoiceStatus, deleted : BOOLEAN, discounted : BOOLEAN,
               total : Nat, paid : Nat, plan : Seq(Installment)]

NoInvoice == [status |-> "none", deleted |-> FALSE, discounted |-> FALSE,
              total |-> 0, paid |-> 0, plan |-> <<>>]

PaymentStatus == {"none", "completed", "partially_refunded", "refunded"}

PaymentRow == [status : PaymentStatus, amount : Nat, applied : Nat,
               unapplied : Nat, refunded : Nat]

NoPayment == [status |-> "none", amount |-> 0, applied |-> 0,
              unapplied |-> 0, refunded |-> 0]

AllocationRow == [applied : Nat, refunded : Nat]

NoAllocation == [applied |-> 0, refunded |-> 0]

RefundRow == [pool : Nat, slices : [Invoices -> Nat]]

NoRefund == [pool |-> 0, slices |-> [i \in Invoices |-> 0]]

-----------------------------------------------------------------------------
(***************************************************************************)
(* Sums and schedules                                                      *)
(***************************************************************************)

\* applied_cents - refunded_cents of one allocation.
Net(row) == row.applied - row.refunded

\* SUM(applied - refunded) over the allocations a of payment p.
NetOfPayment(a, p) == Total([i \in Invoices |-> Net(a[p][i])], Invoices)

\* SUM(applied - refunded) over the allocations a to invoice i.
NetOfInvoice(a, i) == Total([p \in Payments |-> Net(a[p][i])], Payments)

PlanTotal(plan) == Total([k \in DOMAIN plan |-> plan[k].amount], DOMAIN plan)

\* _validate_schedule: one to three installments that add up to the total.
Balanced(plan, total) == Len(plan) \in 1..3 /\ PlanTotal(plan) = total

\* Rows that fall due no later than row k: the order of the payment walk is
\* due_date, then sort_order.
DueThrough(plan, k) ==
    {j \in DOMAIN plan : \/ plan[j].due < plan[k].due
                         \/ plan[j].due = plan[k].due /\ j <= k}

\* Faulty form of Restamped: paid_at is stamped but never cleared again.
RestampedOnlyForward(plan, money) ==
    [k \in DOMAIN plan |->
        [plan[k] EXCEPT !.stamped =
            \/ plan[k].stamped
            \/ /\ money > 0
               /\ Total([j \in DOMAIN plan |-> plan[j].amount],
                        DueThrough(plan, k)) <= money]]

\* The walk that stamps and unstamps paid_at so that exactly the rows the
\* money has reached, in due order, carry a stamp.
Restamped(plan, money) ==
    [k \in DOMAIN plan |->
        [plan[k] EXCEPT !.stamped =
            /\ money > 0
            /\ Total([j \in DOMAIN plan |-> plan[j].amount],
                     DueThrough(plan, k)) <= money]]

StampedRows(plan) == {k \in DOMAIN plan : plan[k].stamped}

\* Faulty form of the definition below: a cancelled invoice is derived like any
\* other.
DerivedStatusAlways(status, total, money) ==
    IF status \in {"none", "draft"} THEN status
    ELSE IF total > 0 /\ money >= total THEN "paid"
    ELSE IF money > 0 THEN "partial" ELSE "sent"

\* The status _recompute_invoice_totals derives; draft and cancelled stick.
DerivedStatus(status, total, money) ==
    IF status \in {"none", "draft", "cancelled"} THEN status
    ELSE IF total > 0 /\ money >= total THEN "paid"
    ELSE IF money > 0 THEN "partial" ELSE "sent"

\* The invoice row after _recompute_invoice_totals found `money` allocated.
Recomputed(row, money) ==
    [row EXCEPT !.paid   = money,
                !.status = DerivedStatus(row.status, row.total, money),
                !.plan   = Restamped(row.plan, money)]

\* The status a payment derives from what has been refunded of it.
RefundStatus(amount, refunded) ==
    IF refunded = 0 THEN "completed"
    ELSE IF refunded < amount THEN "partially_refunded" ELSE "refunded"

\* Faulty form of Reapplied: a column of the split is left stale.
ReappliedKeepingPool(row, money) ==
    [row EXCEPT !.applied = money,
                !.status  = RefundStatus(row.amount, row.refunded)]

\* The payment row after _recompute_payment_totals found `money` applied.
Reapplied(row, money) ==
    [row EXCEPT !.applied   = money,
                !.unapplied = row.amount - row.refunded - money,
                !.status    = RefundStatus(row.amount, row.refunded)]

\* Faulty form of InvoicesAfter: cancelled invoices are not recomputed.
InvoicesAfterSkippingCancelled(a, touched) ==
    [i \in Invoices |-> IF i \in touched /\ invoice[i].status # "cancelled"
                        THEN Recomputed(invoice[i], NetOfInvoice(a, i))
                        ELSE invoice[i]]

\* The invoices table after recomputing every invoice of `touched`.
InvoicesAfter(a, touched) ==
    [i \in Invoices |-> IF i \in touched
                        THEN Recomputed(invoice[i], NetOfInvoice(a, i))
                        ELSE invoice[i]]

\* SUM(allocations) <= amount_cents.
SlicesFit(amount, slices) == Total(slices, Invoices) <= amount

\* An edit of a sent or partial invoice must leave its schedule balanced; the
\* faulty form validates only when the schedule itself was replaced.
EditBalancedIfReplanned(live, replan, plan, total) ==
    live /\ replan => Balanced(plan, total)
EditBalanced(live, replan, plan, total) == live => Balanced(plan, total)

\* The schedule after row k took a late fee.
FeeAdded(plan, k, fee) ==
    [plan EXCEPT ![k].amount = @ + fee]

\* What the line of a fee may cost: the fee itself, or less when an order
\* discount is in force, which applies to every line.
FeeLine(discounted, fee) == IF discounted THEN 0..fee ELSE {fee}

\* Money may be allocated to a live invoice that has been sent.
Allocatable(i) ==
    /\ ~invoice[i].deleted
    /\ invoice[i].status \in {"sent", "partial", "paid"}

\* payment.status in ('completed', 'partially_refunded').
Spendable(p) == payment[p].status \in {"completed", "partially_refunded"}

-----------------------------------------------------------------------------
Init ==
    /\ invoice = [i \in Invoices |-> NoInvoice]
    /\ payment = [p \in Payments |-> NoPayment]
    /\ alloc = [p \in Payments |-> [i \in Invoices |-> NoAllocation]]
    /\ refundLog = [p \in Payments |-> NoRefund]

(***************************************************************************)
(* invoice_service.py                                                      *)
(***************************************************************************)
CreateInvoice(i, total, plan, discounted) ==
    /\ invoice[i].status = "none"
    /\ plan = <<>> \/ Balanced(plan, total)
    /\ invoice' = [invoice EXCEPT ![i] =
                     [status |-> "draft", deleted |-> FALSE,
                      discounted |-> discounted, total |-> total,
                      paid |-> 0, plan |-> plan]]
    /\ UNCHANGED <<payment, alloc, refundLog>>

\* A PATCH of the lines (a new total), of the discount stack and, when
\* replan holds, of the schedule, whose rows are deleted and inserted anew.
UpdateInvoice(i, total, discounted, replan, plan) ==
    LET live    == invoice[i].status \in {"sent", "partial"}
        newPlan == IF replan THEN plan ELSE invoice[i].plan
    IN  /\ invoice[i].status = "draft" \/ live
        /\ replan => Len(plan) <= 3
        /\ live /\ replan =>
              Len(plan) >= Cardinality(StampedRows(invoice[i].plan))
        /\ EditBalanced(live, replan, newPlan, total)
        /\ invoice[i].paid <= total               \* chk_invoice_paid_le_total
        /\ invoice' = [invoice EXCEPT ![i].total = total,
                                      ![i].discounted = discounted,
                                      ![i].plan = newPlan]
        /\ UNCHANGED <<payment, alloc, refundLog>>

MarkSent(i) ==
    /\ invoice[i].status = "draft"
    /\ Balanced(invoice[i].plan, invoice[i].total)
    /\ invoice' = [invoice EXCEPT ![i].status = "sent"]
    /\ UNCHANGED <<payment, alloc, refundLog>>

\* A draft has no invoice_number, so chk_invoice_number_when_not_draft
\* refuses the UPDATE and the request fails: only a sent or partial invoice
\* reaches "cancelled".
CancelInvoice(i) ==
    /\ invoice[i].status \in {"sent", "partial"}
    /\ invoice' = [invoice EXCEPT ![i].status = "cancelled"]
    /\ UNCHANGED <<payment, alloc, refundLog>>

SoftDeleteInvoice(i) ==
    /\ invoice[i].status = "draft"
    /\ ~invoice[i].deleted
    /\ invoice' = [invoice EXCEPT ![i].deleted = TRUE]
    /\ UNCHANGED <<payment, alloc, refundLog>>

\* The fee line costs `line` cents, which is the fee unless an order discount
\* shrinks it; the next unpaid installment takes the whole fee.  Its one
\* caller, run_reminder_pass, catches the error of the _validate_schedule at
\* its end and commits all the same, so that check stops nothing.
AppendLateFee(i, fee, line) ==
    /\ ~invoice[i].deleted
    /\ invoice[i].status \in {"sent", "partial"}
    /\ line \in FeeLine(invoice[i].discounted, fee)
    /\ PlanTotal(invoice[i].plan) + fee <= MaxTotal
    /\ \E k \in DOMAIN invoice[i].plan :
          /\ ~invoice[i].plan[k].stamped
          /\ \A j \in 1..(k - 1) : invoice[i].plan[j].stamped
          /\ invoice' = [invoice EXCEPT ![i].total = @ + line,
                                        ![i].plan = FeeAdded(@, k, fee)]
    /\ UNCHANGED <<payment, alloc, refundLog>>

(***************************************************************************)
(* payment_service.py                                                      *)
(***************************************************************************)

\* slices[i] cents of the payment go to invoice i; 0 when i is not listed.
RecordPayment(p, amount, slices) ==
    LET listed == {i \in Invoices : slices[i] > 0}
        spent  == Total(slices, Invoices)
        rows   == [i \in Invoices |-> [applied |-> slices[i], refunded |-> 0]]
    IN  /\ payment[p].status = "none"
        /\ SlicesFit(amount, slices)
        /\ \A i \in listed :
              Allocatable(i) /\ invoice[i].paid + slices[i] <= invoice[i].total
        /\ payment' = [payment EXCEPT ![p] =
                         [status |-> "completed", amount |-> amount,
                          applied |-> spent, unapplied |-> amount - spent,
                          refunded |-> 0]]
        /\ alloc' = [alloc EXCEPT ![p] = rows]
        /\ invoice' = InvoicesAfter(alloc', listed)
        /\ UNCHANGED refundLog

ApplyUnapplied(p, i, cents) ==
    /\ Spendable(p)
    /\ cents <= payment[p].unapplied
    /\ Allocatable(i)
    /\ invoice[i].paid + cents <= invoice[i].total
    /\ alloc' = [alloc EXCEPT ![p][i].applied = @ + cents]
    /\ payment' = [payment EXCEPT ![p] = Reapplied(@, NetOfPayment(alloc', p))]
    /\ invoice' = InvoicesAfter(alloc', {i})
    /\ UNCHANGED refundLog

\* Faulty form of UnapplyAllocation: a refunded allocation may go too.
UnapplyEvenIfRefunded(p, i) ==
    /\ alloc[p][i].applied > 0
    /\ alloc' = [alloc EXCEPT ![p][i] = NoAllocation]
    /\ payment' = [payment EXCEPT ![p] = Reapplied(@, NetOfPayment(alloc', p))]
    /\ invoice' = InvoicesAfter(alloc', {i})
    /\ UNCHANGED refundLog

UnapplyAllocation(p, i) ==
    /\ alloc[p][i].applied > 0
    /\ alloc[p][i].refunded = 0
    /\ alloc' = [alloc EXCEPT ![p][i] = NoAllocation]
    /\ payment' = [payment EXCEPT ![p] = Reapplied(@, NetOfPayment(alloc', p))]
    /\ invoice' = InvoicesAfter(alloc', {i})
    /\ UNCHANGED refundLog

\* `pool` cents come out of the unapplied pool and slices[i] cents are clawed
\* back from the allocation to invoice i (0: not listed).
RecordRefund(p, pool, slices) ==
    LET listed == {i \in Invoices : slices[i] > 0}
        cents  == pool + Total(slices, Invoices)
        row    == payment[p]
    IN  /\ Spendable(p)
        /\ cents > 0
        /\ cents <= row.amount - row.refunded
        /\ pool <= row.unapplied
        /\ \A i \in listed : slices[i] <= Net(alloc[p][i])
        /\ alloc' = [alloc EXCEPT ![p] =
                       [i \in Invoices |->
                          [applied  |-> alloc[p][i].applied,
                           refunded |-> alloc[p][i].refunded + slices[i]]]]
        /\ LET newApplied  == NetOfPayment(alloc', p)
               newRefunded == row.refunded + cents
           IN  payment' = [payment EXCEPT ![p] =
                 [row EXCEPT
                    !.applied   = newApplied,
                    !.refunded  = newRefunded,
                    !.unapplied = row.amount - newApplied - newRefunded,
                    !.status    = RefundStatus(row.amount, newRefunded)]]
        /\ refundLog' = [refundLog EXCEPT ![p] =
                           [pool   |-> refundLog[p].pool + pool,
                            slices |-> [i \in Invoices |->
                                          refundLog[p].slices[i] + slices[i]]]]
        /\ invoice' = InvoicesAfter(alloc', listed)

-----------------------------------------------------------------------------
(***************************************************************************)
(* The ways a payment of at most `amount` cents can be sliced              *)
(***************************************************************************)
SlicesUpTo(amount) == [Invoices -> 0..amount]

InvoiceStep ==
    \E i \in Invoices :
        \/ \E total \in Totals, plan \in Plans \cup {<<>>}, d \in BOOLEAN :
              CreateInvoice(i, total, plan, d)
        \/ \E total \in Totals \cup {invoice[i].total}, d \in BOOLEAN :
              \/ \E plan \in Plans \cup {<<>>} :
                    UpdateInvoice(i, total, d, TRUE, plan)
              \/ UpdateInvoice(i, total, d, FALSE, <<>>)
        \/ MarkSent(i)
        \/ CancelInvoice(i)
        \/ SoftDeleteInvoice(i)
        \/ \E fee \in Fees : \E line \in 0..fee : AppendLateFee(i, fee, line)

PaymentStep ==
    \E p \in Payments :
        \/ \E amount \in Amounts : \E slices \in SlicesUpTo(amount) :
              RecordPayment(p, amount, slices)
        \/ \E i \in Invoices, cents \in 1..payment[p].unapplied :
              ApplyUnapplied(p, i, cents)
        \/ \E i \in Invoices : UnapplyAllocation(p, i)
        \/ \E pool \in 0..payment[p].unapplied,
              slices \in SlicesUpTo(payment[p].applied) :
              RecordRefund(p, pool, slices)

Next == InvoiceStep \/ PaymentStep

Spec == Init /\ [][Next]_vars

-----------------------------------------------------------------------------
(***************************************************************************)
(* Properties                                                              *)
(***************************************************************************)

\* Every row has its type: no derived column ever goes negative.
TypeOK ==
    /\ invoice \in [Invoices -> InvoiceRow]
    /\ payment \in [Payments -> PaymentRow]
    /\ alloc \in [Payments -> [Invoices -> AllocationRow]]
    /\ refundLog \in [Payments -> RefundRow]

\* The four-way split of payment_service.py:3: what was received is what is
\* applied, what was refunded and what is left in the pool, whatever sequence
\* of applies, unapplies and refunds the payment went through; and no
\* allocation is refunded beyond what was applied to it.
FourWaySplit ==
    \A p \in Payments :
        /\ payment[p].amount = payment[p].applied + payment[p].refunded
                                                  + payment[p].unapplied
        /\ \A i \in Invoices : alloc[p][i].refunded <= alloc[p][i].applied

\* payments.applied_cents is the sum of the payment's live allocations
\* (the first half of the lockstep of payment_service.py:5-7).
PaymentLockstep ==
    \A p \in Payments : payment[p].applied = NetOfPayment(alloc, p)

\* invoices.paid_to_date_cents is the sum of the allocations to the invoice,
\* and never more than its total, across payments, refunds and edits.
InvoiceLockstep ==
    \A i \in Invoices :
        /\ invoice[i].paid = NetOfInvoice(alloc, i)
        /\ invoice[i].paid <= invoice[i].total

\* The refund history explains every refunded cent: per allocation and per
\* payment, the refund_events add up to the refunded columns.  Deleting an
\* allocation that was refunded would lose it ("the refund history would be
\* lost", unapply_allocation).
RefundHistory ==
    \A p \in Payments :
        /\ payment[p].refunded = refundLog[p].pool
                                    + Total(refundLog[p].slices, Invoices)
        /\ \A i \in Invoices : refundLog[p].slices[i] = alloc[p][i].refunded

\* An invoice's status and its money never contradict each other: paid means
\* covered in full, sent means nothing received, a draft holds no money.
StatusMatchesMoney ==
    \A i \in Invoices :
        LET row == invoice[i]
        IN  /\ row.status = "paid" => row.paid = row.total /\ row.total > 0
            /\ row.status = "partial" => row.paid > 0
            /\ row.status \in {"none", "draft", "sent"} => row.paid = 0

\* The derived columns of payments: through any mix of payments, reallocations
\* and refunds they are what the allocations and refund_events say
\* (_recompute_payment_totals, payment_service.py:1013).
PaymentColumns == FourWaySplit /\ PaymentLockstep /\ RefundHistory

\* Those of invoices: the money received and the status that follows from it
\* (_recompute_invoice_totals, payment_service.py:1042).
InvoiceColumns == InvoiceLockstep /\ StatusMatchesMoney

InForce(i) == invoice[i].status \in {"sent", "partial", "paid"}

\* append_late_fee: the fee goes to one installment "so the schedule stays
\* balanced": from the moment it is sent until it is cancelled, an invoice's
\* schedule adds up to its total, through edits, late fees and payments.
\* The code breaks it (README, Disagreements).
ScheduleBalanced ==
    \A i \in Invoices :
        InForce(i) => Balanced(invoice[i].plan, invoice[i].total)

\* What does hold of it: the schedule never asks for less than the total, and
\* asks for more only when an order discount has shrunk a late fee.
ScheduleCoversTotal ==
    \A i \in Invoices :
        LET row == invoice[i]
        IN  InForce(i) =>
               /\ PlanTotal(row.plan) >= row.total
               /\ ~row.discounted => Balanced(row.plan, row.total)

\* The reminder pass trusts the stamps: a stamped installment is one the
\* money received really covers, and a paid invoice whose schedule is balanced
\* has no unstamped one left.
StampsTrustworthy ==
    \A i \in Invoices :
        LET plan == invoice[i].plan
        IN  /\ Total([k \in DOMAIN plan |-> plan[k].amount], StampedRows(plan))
                  <= invoice[i].paid
            /\ invoice[i].status = "paid" /\ Balanced(plan, invoice[i].total) =>
                  StampedRows(plan) = DOMAIN plan

\* A cancelled invoice stays cancelled and takes no further money ("Cancelled
\* / reversed / draft never auto-derive", _recompute_invoice_totals); money
\* already on it may only be clawed back.
CancelledIsFinal ==
    [][\A i \in Invoices :
         invoice[i].status = "cancelled" =>
            /\ invoice'[i].status = "cancelled"
            /\ invoice'[i].paid <= invoice[i].paid]_vars

\* A refund is never forgotten: what was refunded of a payment or of one of
\* its allocations only grows, and a fully refunded payment changes no more.
RefundsAreForever ==
    [][\A p \in Payments :
         /\ payment[p].refunded <= payment'[p].refunded
         /\ \A i \in Invoices : alloc[p][i].refunded <= alloc'[p][i].refunded
         /\ payment[p].status = "refunded" => payment'[p] = payment[p]]_vars
=============================================================================
