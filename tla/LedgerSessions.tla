--------------------------- MODULE LedgerSessions ---------------------------
(***************************************************************************)
(* The service calls of PaymentLedger as Postgres runs them: every call is *)
(* a transaction at READ COMMITTED, several of them in flight at once.  A  *)
(* call loads its rows, checks its guards on what it loaded, writes its    *)
(* allocation row (which locks it), sums what is committed by then plus    *)
(* what it wrote itself, and at the final flush writes the columns whose   *)
(* value it changed since it LOADED them: the ORM sends no others, and     *)
(* takes no lock on an invoice or a payment before that.  Only             *)
(* _assign_payment_number and _assign_invoice_number lock anything early.  *)
(*                                                                         *)
(* Two simplifications, neither of which removes a lost update: the loads  *)
(* that open a call are one step, and the flush is one step with COMMIT (no*)
(* session can see the one without the other).  A call touches at most one *)
(* invoice.                                                                *)
(***************************************************************************)
EXTENDS PaymentLedger

CONSTANTS
    Sessions,   \* database sessions, one request each
    Ops         \* the calls that may be in flight together

OpNames == {"record", "apply", "unapply", "refund", "cancel", "send"}

ASSUME SessionsAssumption ==
    /\ Ops \subseteq OpNames
    /\ "none" \notin Payments \cup Invoices

VARIABLES
    session,    \* the transaction each session is in
    number,     \* invoices.invoice_number, 0 when NULL
    lastNumber  \* numbering_state.invoice_seq

sessionVars == <<vars, session, number, lastNumber>>

-----------------------------------------------------------------------------
(***************************************************************************)
(* What a transaction remembers.  pay and inv are the rows as loaded,      *)
(* newPay and newInv the same rows after its assignments; equal fields are *)
(* not written.  inserts: it found no allocation and will create one.      *)
(* found: the allocation it loaded still exists.  holds: it has written    *)
(* the allocation row `row` and holds its lock.  numbers: it holds the     *)
(* lock of numbering_state, where it drew seq.                             *)
(***************************************************************************)
Idle == [op |-> "idle", step |-> "idle", p |-> "none", i |-> "none",
         cents |-> 0, pool |-> 0, pay |-> NoPayment, newPay |-> NoPayment,
         inv |-> NoInvoice, newInv |-> NoInvoice,
         row |-> NoAllocation, inserts |-> FALSE, found |-> FALSE,
         holds |-> FALSE, numbers |-> FALSE, seq |-> 0]

InFlight(op) == {s \in Sessions : session[s].op = op}

\* Nobody else holds the lock of the allocation row (p, i); nobody holds that
\* of numbering_state.  The faulty form reads the sequence without FOR UPDATE.
RowFree(s, p, i) ==
    \A t \in Sessions \ {s} :
        ~(session[t].holds /\ session[t].p = p /\ session[t].i = i)
NumberingUnlocked == TRUE
NumberingFree == \A t \in Sessions : ~session[t].numbers

\* The allocations session s sees: committed ones and its own.
Seen(s) ==
    IF session[s].holds
    THEN [alloc EXCEPT ![session[s].p][session[s].i] = session[s].row]
    ELSE alloc

\* The columns of an UPDATE are those that differ from what was loaded.
Written(current, loaded, new) ==
    [c \in DOMAIN current |->
        IF new[c] # loaded[c] THEN new[c] ELSE current[c]]

\* Installment stamps are written one row at a time by raw SQL.
InvoiceWritten(current, loaded, new) ==
    [Written(current, loaded, new)
        EXCEPT !.plan = [k \in DOMAIN current.plan |->
            Written(current.plan[k], loaded.plan[k], new.plan[k])]]

\* The CHECK constraints of payments and of invoices.
PaymentCheck(row) ==
    /\ {row.applied, row.unapplied, row.refunded} \subseteq Nat
    /\ row.refunded <= row.amount
    /\ row.amount = row.applied + row.refunded + row.unapplied

InvoiceCheck(row) == row.paid <= row.total

-----------------------------------------------------------------------------
SessionsInit ==
    /\ Init
    /\ session = [s \in Sessions |-> Idle]
    /\ number = [i \in Invoices |-> 0]
    /\ lastNumber = 0

Begin(s, txn) ==
    /\ txn.op \in Ops
    /\ session[s] = Idle
    /\ session' = [session EXCEPT ![s] = txn]
    /\ UNCHANGED <<vars, number, lastNumber>>

\* record_payment up to _assign_payment_number: the invoice is loaded and
\* its balance checked.  A payment id is used by one call only.
BeginRecord(s, p, i, amount, cents) ==
    /\ payment[p].status = "none"
    /\ \A t \in InFlight("record") : session[t].p # p
    /\ cents <= amount
    /\ cents > 0 => Allocatable(i) /\ invoice[i].paid + cents <= invoice[i].total
    /\ Begin(s, [Idle EXCEPT
           !.op = "record", !.step = "number", !.p = p, !.i = i, !.cents = cents,
           !.inv = invoice[i], !.newInv = invoice[i],
           !.newPay = [status |-> "completed", amount |-> amount, applied |-> cents,
                       unapplied |-> amount - cents, refunded |-> 0]])

\* apply_unapplied up to the SELECT of an existing allocation.
BeginApply(s, p, i, cents) ==
    /\ Spendable(p)
    /\ cents <= payment[p].unapplied
    /\ Allocatable(i)
    /\ invoice[i].paid + cents <= invoice[i].total
    /\ Begin(s, [Idle EXCEPT
           !.op = "apply", !.step = "allocate", !.p = p, !.i = i, !.cents = cents,
           !.pay = payment[p], !.newPay = payment[p],
           !.inv = invoice[i], !.newInv = invoice[i],
           !.inserts = alloc[p][i].applied = 0,
           !.found = alloc[p][i].applied > 0])

BeginUnapply(s, p, i) ==
    /\ alloc[p][i].applied > 0
    /\ alloc[p][i].refunded = 0
    /\ Begin(s, [Idle EXCEPT
           !.op = "unapply", !.step = "allocate", !.p = p, !.i = i, !.found = TRUE,
           !.pay = payment[p], !.newPay = payment[p]])

\* record_refund up to the first UPDATE: the new payment row is computed from
\* what was loaded, and asserted not to overdraw the pool.
BeginRefund(s, p, i, pool, cents) ==
    LET row         == payment[p]
        newApplied  == NetOfPayment(alloc, p) - cents
        newRefunded == row.refunded + pool + cents
    IN  /\ Spendable(p)
        /\ pool + cents > 0
        /\ pool + cents <= row.amount - row.refunded
        /\ pool <= row.unapplied
        /\ cents > 0 => cents <= Net(alloc[p][i])
        /\ newApplied + newRefunded <= row.amount
        /\ Begin(s, [Idle EXCEPT
               !.op = "refund", !.step = IF cents > 0 THEN "allocate" ELSE "flush",
               !.p = p, !.i = i, !.pool = pool, !.cents = cents,
               !.found = cents > 0, !.pay = row,
               !.newPay = [row EXCEPT
                   !.applied   = newApplied,
                   !.refunded  = newRefunded,
                   !.unapplied = row.amount - newApplied - newRefunded,
                   !.status    = RefundStatus(row.amount, newRefunded)]])

\* cancel_invoice loads, checks and assigns; nothing is locked.
BeginCancel(s, i) ==
    /\ invoice[i].status \in {"sent", "partial"}
    /\ Begin(s, [Idle EXCEPT
           !.op = "cancel", !.step = "flush", !.i = i, !.inv = invoice[i],
           !.newInv = [invoice[i] EXCEPT !.status = "cancelled"]])

\* mark_sent up to _assign_invoice_number.
BeginSend(s, i) ==
    /\ invoice[i].status = "draft"
    /\ Balanced(invoice[i].plan, invoice[i].total)
    /\ Begin(s, [Idle EXCEPT
           !.op = "send", !.step = "number", !.i = i, !.inv = invoice[i],
           !.newInv = [invoice[i] EXCEPT !.status = "sent"]])

-----------------------------------------------------------------------------
(***************************************************************************)
(* The rest of a transaction                                               *)
(***************************************************************************)
Continue(s, txn) ==
    /\ session' = [session EXCEPT ![s] = txn]
    /\ UNCHANGED <<vars, number, lastNumber>>

\* SELECT ... FROM numbering_state WHERE id = 1 FOR UPDATE: waits for whoever
\* holds the row.  record_payment then inserts its payment and allocation.
AssignNumber(s) ==
    LET t == session[s]
    IN  /\ t.step = "number"
        /\ NumberingFree
        /\ IF t.op = "record" /\ t.cents > 0
           THEN Continue(s, [t EXCEPT !.numbers = TRUE, !.step = "sum",
                                      !.holds = TRUE,
                                      !.row = [applied |-> t.cents, refunded |-> 0]])
           ELSE Continue(s, [t EXCEPT !.numbers = TRUE, !.step = "flush",
                                      !.seq = lastNumber + 1])

\* The allocation row after the statement of session s ran on it.
AllocationAfter(t) ==
    LET row == alloc[t.p][t.i]
    IN  CASE t.op = "apply"   -> [row EXCEPT !.applied = @ + t.cents]
          [] t.op = "refund"  -> [row EXCEPT !.refunded = @ + t.cents]
          [] t.op = "unapply" -> NoAllocation

\* What is left of a call whose statement was refused: nothing.  The faulty
\* form keeps the transaction open to try the same statement again.
Retried(t) == t
Refused(t) == Idle

\* INSERT, UPDATE or DELETE of the allocation row: waits for its lock.  An
\* UPDATE or DELETE of a row that is gone matches nothing and the call goes
\* on; an INSERT of a row that came into being meanwhile violates the unique
\* key and an over-refund violates chk_alloc_refunded_le_applied: both roll
\* the call back.
WriteAllocation(s) ==
    LET t       == session[s]
        exists  == alloc[t.p][t.i].applied > 0
        row     == AllocationAfter(t)
    IN  /\ t.step = "allocate"
        /\ RowFree(s, t.p, t.i)
        /\ IF (t.inserts /\ exists) \/ (t.found /\ row.refunded > row.applied)
           THEN Continue(s, Refused(t))
           ELSE Continue(s, [t EXCEPT !.step = "sum", !.row = row,
                                      !.holds = t.inserts \/ t.found])

\* _recompute_payment_totals (not for record and refund) and
\* _recompute_invoice_totals.  The sums are fresh; the rows they are written
\* to are as loaded, except that unapply and refund load the invoice only now.
Recompute(s) ==
    LET t     == session[s]
        inv   == IF t.op \in {"record", "apply"}
                 THEN [t.inv EXCEPT !.plan = invoice[t.i].plan]
                 ELSE invoice[t.i]
    IN  /\ t.step = "sum"
        /\ Continue(s, [t EXCEPT
               !.step   = "flush",
               !.inv    = inv,
               !.newInv = Recomputed(inv, NetOfInvoice(Seen(s), t.i)),
               !.newPay = IF t.op \in {"record", "refund"} THEN t.newPay
                          ELSE Reapplied(t.pay, NetOfPayment(Seen(s), t.p))])

\* The row session s would leave in payments and in invoices.
PaymentFlushed(t) == Written(payment[t.p], t.pay, t.newPay)
InvoiceFlushed(t) == InvoiceWritten(invoice[t.i], t.inv, t.newInv)

RefusedByCheck(t) ==
    \/ t.p # "none" /\ ~PaymentCheck(PaymentFlushed(t))
    \/ t.inv # NoInvoice /\ ~InvoiceCheck(InvoiceFlushed(t))

\* A CHECK constraint refuses the flush: nothing of the call remains.
Rollback(s) ==
    /\ session[s].step = "flush"
    /\ RefusedByCheck(session[s])
    /\ Continue(s, Idle)

\* A session whose loaded allocation was deleted by the commit of t will
\* match no row with its own statement.
AllocationLost(u, t) ==
    t.op = "unapply" /\ t.holds /\ u.p = t.p /\ u.i = t.i

\* refund_events after t appended its own; the faulty form leaves out what
\* came from the pool.
LogOfSlices(t) == [refundLog EXCEPT ![t.p].slices[t.i] = @ + t.cents]
LogAfter(t) == [refundLog EXCEPT ![t.p].pool = @ + t.pool,
                                 ![t.p].slices[t.i] = @ + t.cents]

Commit(s) ==
    LET t == session[s]
    IN  /\ t.step = "flush"
        /\ ~RefusedByCheck(t)
        /\ payment' = [p \in Payments |->
                         IF p = t.p THEN PaymentFlushed(t) ELSE payment[p]]
        /\ invoice' = [i \in Invoices |->
                         IF i = t.i /\ t.inv # NoInvoice THEN InvoiceFlushed(t)
                         ELSE invoice[i]]
        /\ alloc' = Seen(s)
        /\ refundLog' = IF t.op = "refund" THEN LogAfter(t) ELSE refundLog
        /\ lastNumber' = IF t.op = "send" THEN t.seq ELSE lastNumber
        /\ number' = IF t.op = "send" THEN [number EXCEPT ![t.i] = t.seq]
                     ELSE number
        /\ session' = [u \in Sessions |->
             CASE u = s -> Idle
               [] u # s /\ AllocationLost(session[u], t) ->
                     [session[u] EXCEPT !.found = FALSE]
               [] OTHER -> session[u]]

\* The drafts staff prepared before the concurrent calls.
Prepare(i) ==
    /\ \E total \in Totals, plan \in Plans : CreateInvoice(i, total, plan, FALSE)
    /\ UNCHANGED <<session, number, lastNumber>>

-----------------------------------------------------------------------------
BeginCall(s) ==
    \/ \E p \in Payments, i \in Invoices :
          \/ \E amount \in Amounts : \E cents \in 0..amount :
                BeginRecord(s, p, i, amount, cents)
          \/ \E cents \in 1..payment[p].unapplied : BeginApply(s, p, i, cents)
          \/ BeginUnapply(s, p, i)
          \/ \E pool \in 0..payment[p].unapplied, cents \in 0..alloc[p][i].applied :
                BeginRefund(s, p, i, pool, cents)
    \/ \E i \in Invoices : BeginCancel(s, i) \/ BeginSend(s, i)

\* One more statement of a call in flight.
Advance(s) ==
    AssignNumber(s) \/ WriteAllocation(s) \/ Recompute(s) \/ Rollback(s) \/ Commit(s)

SessionsNext ==
    \/ \E s \in Sessions : BeginCall(s) \/ Advance(s)
    \/ \E i \in Invoices : Prepare(i)

\* A request in flight runs on: Postgres queues lock waiters first come first
\* served, and a rolled back or committed transaction frees its locks.
SessionsFairness == \A s \in Sessions : SF_sessionVars(Advance(s))

SessionsSpec == SessionsInit /\ [][SessionsNext]_sessionVars /\ SessionsFairness

-----------------------------------------------------------------------------
(***************************************************************************)
(* Properties                                                              *)
(***************************************************************************)

\* numbering_state does its work: however the calls interleave, no two
\* invoices carry one number, and none a number the sequence has yet to reach.
NumbersDistinct ==
    \A i, j \in Invoices :
        /\ number[i] <= lastNumber
        /\ i # j /\ number[i] # 0 => number[i] # number[j]

\* A race may lose a refund from a refunded column, but never invents one: no
\* column, of a payment or of an allocation, says more was handed back than
\* the refund events do.
RefundsNeverInvented ==
    \A p \in Payments :
        /\ payment[p].refunded <= refundLog[p].pool
                                    + Total(refundLog[p].slices, Invoices)
        /\ \A i \in Invoices : alloc[p][i].refunded <= refundLog[p].slices[i]

\* No race makes up money handed back or uses an invoice number twice.
NothingInvented == RefundsNeverInvented /\ NumbersDistinct

\* Every call in flight ends, by committing or by rolling back: the locks of
\* numbering_state and of allocation rows are never waited for in a circle.
CallsReturn ==
    \A s \in Sessions : session[s] # Idle ~> session[s] = Idle
=============================================================================
