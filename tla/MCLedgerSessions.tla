---------------------------- MODULE MCLedgerSessions ---------------------------
(***************************************************************************)
(* An instance of LedgerSessions for TLC.  Two mixes of calls share it: in *)
(* "recording" payments of different sizes are recorded while drafts are   *)
(* sent, each draft by one request at a time; in "anything" every call     *)
(* runs, on one small payment, Lone.                                       *)
(***************************************************************************)
EXTENDS LedgerSessions

CONSTANT Lone

VARIABLE mix

\* One installment that covers the whole invoice.
WholePlans == { <<[amount |-> n, due |-> 1, stamped |-> FALSE]>> : n \in Totals }

OpsOf(m) == IF m = "recording" THEN {"record", "send"} ELSE OpNames

InMix ==
    /\ \A s \in Sessions : session[s].op \in OpsOf(mix) \cup {"idle"}
    /\ mix = "recording" =>
         \A s, t \in InFlight("send") : session[s].i = session[t].i => s = t
    /\ mix = "anything" =>
         /\ \A s \in Sessions : session[s].p \in {Lone, "none"}
         /\ \A s \in Sessions : session[s].newPay.amount <= 1
         /\ \A i \in Invoices : invoice[i].total <= 1

MixedInit == SessionsInit /\ mix \in {"recording", "anything"}

MixedNext == SessionsNext /\ UNCHANGED mix /\ InMix'

MixedSpec == MixedInit /\ [][MixedNext]_<<sessionVars, mix>> /\ SessionsFairness

\* payment_service.py:1 keeps one writer of the ledger: while payments are only
\* being recorded, the calls in flight do not show, and the tables move as if
\* the calls of PaymentLedger ran one at a time.
RecordingImplementsLedger ==
    Init /\ [][mix = "recording" => [Next]_vars]_<<sessionVars, mix>>
===============================================================================
