---------------------------- MODULE SignedContract ----------------------------
(***************************************************************************)
(* What a quote promises, whatever the interleaving of the requests on it: *)
(* it is signed at most once, only a signed quote is billed, every invoice *)
(* made from it is made once, and the invoice the quote points at is one   *)
(* nobody has deleted.  Module Quotes implements it.                       *)
(***************************************************************************)
CONSTANTS
    Signatures,   \* what a signature may cover
    Invoices,     \* the invoices that may be made from the quote
    NoSignature, NoInvoice

VARIABLES
    signature,    \* the signature on the quote
    billed,       \* the invoices made from it
    deleted,      \* those of them that were deleted
    linked        \* the invoice the quote points at

contractVars == <<signature, billed, deleted, linked>>

\* A draft, or a row written before deleting an invoice unlinked its quote.
Init ==
    \/ /\ signature = NoSignature
       /\ billed = {} /\ deleted = {} /\ linked = NoInvoice
    \/ \E i \in Invoices :
          /\ signature \in Signatures
          /\ billed = {i} /\ deleted = {i} /\ linked = i

Sign ==
    /\ signature = NoSignature
    /\ signature' \in Signatures
    /\ UNCHANGED <<billed, deleted, linked>>

\* Conversion, and conversion once more after the invoice was deleted.
Bill(i) ==
    /\ signature # NoSignature
    /\ i \notin billed
    /\ billed' = billed \cup {i}
    /\ linked' = i
    /\ UNCHANGED <<signature, deleted>>

\* Deleting an invoice leaves no link to it.  It may cost the quote a link to
\* another one, when both were made in a race.
Withdraw(i) ==
    /\ i \in billed \ deleted
    /\ deleted' = deleted \cup {i}
    /\ linked' \in {linked, NoInvoice} \ {i}
    /\ UNCHANGED <<signature, billed>>

\* The losing half of such a race takes its link with it.
Unlink ==
    /\ linked' = NoInvoice
    /\ UNCHANGED <<signature, billed, deleted>>

Next ==
    \/ Sign
    \/ \E i \in Invoices : Bill(i) \/ Withdraw(i)
    \/ Unlink

Spec == Init /\ [][Next]_contractVars
=============================================================================
