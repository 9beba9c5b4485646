-------------------------------- MODULE Quotes --------------------------------
(***************************************************************************)
(* The life of one quote (quote_service.py, routers/quotes.py), its portal *)
(* links (portal_service.py), the draft invoices made from it and deleted  *)
(* again (invoice_service.soft_delete_invoice), the nightly expiry pass    *)
(* (reminder_runner.py).                                                   *)
(*                                                                         *)
(* Every request is one transaction at READ COMMITTED: it loads the quote  *)
(* without a lock, checks its guards on what it loaded, draws a number if  *)
(* it needs one, and writes the columns it assigned at its flush, which    *)
(* waits for the row lock and is refused by a violated CHECK or by the     *)
(* trigger on signatures.  What a request reads besides the quote it reads *)
(* with it.  The flush is one step with COMMIT: no other request can see   *)
(* one without the other.                                                  *)
(***************************************************************************)
EXTENDS Integers, FiniteSets

CONSTANTS
    Sessions,    \* requests in flight
    Terms,       \* what the customer is asked to agree to
    Keys,        \* portal links that may be minted
    Invoices,    \* invoices that may be made from the quote
    MaxRevision, \* bound: edits after sending, plus one
    NoInvoice

ASSUME QuotesAssumption ==
    /\ IsFiniteSet(Keys)
    /\ MaxRevision \in Nat \ {0}
    /\ NoInvoice \notin Invoices

VARIABLES
    quote,      \* the committed row
    invoice,    \* the invoices made from it: state and the terms they bill
    key,        \* quote_invitations
    lastNumber, \* numbering_state.quote_seq
    call,       \* the transaction of each session
    raced       \* auxiliary: some request wrote over a row it had not loaded

vars == <<quote, invoice, key, lastNumber, call, raced>>

Status == {"draft", "sent", "approved", "rejected", "converted", "expired", "cancelled"}
Locked == {"approved", "rejected", "converted", "expired", "cancelled"}

\* A signature covers the terms and the number the signing request loaded.
NoSignature == [by |-> "nobody"]
Signatures == [by : Sessions, terms : Terms, number : Nat]
Sign(s, row) == [by |-> s, terms |-> row.terms, number |-> row.number]

\* loaded is the row as this request read it; number, terms and inv what it is
\* about to write.
Idle == [op |-> "idle"]
Load(op) == [op |-> op, step |-> "flush", loaded |-> quote,
             number |-> quote.number, terms |-> quote.terms, inv |-> NoInvoice]

Draft(t) == [status |-> "draft", number |-> 0, revision |-> 1, terms |-> t,
             sig |-> NoSignature, link |-> NoInvoice, deleted |-> FALSE]

\* A new draft, or a row converted before deleting an invoice unlinked it.
Init ==
    /\ \E t \in Terms :
        \/ /\ quote = Draft(t)
           /\ invoice = [i \in Invoices |-> [state |-> "none", terms |-> t]]
           /\ lastNumber = 0
        \/ \E s \in Sessions, i \in Invoices :
           /\ quote = [Draft(t) EXCEPT !.status = "converted", !.number = 1, !.link = i,
                          !.sig = [by |-> s, terms |-> t, number |-> 1]]
           /\ invoice = [j \in Invoices |->
                  [state |-> IF j = i THEN "deleted" ELSE "none", terms |-> t]]
           /\ lastNumber = 1
    /\ key = [k \in Keys |-> "none"]
    /\ call = [s \in Sessions |-> Idle]
    /\ raced = FALSE

-----------------------------------------------------------------------------
(***************************************************************************)
(* Requests begin                                                          *)
(***************************************************************************)
Begin(s, c) ==
    /\ call[s] = Idle
    /\ call' = [call EXCEPT ![s] = c]
    /\ UNCHANGED <<quote, invoice, key, lastNumber, raced>>

At(s, step) == call[s] # Idle /\ call[s].step = step

\* Ids the invoices table has not given out.
Unused == {i \in Invoices : /\ invoice[i].state = "none"
                            /\ \A s \in Sessions : call[s] # Idle => call[s].inv # i}

\* _get_quote_or_raise finds it, in one of the given statuses.  The faulty form
\* forgets to look at the status.
FoundAtAll(statuses) == ~quote.deleted
Found(statuses) == ~quote.deleted /\ quote.status \in statuses

\* Links that can still be minted, apart from those sends in flight may need.
MayMint ==
    Cardinality({k \in Keys : key[k] = "none"})
        > Cardinality({t \in Sessions : call[t] # Idle /\ call[t].op = "send"})

\* update_quote: whatever the patch, the totals are recomputed.  A quote that
\* was sent when it was loaded gets a new revision.
BeginUpdate(s) ==
    /\ Found(Status \ Locked)
    /\ quote.status = "sent" => quote.revision < MaxRevision
    /\ \E t \in Terms : Begin(s, [Load("update") EXCEPT !.terms = t])

BeginSend(s) ==
    /\ Found({"draft"})
    /\ MayMint
    /\ Begin(s, [Load("send") EXCEPT !.step = "number"])

\* approve_quote, called by staff; an approved quote is returned as it is.
BeginApprove(s) ==
    /\ Found({"sent"})
    /\ Begin(s, Load("approve"))

\* accept_quote_by_key: the same, behind a live portal link.
AcceptByKey(s) ==
    /\ \E k \in Keys : key[k] = "live"
    /\ BeginApprove(s)

BeginApproveInStore(s) ==
    /\ Found({"draft", "sent"})
    /\ Begin(s, [Load("approve") EXCEPT
           !.step = IF quote.status = "draft" THEN "number" ELSE "flush"])

BeginReject(s) == Found({"sent"}) /\ Begin(s, Load("reject"))

BeginCancel(s) == Found({"sent"}) /\ Begin(s, Load("cancel"))

BeginDelete(s) ==
    /\ Found({"draft", "rejected", "expired", "cancelled"})
    /\ Begin(s, Load("delete"))

\* convert_to_invoice: a converted quote whose invoice was deleted is healed
\* and converted again; one whose invoice is there is returned as it is.  The
\* faulty form converts whenever there was an invoice.
InvoiceMade == invoice[quote.link].state # "none"
InvoiceGone == invoice[quote.link].state = "deleted"
BeginConvert(s) ==
    /\ Found({"approved", "converted"})
    /\ quote.status = "converted" => InvoiceGone
    /\ Cardinality(Unused) > Cardinality({t \in Sessions : At(t, "insert")})
    /\ Begin(s, [Load("convert") EXCEPT !.step = "insert"])

\* soft_delete_invoice, of a draft made from this quote.
BeginDeleteInvoice(s, i) ==
    /\ invoice[i].state = "draft"
    /\ Begin(s, [Load("unbill") EXCEPT !.inv = i])

\* run_quote_expiry_pass, on a day past expires_at (any day may be).
BeginExpiry(s) == Found({"sent"}) /\ Begin(s, Load("expire"))

-----------------------------------------------------------------------------
(***************************************************************************)
(* and go on                                                               *)
(***************************************************************************)
Numbering == {s \in Sessions : call[s] # Idle /\ call[s].number # call[s].loaded.number}

\* _assign_quote_number locks numbering_state until the transaction ends.
AssignNumber(s) ==
    /\ At(s, "number")
    /\ Numbering = {}
    /\ call' = [call EXCEPT ![s].number = lastNumber + 1, ![s].step = "flush"]
    /\ UNCHANGED <<quote, invoice, key, lastNumber, raced>>

\* The row a deleted invoice leaves: unlinked, if it was linked when loaded.
\* The faulty form forgets the link.
StillLinked(c) == quote
Unlinked(c) ==
    IF c.loaded.link = c.inv
    THEN [quote EXCEPT !.status = "approved", !.link = NoInvoice]
    ELSE quote

\* The columns request s assigned, laid over the row as committed by now.
Assigned(s) ==
    LET c == call[s]
        numbered == [quote EXCEPT !.number =
                        IF c.number # c.loaded.number THEN c.number ELSE @]
    IN  CASE c.op = "update" ->
               [quote EXCEPT !.terms = c.terms,
                             !.revision = IF c.loaded.status = "sent"
                                          THEN c.loaded.revision + 1 ELSE @]
          [] c.op = "send" -> [numbered EXCEPT !.status = "sent"]
          [] c.op = "approve" ->
               [numbered EXCEPT !.status = "approved",
                    !.sig = Sign(s, [c.loaded EXCEPT !.number = c.number])]
          [] c.op = "reject" -> [quote EXCEPT !.status = "rejected"]
          [] c.op = "cancel" -> [quote EXCEPT !.status = "cancelled"]
          [] c.op = "expire" -> [quote EXCEPT !.status = "expired"]
          [] c.op = "delete" -> [quote EXCEPT !.deleted = TRUE]
          [] c.op = "convert" -> [quote EXCEPT !.status = "converted", !.link = c.inv]
          [] c.op = "unbill" -> Unlinked(c)

\* The CHECK constraints of quotes, and the trigger that keeps a signature.
RowConsistent(row) ==
    /\ row.status # "draft" => row.number > 0
    /\ row.status = "approved" => row.sig # NoSignature
    /\ row.status = "converted" <=> row.link # NoInvoice
Accepted(row) ==
    /\ RowConsistent(row)
    /\ quote.sig # NoSignature => row.sig = quote.sig

\* convert_to_invoice inserts the draft before it stamps the quote.
InsertInvoice(s, i) ==
    /\ At(s, "insert")
    /\ i \in Unused
    /\ call' = [call EXCEPT ![s].inv = i, ![s].step = "flush"]
    /\ UNCHANGED <<quote, invoice, key, lastNumber, raced>>

\* What COMMIT publishes besides the row: the invoice inserted or deleted, the
\* link minted on sending (a live one is used again), the number drawn.
InvoicesAfter(c) ==
    CASE c.op = "convert" ->
           [invoice EXCEPT ![c.inv] = [state |-> "draft", terms |-> c.loaded.terms]]
      [] c.op = "unbill" -> [invoice EXCEPT ![c.inv].state = "deleted"]
      [] OTHER -> invoice

MintKey ==
    IF \E k \in Keys : key[k] = "live" THEN UNCHANGED key
    ELSE \E k \in Keys : key[k] = "none" /\ key' = [key EXCEPT ![k] = "live"]

Commit(s) ==
    LET c == call[s]
    IN  /\ At(s, "flush")
        /\ Accepted(Assigned(s))
        /\ quote' = Assigned(s)
        /\ invoice' = InvoicesAfter(c)
        /\ IF c.op = "send" THEN MintKey ELSE UNCHANGED key
        /\ lastNumber' = IF c.number # c.loaded.number THEN c.number ELSE lastNumber
        /\ raced' = (raced \/ (quote # c.loaded /\ quote' # quote))
        /\ call' = [call EXCEPT ![s] = Idle]

\* The database refuses the flush: the session is rolled back.
Refuse(s) ==
    /\ At(s, "flush")
    /\ ~Accepted(Assigned(s))
    /\ call' = [call EXCEPT ![s] = Idle]
    /\ UNCHANGED <<quote, invoice, key, lastNumber, raced>>

\* The process dies: nothing of its transaction remains.
Die(s) ==
    /\ call[s] # Idle
    /\ call' = [call EXCEPT ![s] = Idle]
    /\ UNCHANGED <<quote, invoice, key, lastNumber, raced>>

-----------------------------------------------------------------------------
(***************************************************************************)
(* Portal links.  One statement decides each of these requests: a quote is *)
(* never a draft again, and the unique index on live links makes the second*)
(* INSERT of two fail.                                                     *)
(***************************************************************************)
AddInvitation ==
    /\ Found(Status \ {"draft"})
    /\ MayMint
    /\ MintKey
    /\ UNCHANGED <<quote, invoice, lastNumber, call, raced>>

\* Revoked or deleted, by an administrator.
RevokeInvitation(k) ==
    /\ key[k] = "live"
    /\ key' = [key EXCEPT ![k] = "revoked"]
    /\ UNCHANGED <<quote, invoice, lastNumber, call, raced>>

-----------------------------------------------------------------------------
BeginCall(s) ==
    \/ BeginUpdate(s) \/ BeginSend(s)
    \/ BeginApprove(s) \/ AcceptByKey(s) \/ BeginApproveInStore(s)
    \/ BeginReject(s) \/ BeginCancel(s) \/ BeginDelete(s) \/ BeginExpiry(s)
    \/ BeginConvert(s) \/ \E i \in Invoices : BeginDeleteInvoice(s, i)

Advance(s) ==
    \/ AssignNumber(s) \/ Refuse(s) \/ Commit(s)
    \/ \E i \in Invoices : InsertInvoice(s, i)

Next ==
    \/ \E s \in Sessions : BeginCall(s) \/ Advance(s) \/ Die(s)
    \/ AddInvitation
    \/ \E k \in Keys : RevokeInvitation(k)

Spec == Init /\ [][Next]_vars

-----------------------------------------------------------------------------
(***************************************************************************)
(* Properties                                                              *)
(***************************************************************************)
\* Every variable has its type, and the committed row never gets past the CHECK
\* constraints of quotes.
TypeOK ==
    /\ quote \in [status : Status, number : Nat, revision : 1..MaxRevision, terms : Terms,
                  sig : Signatures \cup {NoSignature},
                  link : Invoices \cup {NoInvoice}, deleted : BOOLEAN]
    /\ RowConsistent(quote)
    /\ invoice \in [Invoices -> [state : {"none", "draft", "deleted"}, terms : Terms]]
    /\ key \in [Keys -> {"none", "live", "revoked"}]
    /\ lastNumber \in Nat

\* What the quote promises through every race: the contract is signed once,
\* billed only when signed, and the invoice it points at is never one that
\* was deleted since ("a quote should only stay 'converted' while there is an
\* active invoice attached").
Contract == INSTANCE SignedContract
    WITH Invoices   <- Invoices,
         signature  <- quote.sig,
         billed     <- {i \in Invoices : invoice[i].state # "none"},
         deleted    <- {i \in Invoices : invoice[i].state = "deleted"},
         linked     <- quote.link

ImplementsContract == Contract!Spec

Live == {i \in Invoices : invoice[i].state = "draft"}

\* As long as no request wrote over a row it had not loaded, the quote has at
\* most one live invoice, the one it points at, which bills what was signed.
OneInvoiceUnlessRaced ==
    ~raced => /\ Live \subseteq {quote.link}
              /\ \A i \in Live : invoice[i].terms = quote.sig.terms

\* As long as no request wrote over a row it had not loaded, a signature still
\* covers the terms and the number of the quote, and only approved and
\* converted quotes carry one.
SignedUnlessRaced ==
    ~raced => /\ quote.sig # NoSignature =>
                     quote.sig.terms = quote.terms /\ quote.sig.number = quote.number
              /\ quote.sig # NoSignature <=> quote.status \in {"approved", "converted"}

\* However often a quote is sent and links are rotated, the customer has one
\* working link.
OneLiveLink == Cardinality({k \in Keys : key[k] = "live"}) <= 1

\* The rows of the quote agree with each other: one working link, one live
\* invoice, one signature, and each of them for the same terms.
RowsAgree == TypeOK /\ OneLiveLink /\ OneInvoiceUnlessRaced /\ SignedUnlessRaced

\* A decision on a quote can be lost to a request that had not seen it, and
\* to no other: approved and converted quotes become each other, rejected,
\* expired and cancelled ones stay so.
DecisionKept ==
    [][quote.status \in Locked /\ ~raced' =>
          \/ quote'.status = quote.status
          \/ {quote.status, quote'.status} = {"approved", "converted"}]_vars

=============================================================================
