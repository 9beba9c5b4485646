----------------------------- MODULE QuoteProofs -----------------------------
(***************************************************************************)
(* What holds of a quote for any number of requests, terms, links and      *)
(* invoices.  The inductive invariant says, besides the shape of the rows, *)
(* what a request under way still knows of the committed rows: that the id *)
(* it has drawn for an invoice is its own, that the quote it converts is   *)
(* signed, that the invoice it deletes was made.                           *)
(***************************************************************************)
EXTENDS Quotes, FiniteSetTheorems, TLAPS

Ops == {"update", "send", "approve", "reject", "cancel", "expire", "delete",
        "convert", "unbill"}

QuoteRow ==
    [status : Status, number : Nat, revision : 1..MaxRevision, terms : Terms,
     sig : Signatures \cup {NoSignature},
     link : Invoices \cup {NoInvoice}, deleted : BOOLEAN]

CallRow ==
    [op : Ops, step : {"flush", "number", "insert"}, loaded : QuoteRow,
     number : Nat, terms : Terms, inv : Invoices \cup {NoInvoice}]

\* The statuses an operation begins in.
From(op) ==
    CASE op = "update"  -> {"draft", "sent"}
      [] op = "send"    -> {"draft"}
      [] op = "approve" -> {"draft", "sent"}
      [] op \in {"reject", "cancel", "expire"} -> {"sent"}
      [] op = "delete"  -> {"draft", "rejected", "expired", "cancelled"}
      [] op = "convert" -> {"approved", "converted"}
      [] op = "unbill"  -> Status

\* The committed rows.
Rows ==
    /\ quote \in QuoteRow
    /\ RowConsistent(quote)
    /\ invoice \in [Invoices -> [state : {"none", "draft", "deleted"}, terms : Terms]]
    /\ quote.status = "converted" => quote.sig # NoSignature
    /\ quote.link # NoInvoice => invoice[quote.link].state # "none"

Links ==
    /\ key \in [Keys -> {"none", "live", "revoked"}]
    /\ \A k, l \in Keys : key[k] = "live" /\ key[l] = "live" => k = l

\* What is true of request c under way.
Knows(c) ==
    /\ c \in CallRow
    /\ c.loaded.status \in From(c.op)
    /\ c.step = "insert" => c.op = "convert"
    /\ c.step = "number" => c.op \in {"send", "approve"}
    /\ c.op = "update" /\ c.loaded.status = "sent" => c.loaded.revision < MaxRevision
    /\ c.op \notin {"send", "approve"} => c.number = c.loaded.number
    /\ c.op = "convert" =>
          /\ quote.sig # NoSignature
          /\ c.loaded.status = "converted" =>
                c.loaded.link \in Invoices /\ invoice[c.loaded.link].state = "deleted"
          /\ IF c.step = "insert" THEN c.inv = NoInvoice
             ELSE c.inv \in Invoices /\ invoice[c.inv].state = "none"
    /\ c.op = "unbill" =>
          /\ c.inv \in Invoices /\ invoice[c.inv].state # "none"
          /\ c.loaded.link # c.inv => quote.link # c.inv
    /\ c.op \notin {"convert", "unbill"} => c.inv = NoInvoice

\* Every id drawn for an invoice is drawn once.
OwnIds(f) ==
    \A s, t \in Sessions :
        /\ s # t /\ f[s] # Idle /\ f[t] # Idle
        /\ f[s].op = "convert" /\ f[t].op = "convert" /\ f[s].inv # NoInvoice
        => f[s].inv # f[t].inv

Calls ==
    /\ DOMAIN call = Sessions
    /\ call = [s \in Sessions |-> call[s]]
    /\ \A s \in Sessions : call[s] # Idle => Knows(call[s])
    /\ OwnIds(call)

\* What holds as long as no request wrote over a row it had not loaded.
Trusted ==
    ~raced =>
        /\ quote.sig # NoSignature =>
              quote.sig.terms = quote.terms /\ quote.sig.number = quote.number
        /\ quote.sig # NoSignature <=> quote.status \in {"approved", "converted"}
        /\ \A i \in Invoices : invoice[i].state = "draft" =>
              i = quote.link /\ invoice[i].terms = quote.sig.terms

QuoteInv ==
    /\ Rows /\ Links /\ Calls /\ Trusted
    /\ lastNumber \in Nat
    /\ raced \in BOOLEAN

-----------------------------------------------------------------------------
\* Rows of a quote, as sets of records.
LEMMA DraftRow ==
    ASSUME NEW t \in Terms
    PROVE  Draft(t) \in QuoteRow
BY QuotesAssumption DEF Draft, QuoteRow, Status

\* The first rows: a draft, or a converted quote whose invoice was deleted.
LEMMA InitHolds == Init => QuoteInv
<1> SUFFICES ASSUME Init PROVE QuoteInv
  OBVIOUS
<1>1. Links /\ Calls /\ raced \in BOOLEAN
  BY DEF Init, Links, Calls, OwnIds
<1>2. PICK t \in Terms :
        \/ /\ quote = Draft(t)
           /\ invoice = [i \in Invoices |-> [state |-> "none", terms |-> t]]
           /\ lastNumber = 0
        \/ \E s \in Sessions, i \in Invoices :
           /\ quote = [Draft(t) EXCEPT !.status = "converted", !.number = 1, !.link = i,
                          !.sig = [by |-> s, terms |-> t, number |-> 1]]
           /\ invoice = [j \in Invoices |->
                  [state |-> IF j = i THEN "deleted" ELSE "none", terms |-> t]]
           /\ lastNumber = 1
  BY DEF Init
<1>3. CASE /\ quote = Draft(t)
           /\ invoice = [i \in Invoices |-> [state |-> "none", terms |-> t]]
           /\ lastNumber = 0
  <2>1. Rows
    BY <1>3, DraftRow DEF Rows, Draft, RowConsistent
  <2>2. Trusted
    BY <1>3 DEF Trusted, Draft
  <2> QED BY <1>1, <1>3, <2>1, <2>2 DEF QuoteInv
<1>4. ASSUME NEW s \in Sessions, NEW i \in Invoices,
             quote = [Draft(t) EXCEPT !.status = "converted", !.number = 1, !.link = i,
                          !.sig = [by |-> s, terms |-> t, number |-> 1]],
             invoice = [j \in Invoices |->
                  [state |-> IF j = i THEN "deleted" ELSE "none", terms |-> t]],
             lastNumber = 1
      PROVE  QuoteInv
  <2>1. quote = [status |-> "converted", number |-> 1, revision |-> 1, terms |-> t,
                 sig |-> [by |-> s, terms |-> t, number |-> 1], link |-> i,
                 deleted |-> FALSE]
    BY <1>4 DEF Draft
  <2>2. quote.sig \in Signatures /\ quote.sig # NoSignature
    BY <2>1 DEF Signatures, NoSignature
  <2>3. quote \in QuoteRow
    BY <2>1, <2>2, QuotesAssumption DEF QuoteRow, Status
  <2>4. Rows
    BY <1>4, <2>1, <2>2, <2>3, QuotesAssumption DEF Rows, RowConsistent
  <2>5. quote.sig.terms = quote.terms /\ quote.sig.number = quote.number
        /\ quote.status = "converted"
    BY <2>1
  <2>6. \A j \in Invoices : invoice[j].state # "draft"
    BY <1>4
  <2>7. Trusted
    BY <2>2, <2>5, <2>6 DEF Trusted
  <2> QED BY <1>1, <1>4, <2>4, <2>7 DEF QuoteInv
<1> QED BY <1>2, <1>3, <1>4

-----------------------------------------------------------------------------
(***************************************************************************)
(* Requests begin                                                          *)
(***************************************************************************)
\* A request that begins knows what is committed, and has drawn no id yet.
LEMMA BeginKeeps ==
    ASSUME QuoteInv, NEW s \in Sessions,
           call[s] = Idle,
           call' = [call EXCEPT ![s] = call'[s]],
           UNCHANGED <<quote, invoice, key, lastNumber, raced>>,
           Knows(call'[s]),
           call'[s].op = "convert" => call'[s].inv = NoInvoice
    PROVE  QuoteInv'
<1>1. Rows' /\ Links' /\ Trusted' /\ lastNumber' \in Nat /\ raced' \in BOOLEAN
  BY DEF QuoteInv, Rows, Links, Trusted, RowConsistent
<1>2. \A t \in Sessions : Knows(call'[t]) => Knows(call[t])'
  BY DEF Knows
<1>3. \A t \in Sessions \ {s} : call'[t] = call[t]
  BY DEF QuoteInv, Calls
<1>4. DOMAIN call' = Sessions /\ call' = [t \in Sessions |-> call'[t]]
  BY DEF QuoteInv, Calls
<1>5. \A t \in Sessions : call'[t] # Idle => Knows(call'[t])
  BY <1>3 DEF QuoteInv, Calls
<1>6. OwnIds(call')
  BY <1>3 DEF QuoteInv, Calls, OwnIds
<1>7. Calls'
  BY <1>2, <1>4, <1>5, <1>6 DEF Calls, OwnIds
<1> QED BY <1>1, <1>7 DEF QuoteInv

\* One case for each kind of request.
LEMMA BeginCallKeeps ==
    ASSUME QuoteInv, NEW s \in Sessions, BeginCall(s)
    PROVE  QuoteInv'
<1>1. DOMAIN call = Sessions
  BY DEF QuoteInv, Calls
<1>2. /\ quote \in QuoteRow /\ NoInvoice \notin Invoices /\ RowConsistent(quote)
      /\ quote.status = "converted" => quote.sig # NoSignature
      /\ quote.link # NoInvoice => invoice[quote.link].state # "none"
      /\ quote.status \in Status /\ quote.number \in Nat /\ quote.terms \in Terms
      /\ quote.link \in Invoices \cup {NoInvoice} /\ quote.revision \in 1..MaxRevision
  BY QuotesAssumption DEF QuoteInv, Rows, QuoteRow
<1>3. \A c : Begin(s, c) => call[s] = Idle /\ call' = [call EXCEPT ![s] = call'[s]]
  BY <1>1 DEF Begin
<1>4. CASE BeginUpdate(s)
  <2>1. PICK t \in Terms : Begin(s, [Load("update") EXCEPT !.terms = t])
    BY <1>4 DEF BeginUpdate
  <2>2. call'[s] = [Load("update") EXCEPT !.terms = t]
    BY <2>1, <1>1 DEF Begin
  <2>3. Knows(call'[s]) /\ (call'[s].op = "convert" => call'[s].inv = NoInvoice)
    BY <1>4, <1>2, <2>2 DEF BeginUpdate, Found, Load, Knows, CallRow, Ops, From, Status, Locked
  <2> QED BY <1>3, <2>1, <2>2, <2>3, BeginKeeps DEF Begin
<1>5. CASE BeginSend(s)
  <2>1. Begin(s, [Load("send") EXCEPT !.step = "number"])
    BY <1>5 DEF BeginSend
  <2>2. call'[s] = [Load("send") EXCEPT !.step = "number"]
    BY <2>1, <1>1 DEF Begin
  <2>3. Knows(call'[s]) /\ (call'[s].op = "convert" => call'[s].inv = NoInvoice)
    BY <1>5, <1>2, <2>2 DEF BeginSend, Found, Load, Knows, CallRow, Ops, From, Status, Locked
  <2> QED BY <1>3, <2>1, <2>2, <2>3, BeginKeeps DEF Begin
<1>6. CASE BeginApprove(s)
  <2>1. Begin(s, Load("approve"))
    BY <1>6 DEF BeginApprove
  <2>2. call'[s] = Load("approve")
    BY <2>1, <1>1 DEF Begin
  <2>3. Knows(call'[s]) /\ (call'[s].op = "convert" => call'[s].inv = NoInvoice)
    BY <1>6, <1>2, <2>2 DEF BeginApprove, Found, Load, Knows, CallRow, Ops, From, Status, Locked
  <2> QED BY <1>3, <2>1, <2>2, <2>3, BeginKeeps DEF Begin
<1>7. CASE AcceptByKey(s)
  BY <1>6, <1>7 DEF AcceptByKey
<1>8. CASE BeginApproveInStore(s)
  <2>1. Begin(s, [Load("approve") EXCEPT
           !.step = IF quote.status = "draft" THEN "number" ELSE "flush"])
    BY <1>8 DEF BeginApproveInStore
  <2>2. call'[s] = [Load("approve") EXCEPT
           !.step = IF quote.status = "draft" THEN "number" ELSE "flush"]
    BY <2>1, <1>1 DEF Begin
  <2>3. Knows(call'[s]) /\ (call'[s].op = "convert" => call'[s].inv = NoInvoice)
    BY <1>8, <1>2, <2>2 DEF BeginApproveInStore, Found, Load, Knows, CallRow, Ops, From, Status, Locked
  <2> QED BY <1>3, <2>1, <2>2, <2>3, BeginKeeps DEF Begin
<1>9. CASE BeginReject(s)
  <2>1. Begin(s, Load("reject"))
    BY <1>9 DEF BeginReject
  <2>2. call'[s] = Load("reject")
    BY <2>1, <1>1 DEF Begin
  <2>3. Knows(call'[s]) /\ (call'[s].op = "convert" => call'[s].inv = NoInvoice)
    BY <1>9, <1>2, <2>2 DEF BeginReject, Found, Load, Knows, CallRow, Ops, From, Status, Locked
  <2> QED BY <1>3, <2>1, <2>2, <2>3, BeginKeeps DEF Begin
<1>10. CASE BeginCancel(s)
  <2>1. Begin(s, Load("cancel"))
    BY <1>10 DEF BeginCancel
  <2>2. call'[s] = Load("cancel")
    BY <2>1, <1>1 DEF Begin
  <2>3. Knows(call'[s]) /\ (call'[s].op = "convert" => call'[s].inv = NoInvoice)
    BY <1>10, <1>2, <2>2 DEF BeginCancel, Found, Load, Knows, CallRow, Ops, From, Status, Locked
  <2> QED BY <1>3, <2>1, <2>2, <2>3, BeginKeeps DEF Begin
<1>11. CASE BeginDelete(s)
  <2>1. Begin(s, Load("delete"))
    BY <1>11 DEF BeginDelete
  <2>2. call'[s] = Load("delete")
    BY <2>1, <1>1 DEF Begin
  <2>3. Knows(call'[s]) /\ (call'[s].op = "convert" => call'[s].inv = NoInvoice)
    BY <1>11, <1>2, <2>2 DEF BeginDelete, Found, Load, Knows, CallRow, Ops, From, Status, Locked
  <2> QED BY <1>3, <2>1, <2>2, <2>3, BeginKeeps DEF Begin
<1>12. CASE BeginExpiry(s)
  <2>1. Begin(s, Load("expire"))
    BY <1>12 DEF BeginExpiry
  <2>2. call'[s] = Load("expire")
    BY <2>1, <1>1 DEF Begin
  <2>3. Knows(call'[s]) /\ (call'[s].op = "convert" => call'[s].inv = NoInvoice)
    BY <1>12, <1>2, <2>2 DEF BeginExpiry, Found, Load, Knows, CallRow, Ops, From, Status, Locked
  <2> QED BY <1>3, <2>1, <2>2, <2>3, BeginKeeps DEF Begin
<1>13. CASE BeginConvert(s)
  <2>1. Begin(s, [Load("convert") EXCEPT !.step = "insert"])
    BY <1>13 DEF BeginConvert
  <2>2. call'[s] = [Load("convert") EXCEPT !.step = "insert"]
    BY <2>1, <1>1 DEF Begin
  <2>3. Knows(call'[s]) /\ (call'[s].op = "convert" => call'[s].inv = NoInvoice)
    BY <1>13, <1>2, <2>2 DEF BeginConvert, Found, Load, Knows, CallRow, Ops, From, Status, Locked, InvoiceGone, RowConsistent
  <2> QED BY <1>3, <2>1, <2>2, <2>3, BeginKeeps DEF Begin
<1>14. ASSUME NEW i \in Invoices, BeginDeleteInvoice(s, i)
       PROVE  QuoteInv'
  <2>1. Begin(s, [Load("unbill") EXCEPT !.inv = i])
    BY <1>14 DEF BeginDeleteInvoice
  <2>2. call'[s] = [Load("unbill") EXCEPT !.inv = i]
    BY <2>1, <1>1 DEF Begin
  <2>3. Knows(call'[s]) /\ (call'[s].op = "convert" => call'[s].inv = NoInvoice)
    BY <1>14, <1>2, <2>2 DEF BeginDeleteInvoice, Load, Knows, CallRow, Ops, From
  <2> QED BY <1>3, <2>1, <2>2, <2>3, BeginKeeps DEF Begin
<1> QED BY <1>4, <1>5, <1>6, <1>7, <1>8, <1>9, <1>10, <1>11, <1>12, <1>13, <1>14 DEF BeginCall

-----------------------------------------------------------------------------
(***************************************************************************)
(* Requests go on, or end without a commit                                 *)
(***************************************************************************)
\* Only the transaction of s changes: it draws a number or an id of its own,
\* or it ends.
LEMMA OwnStepKeeps ==
    ASSUME QuoteInv, NEW s \in Sessions,
           call' = [call EXCEPT ![s] = call'[s]],
           UNCHANGED <<quote, invoice, key, lastNumber, raced>>,
           call'[s] # Idle => Knows(call'[s]),
           call'[s] # Idle /\ call'[s].op = "convert" =>
               \A t \in Sessions : call[t] # Idle => call[t].inv # call'[s].inv
    PROVE  QuoteInv'
<1>1. Rows' /\ Links' /\ Trusted' /\ lastNumber' \in Nat /\ raced' \in BOOLEAN
  BY DEF QuoteInv, Rows, Links, Trusted, RowConsistent
<1>2. \A t \in Sessions : Knows(call'[t]) => Knows(call[t])'
  BY DEF Knows
<1>3. \A t \in Sessions \ {s} : call'[t] = call[t]
  BY DEF QuoteInv, Calls
<1>4. DOMAIN call' = Sessions /\ call' = [t \in Sessions |-> call'[t]]
  BY DEF QuoteInv, Calls
<1>5. \A t \in Sessions : call'[t] # Idle => Knows(call'[t])
  BY <1>3 DEF QuoteInv, Calls
<1>6. OwnIds(call')
  BY <1>3 DEF QuoteInv, Calls, OwnIds
<1>7. Calls'
  BY <1>2, <1>4, <1>5, <1>6 DEF Calls, OwnIds
<1> QED BY <1>1, <1>7 DEF QuoteInv

\* A number only goes to a request that is sending or approving.
LEMMA AssignNumberKeeps ==
    ASSUME QuoteInv, NEW s \in Sessions, AssignNumber(s)
    PROVE  QuoteInv'
<1>1. DOMAIN call = Sessions /\ call[s] # Idle /\ Knows(call[s]) /\ call[s].step = "number"
  BY DEF QuoteInv, Calls, AssignNumber, At
<1>2. call'[s] = [call[s] EXCEPT !.number = lastNumber + 1, !.step = "flush"]
  BY <1>1 DEF AssignNumber
<1>3. call[s].op \in {"send", "approve"}
  BY <1>1 DEF Knows
<1>4. Knows(call'[s]) /\ call'[s].op # "convert"
  <2>1. call[s] \in CallRow /\ lastNumber + 1 \in Nat
    BY <1>1 DEF Knows, QuoteInv
  <2>2. call'[s] \in CallRow /\ call'[s].op = call[s].op /\ call'[s].loaded = call[s].loaded
        /\ call'[s].inv = call[s].inv /\ call'[s].step = "flush"
    BY <1>2, <2>1 DEF CallRow
  <2> QED BY <1>1, <1>3, <2>2 DEF Knows
<1>5. call' = [call EXCEPT ![s] = call'[s]]
  BY <1>1 DEF AssignNumber
<1> QED BY <1>4, <1>5, OwnStepKeeps DEF AssignNumber

\* The id of a new invoice is nobody else's.
LEMMA InsertInvoiceKeeps ==
    ASSUME QuoteInv, NEW s \in Sessions, NEW i \in Invoices, InsertInvoice(s, i)
    PROVE  QuoteInv'
<1>1. /\ DOMAIN call = Sessions /\ call[s] # Idle /\ Knows(call[s])
      /\ call[s].step = "insert"
  BY DEF QuoteInv, Calls, InsertInvoice, At
<1>2. call'[s] = [call[s] EXCEPT !.inv = i, !.step = "flush"]
  BY <1>1 DEF InsertInvoice
<1>3. Knows(call'[s]) /\ call'[s].inv = i
  BY <1>1, <1>2 DEF Knows, CallRow, InsertInvoice, Unused
<1>4. \A t \in Sessions : call[t] # Idle => call[t].inv # i
  BY DEF InsertInvoice, Unused
<1>5. call' = [call EXCEPT ![s] = call'[s]]
  BY <1>1 DEF InsertInvoice
<1> QED BY <1>3, <1>4, <1>5, OwnStepKeeps DEF InsertInvoice

\* A request the database refuses, or whose process dies, leaves nothing.
LEMMA EndKeeps ==
    ASSUME QuoteInv, NEW s \in Sessions, Refuse(s) \/ Die(s)
    PROVE  QuoteInv'
<1>1. DOMAIN call = Sessions
  BY DEF QuoteInv, Calls
<1>2. call'[s] = Idle /\ call' = [call EXCEPT ![s] = call'[s]]
  BY <1>1 DEF Refuse, Die
<1> QED BY <1>2, OwnStepKeeps DEF Refuse, Die

\* A link is minted only when none is live.
LEMMA MintKeepsLinks ==
    ASSUME Links, MintKey
    PROVE  Links'
<1>1. CASE UNCHANGED key
  BY <1>1 DEF Links
<1>2. ASSUME NEW k \in Keys, ~\E l \in Keys : key[l] = "live",
             key' = [key EXCEPT ![k] = "live"]
      PROVE  Links'
  BY <1>2 DEF Links
<1> QED BY <1>1, <1>2 DEF MintKey

\* Portal links come and go without touching anything else.
LEMMA InvitationKeeps ==
    ASSUME QuoteInv, AddInvitation \/ \E k \in Keys : RevokeInvitation(k)
    PROVE  QuoteInv'
<1>1. UNCHANGED <<quote, invoice, lastNumber, call, raced>>
  BY DEF AddInvitation, RevokeInvitation
<1>2. Links'
  <2>1. CASE AddInvitation
    BY <2>1, MintKeepsLinks DEF AddInvitation, QuoteInv
  <2>2. ASSUME NEW k \in Keys, RevokeInvitation(k) PROVE Links'
    BY <2>2 DEF RevokeInvitation, QuoteInv, Links
  <2> QED BY <2>1, <2>2
<1>3. Rows' /\ Calls' /\ Trusted'
  BY <1>1 DEF QuoteInv, Rows, Calls, Trusted, Knows, OwnIds, RowConsistent
<1> QED BY <1>1, <1>2, <1>3 DEF QuoteInv

-----------------------------------------------------------------------------
(***************************************************************************)
(* Commits                                                                 *)
(***************************************************************************)
\* The status request c leaves.
StatusAfter(c) ==
    CASE c.op \in {"update", "delete"} -> quote.status
      [] c.op = "send"    -> "sent"
      [] c.op = "approve" -> "approved"
      [] c.op = "reject"  -> "rejected"
      [] c.op = "cancel"  -> "cancelled"
      [] c.op = "expire"  -> "expired"
      [] c.op = "convert" -> "converted"
      [] c.op = "unbill"  -> IF c.loaded.link = c.inv THEN "approved" ELSE quote.status

\* The row after request c, column by column.
RowAfter(s, c, row) ==
    /\ row.status = StatusAfter(c)
    /\ row.number = IF c.number # c.loaded.number THEN c.number ELSE quote.number
    /\ row.terms = IF c.op = "update" THEN c.terms ELSE quote.terms
    /\ row.sig = IF c.op = "approve" THEN Sign(s, [c.loaded EXCEPT !.number = c.number])
                 ELSE quote.sig
    /\ row.link = IF c.op = "convert" THEN c.inv
                  ELSE IF c.op = "unbill" /\ c.loaded.link = c.inv THEN NoInvoice
                  ELSE quote.link

\* What a flush assigns has the type of the row and these columns.
LEMMA AssignedRow ==
    ASSUME QuoteInv, NEW s \in Sessions, call[s] # Idle, call[s].step = "flush"
    PROVE  Assigned(s) \in QuoteRow /\ RowAfter(s, call[s], Assigned(s))
<1> DEFINE c == call[s]
<1>1. Knows(c) /\ quote \in QuoteRow
  BY DEF QuoteInv, Calls, Rows
<1>2. c \in CallRow
  BY <1>1 DEF Knows
<1>3. c.loaded \in QuoteRow /\ c.number \in Nat /\ c.terms \in Terms /\ c.op \in Ops
  BY <1>2 DEF CallRow
<1>4. CASE c.op = "update"
  <2>1. c.loaded.status = "sent" => c.loaded.revision + 1 \in 1..MaxRevision
    BY <1>1, <1>3, <1>4, QuotesAssumption DEF Knows, QuoteRow
  <2>2. Assigned(s) = [quote EXCEPT !.terms = c.terms,
                           !.revision = IF c.loaded.status = "sent"
                                        THEN c.loaded.revision + 1 ELSE @]
    BY <1>4 DEF Assigned
  <2>3. c.number = c.loaded.number
    BY <1>1, <1>4 DEF Knows
  <2> HIDE DEF c
  <2>4. Assigned(s) \in QuoteRow
    BY <1>1, <1>3, <2>1, <2>2 DEF QuoteRow
  <2>5. RowAfter(s, c, Assigned(s))
    BY <1>1, <1>4, <2>2, <2>3 DEF QuoteRow, RowAfter, StatusAfter
  <2> QED BY <2>4, <2>5 DEF c
<1>5. CASE c.op = "send"
  BY <1>1, <1>3, <1>5 DEF Assigned, QuoteRow, RowAfter, StatusAfter, Knows, From, Status
<1>6. CASE c.op = "approve"
  BY <1>1, <1>3, <1>6 DEF Assigned, QuoteRow, RowAfter, StatusAfter, Knows, From, Status, Sign, Signatures
<1>7. CASE c.op = "reject"
  BY <1>1, <1>3, <1>7 DEF Assigned, QuoteRow, RowAfter, StatusAfter, Knows, From, Status
<1>8. CASE c.op = "cancel"
  BY <1>1, <1>3, <1>8 DEF Assigned, QuoteRow, RowAfter, StatusAfter, Knows, From, Status
<1>9. CASE c.op = "expire"
  BY <1>1, <1>3, <1>9 DEF Assigned, QuoteRow, RowAfter, StatusAfter, Knows, From, Status
<1>10. CASE c.op = "delete"
  BY <1>1, <1>3, <1>10 DEF Assigned, QuoteRow, RowAfter, StatusAfter, Knows, From, Status
<1>11. CASE c.op = "convert"
  BY <1>1, <1>3, <1>11 DEF Assigned, QuoteRow, RowAfter, StatusAfter, Knows, From, Status
<1>12. CASE c.op = "unbill"
  BY <1>1, <1>3, <1>12 DEF Assigned, QuoteRow, RowAfter, StatusAfter, Knows, From, Status, Unlinked
<1> QED BY <1>3, <1>4, <1>5, <1>6, <1>7, <1>8, <1>9, <1>10, <1>11, <1>12 DEF Ops

\* What a commit does, in terms of what the request knew.
LEMMA CommitEffect ==
    ASSUME QuoteInv, NEW s \in Sessions, Commit(s)
    PROVE  /\ Knows(call[s]) /\ call[s].step = "flush" /\ call[s] # Idle
           /\ quote' \in QuoteRow /\ RowConsistent(quote')
           /\ RowAfter(s, call[s], quote')
           /\ quote.sig # NoSignature => quote'.sig = quote.sig
           /\ DOMAIN invoice' = Invoices /\ invoice' = [i \in Invoices |-> invoice'[i]]
           /\ \A i \in Invoices :
                 invoice'[i] = IF call[s].op = "convert" /\ i = call[s].inv
                               THEN [state |-> "draft", terms |-> call[s].loaded.terms]
                               ELSE IF call[s].op = "unbill" /\ i = call[s].inv
                               THEN [state |-> "deleted", terms |-> invoice[i].terms]
                               ELSE invoice[i]
           /\ raced' = (raced \/ (quote # call[s].loaded /\ quote' # quote))
           /\ call' = [call EXCEPT ![s] = Idle]
<1>1. call[s] # Idle /\ call[s].step = "flush" /\ Knows(call[s])
  BY DEF QuoteInv, Calls, Commit, At
<1>2. quote' = Assigned(s)
  BY DEF Commit
<1>3. Assigned(s) \in QuoteRow /\ RowAfter(s, call[s], Assigned(s))
  BY <1>1, AssignedRow
<1>4. RowConsistent(quote') /\ (quote.sig # NoSignature => quote'.sig = quote.sig)
  BY <1>2 DEF Commit, Accepted
<1>5. invoice' = InvoicesAfter(call[s])
  BY DEF Commit
<1>6. invoice \in [Invoices -> [state : {"none", "draft", "deleted"}, terms : Terms]]
  BY DEF QuoteInv, Rows
<1>7. /\ DOMAIN invoice' = Invoices /\ invoice' = [i \in Invoices |-> invoice'[i]]
      /\ \A i \in Invoices :
            invoice'[i] = IF call[s].op = "convert" /\ i = call[s].inv
                          THEN [state |-> "draft", terms |-> call[s].loaded.terms]
                          ELSE IF call[s].op = "unbill" /\ i = call[s].inv
                          THEN [state |-> "deleted", terms |-> invoice[i].terms]
                          ELSE invoice[i]
  <2>1. CASE call[s].op = "convert"
    BY <1>5, <1>6, <2>1 DEF InvoicesAfter
  <2>2. CASE call[s].op = "unbill"
    <3>1. call[s].inv \in Invoices
      BY <1>1, <2>2 DEF Knows
    <3>2. invoice' = [invoice EXCEPT ![call[s].inv].state = "deleted"]
      BY <1>5, <2>2 DEF InvoicesAfter
    <3>3. [invoice[call[s].inv] EXCEPT !.state = "deleted"]
             = [state |-> "deleted", terms |-> invoice[call[s].inv].terms]
      BY <1>6, <3>1
    <3>4. \A i \in Invoices \ {call[s].inv} : invoice'[i] = invoice[i]
      BY <1>6, <3>2
    <3>5. invoice'[call[s].inv] = [invoice[call[s].inv] EXCEPT !.state = "deleted"]
      BY <1>6, <3>1, <3>2
    <3>6. DOMAIN invoice' = Invoices /\ invoice' = [i \in Invoices |-> invoice'[i]]
      BY <1>6, <3>2
    <3> QED BY <2>2, <3>3, <3>4, <3>5, <3>6
  <2>3. CASE call[s].op \notin {"convert", "unbill"}
    BY <1>5, <1>6, <2>3 DEF InvoicesAfter
  <2> QED BY <2>1, <2>2, <2>3
<1>8. /\ raced' = (raced \/ (quote # call[s].loaded /\ quote' # quote))
      /\ call' = [call EXCEPT ![s] = Idle]
  BY DEF Commit
<1> QED BY <1>1, <1>2, <1>3, <1>4, <1>7, <1>8

\* The rows keep their shape.
LEMMA CommitKeepsRows ==
    ASSUME QuoteInv, NEW s \in Sessions, Commit(s)
    PROVE  Rows'
<1> DEFINE c == call[s]
<1>1. /\ Knows(c) /\ c.step = "flush" /\ RowAfter(s, c, quote')
      /\ quote' \in QuoteRow /\ RowConsistent(quote')
      /\ quote.sig # NoSignature => quote'.sig = quote.sig
  BY CommitEffect
<1>2. /\ DOMAIN invoice' = Invoices /\ invoice' = [i \in Invoices |-> invoice'[i]]
      /\ \A i \in Invoices :
            invoice'[i] = IF c.op = "convert" /\ i = c.inv
                          THEN [state |-> "draft", terms |-> c.loaded.terms]
                          ELSE IF c.op = "unbill" /\ i = c.inv
                          THEN [state |-> "deleted", terms |-> invoice[i].terms]
                          ELSE invoice[i]
  BY CommitEffect
<1>3. c.loaded.terms \in Terms /\ c.op \in Ops
  BY <1>1 DEF Knows, CallRow, QuoteRow
<1>4. Rows
  BY DEF QuoteInv
<1> HIDE DEF c
<1>5. invoice' \in [Invoices -> [state : {"none", "draft", "deleted"}, terms : Terms]]
  <2>1. \A i \in Invoices :
           invoice'[i] \in [state : {"none", "draft", "deleted"}, terms : Terms]
    BY <1>2, <1>3, <1>4 DEF Rows
  <2> QED BY <1>2, <2>1
<1>6. quote'.status = "converted" => quote'.sig # NoSignature
  BY <1>1, <1>3, <1>4 DEF RowAfter, StatusAfter, Rows, Knows, Ops
<1>7. quote'.link # NoInvoice => invoice'[quote'.link].state # "none"
  <2>1. SUFFICES ASSUME quote'.link # NoInvoice PROVE invoice'[quote'.link].state # "none"
    OBVIOUS
  <2>2. quote'.link \in Invoices
    BY <1>1, <2>1 DEF QuoteRow
  <2>3. CASE c.op = "convert"
    BY <1>1, <1>2, <2>2, <2>3 DEF RowAfter
  <2>4. CASE c.op # "convert"
    BY <1>1, <1>2, <1>4, <2>1, <2>2, <2>4 DEF RowAfter, Rows
  <2> QED BY <2>3, <2>4
<1> QED BY <1>1, <1>5, <1>6, <1>7 DEF Rows, RowConsistent

\* What the other requests know stays true.
LEMMA CommitKeepsCalls ==
    ASSUME QuoteInv, NEW s \in Sessions, Commit(s)
    PROVE  Calls'
<1> DEFINE c == call[s]
<1>1. /\ Knows(c) /\ c.step = "flush" /\ RowAfter(s, c, quote') /\ c # Idle
      /\ quote.sig # NoSignature => quote'.sig = quote.sig
      /\ call' = [call EXCEPT ![s] = Idle]
  BY CommitEffect
<1>2. \A i \in Invoices :
         invoice'[i] = IF c.op = "convert" /\ i = c.inv
                       THEN [state |-> "draft", terms |-> c.loaded.terms]
                       ELSE IF c.op = "unbill" /\ i = c.inv
                       THEN [state |-> "deleted", terms |-> invoice[i].terms]
                       ELSE invoice[i]
  BY CommitEffect
<1>3. Calls /\ NoInvoice \notin Invoices
  BY QuotesAssumption DEF QuoteInv
<1>4. \A t \in Sessions \ {s} : call'[t] = call[t]
  BY <1>1, <1>3 DEF Calls
<1>5. call'[s] = Idle /\ DOMAIN call' = Sessions /\ call' = [t \in Sessions |-> call'[t]]
  BY <1>1, <1>3 DEF Calls
<1>6. ASSUME NEW t \in Sessions, call'[t] # Idle PROVE Knows(call[t])'
  <2>1. t # s /\ call'[t] = call[t] /\ Knows(call[t]) /\ call[t] # Idle
    BY <1>3, <1>4, <1>5, <1>6 DEF Calls
  <2> DEFINE d == call[t]
  <2>2. c.op = "convert" /\ d.op = "convert" => c.inv # d.inv
    BY <1>1, <1>3, <2>1 DEF Calls, OwnIds, Knows
  <2> HIDE DEF c, d
  <2>3. Knows(d)
    BY <2>1 DEF d
  <2>4. /\ c.op = "convert" => c.inv \in Invoices /\ invoice[c.inv].state = "none"
        /\ c.op = "unbill" => c.inv \in Invoices /\ invoice[c.inv].state # "none"
    BY <1>1 DEF Knows
  <2>5. \A i \in Invoices :
          /\ invoice[i].state = "deleted" => invoice'[i].state = "deleted"
          /\ invoice[i].state # "none" => invoice'[i].state # "none"
          /\ invoice[i].state = "none" /\ ~(c.op = "convert" /\ i = c.inv) =>
                invoice'[i].state = "none"
    <3> SUFFICES ASSUME NEW i \in Invoices
                 PROVE  /\ invoice[i].state = "deleted" => invoice'[i].state = "deleted"
                        /\ invoice[i].state # "none" => invoice'[i].state # "none"
                        /\ invoice[i].state = "none" /\ ~(c.op = "convert" /\ i = c.inv) =>
                              invoice'[i].state = "none"
      OBVIOUS
    <3>1. CASE c.op = "convert" /\ i = c.inv
      BY <1>2, <2>4, <3>1
    <3>2. CASE c.op = "unbill" /\ i = c.inv
      <4>1. invoice'[i] = [state |-> "deleted", terms |-> invoice[i].terms]
        BY <1>2, <3>2
      <4>2. invoice'[i].state = "deleted" /\ invoice[i].state # "none"
        BY <2>4, <3>2, <4>1
      <4> QED BY <3>2, <4>2
    <3>3. CASE ~(c.op = "convert" /\ i = c.inv) /\ ~(c.op = "unbill" /\ i = c.inv)
      BY <1>2, <3>3
    <3> QED BY <3>1, <3>2, <3>3
  <2>6. d.op = "convert" =>
          /\ quote'.sig # NoSignature
          /\ d.loaded.status = "converted" =>
                d.loaded.link \in Invoices /\ invoice'[d.loaded.link].state = "deleted"
          /\ IF d.step = "insert" THEN d.inv = NoInvoice
             ELSE d.inv \in Invoices /\ invoice'[d.inv].state = "none"
    BY <1>1, <2>2, <2>3, <2>5 DEF Knows
  <2>7. d.op = "unbill" =>
          /\ d.inv \in Invoices /\ invoice'[d.inv].state # "none"
          /\ d.loaded.link # d.inv => quote'.link # d.inv
    BY <1>1, <1>3, <2>3, <2>4, <2>5 DEF Knows, RowAfter
  <2>8. call'[t] = d
    BY <2>1 DEF d
  <2> QED BY <2>3, <2>6, <2>7, <2>8 DEF Knows
<1>7. OwnIds(call')
  BY <1>3, <1>4, <1>5 DEF Calls, OwnIds
<1> QED BY <1>5, <1>6, <1>7 DEF Calls, OwnIds

\* A signature is not the absence of one.
LEMMA Signed ==
    ASSUME NEW s, NEW row
    PROVE  /\ Sign(s, row) # NoSignature
           /\ Sign(s, row).terms = row.terms /\ Sign(s, row).number = row.number
BY DEF Sign, NoSignature

\* A request that loaded the row it writes over leaves quote, signature and
\* invoices in agreement, and so does one that leaves the row as it is.
LEMMA CommitKeepsTrust ==
    ASSUME QuoteInv, NEW s \in Sessions, Commit(s)
    PROVE  Trusted'
<1> DEFINE c == call[s]
<1>1. /\ Knows(c) /\ c.step = "flush" /\ RowAfter(s, c, quote')
      /\ quote.sig # NoSignature => quote'.sig = quote.sig
      /\ raced' = (raced \/ (quote # c.loaded /\ quote' # quote))
  BY CommitEffect
<1>2. \A i \in Invoices :
         invoice'[i] = IF c.op = "convert" /\ i = c.inv
                       THEN [state |-> "draft", terms |-> c.loaded.terms]
                       ELSE IF c.op = "unbill" /\ i = c.inv
                       THEN [state |-> "deleted", terms |-> invoice[i].terms]
                       ELSE invoice[i]
  BY CommitEffect
<1>3. Rows /\ Trusted /\ NoInvoice \notin Invoices /\ raced \in BOOLEAN
  BY QuotesAssumption DEF QuoteInv
<1>4. c.op \in Ops /\ c.loaded.number \in Nat
  BY <1>1 DEF Knows, CallRow, QuoteRow
<1> HIDE DEF c
<1> SUFFICES ASSUME ~raced' PROVE Trusted'
  BY DEF Trusted
<1>5. ~raced /\ (quote = c.loaded \/ quote' = quote)
  BY <1>1, <1>3
<1>6. /\ quote.sig # NoSignature =>
            quote.sig.terms = quote.terms /\ quote.sig.number = quote.number
      /\ quote.sig # NoSignature <=> quote.status \in {"approved", "converted"}
      /\ \A i \in Invoices : invoice[i].state = "draft" =>
            i = quote.link /\ invoice[i].terms = quote.sig.terms
  BY <1>3, <1>5 DEF Trusted
\* Only a conversion makes a draft.
<1>7. \A i \in Invoices : invoice'[i].state = "draft" =>
         \/ c.op = "convert" /\ i = c.inv /\ invoice'[i].terms = c.loaded.terms
         \/ invoice[i] = invoice'[i] /\ ~(c.op = "unbill" /\ i = c.inv)
  <2> SUFFICES ASSUME NEW i \in Invoices, invoice'[i].state = "draft"
               PROVE  \/ c.op = "convert" /\ i = c.inv /\ invoice'[i].terms = c.loaded.terms
                      \/ invoice[i] = invoice'[i] /\ ~(c.op = "unbill" /\ i = c.inv)
    OBVIOUS
  <2>1. CASE c.op = "convert" /\ i = c.inv
    <3>1. invoice'[i] = [state |-> "draft", terms |-> c.loaded.terms]
      BY <1>2, <2>1
    <3> QED BY <2>1, <3>1
  <2>2. CASE c.op = "unbill" /\ i = c.inv
    <3>1. invoice'[i] = [state |-> "deleted", terms |-> invoice[i].terms]
      BY <1>2, <2>2
    <3> QED BY <3>1
  <2>3. CASE ~(c.op = "convert" /\ i = c.inv) /\ ~(c.op = "unbill" /\ i = c.inv)
    BY <1>2, <2>3
  <2> QED BY <2>1, <2>2, <2>3
<1>8. CASE quote' = quote
  <2>1. ASSUME NEW i \in Invoices, invoice'[i].state = "draft"
        PROVE  i = quote'.link /\ invoice'[i].terms = quote'.sig.terms
    <3>1. CASE c.op = "convert" /\ i = c.inv
      <4>1. quote.link = i /\ invoice[i].state = "none"
        BY <1>1, <1>8, <3>1 DEF RowAfter, Knows
      <4> QED BY <1>3, <4>1 DEF Rows
    <3>2. CASE invoice[i] = invoice'[i]
      BY <1>6, <1>8, <2>1, <3>2
    <3> QED BY <1>7, <2>1, <3>1, <3>2
  <2> QED BY <1>6, <1>8, <2>1 DEF Trusted
<1>9. CASE quote = c.loaded
  <2>1. quote.link # NoInvoice <=> quote.status = "converted"
    BY <1>3 DEF Rows, RowConsistent
  <2>2. CASE c.op = "approve"
    <3> DEFINE row == [c.loaded EXCEPT !.number = c.number]
    <3>1. quote'.sig = Sign(s, row)
      BY <1>1, <2>2 DEF RowAfter
    <3>2. row.number = c.number /\ row.terms = quote.terms
      BY <1>1, <1>9 DEF Knows, CallRow, QuoteRow
    <3> HIDE DEF row
    <3>3. quote'.sig # NoSignature /\ quote'.sig.terms = quote.terms
          /\ quote'.sig.number = c.number
      BY <3>1, <3>2, Signed
    <3>4. quote'.status = "approved" /\ quote'.terms = quote.terms
          /\ quote'.number = c.number
      BY <1>1, <1>9, <2>2 DEF RowAfter, StatusAfter
    <3>5. quote.link = NoInvoice
      BY <1>1, <1>9, <2>1, <2>2 DEF Knows, From
    <3>6. \A i \in Invoices : invoice'[i].state # "draft"
      BY <1>3, <1>6, <1>7, <2>2, <3>5
    <3> QED BY <3>3, <3>4, <3>6 DEF Trusted
  <2>3. CASE c.op = "convert"
    <3>1. quote.sig # NoSignature /\ quote'.sig = quote.sig /\ quote'.status = "converted"
          /\ quote'.terms = quote.terms /\ quote'.number = quote.number /\ quote'.link = c.inv
      BY <1>1, <2>3 DEF Knows, RowAfter, StatusAfter
    <3>2. \A i \in Invoices : invoice[i].state # "draft"
      BY <1>1, <1>3, <1>6, <1>9, <2>1, <2>3 DEF Knows, From
    <3>3. \A i \in Invoices : invoice'[i].state = "draft" =>
             i = quote'.link /\ invoice'[i].terms = quote'.sig.terms
      BY <1>6, <1>7, <1>9, <3>1, <3>2
    <3> QED BY <1>6, <3>1, <3>3 DEF Trusted
  <2>4. CASE c.op = "unbill"
    <3>1. quote'.sig = quote.sig /\ quote'.terms = quote.terms /\ quote'.number = quote.number
      BY <1>1, <2>4 DEF Knows, RowAfter
    <3>2. c.inv \in Invoices
      BY <1>1, <2>4 DEF Knows
    <3>3. CASE quote.link = c.inv
      <4>1. quote.status = "converted" /\ quote'.status = "approved"
        BY <1>1, <1>3, <1>9, <2>1, <2>4, <3>2, <3>3 DEF RowAfter, StatusAfter
      <4>2. \A i \in Invoices : invoice'[i].state # "draft"
        BY <1>6, <1>7, <2>4, <3>3
      <4> QED BY <1>6, <3>1, <4>1, <4>2 DEF Trusted
    <3>4. CASE quote.link # c.inv
      <4>1. quote'.status = quote.status /\ quote'.link = quote.link
        BY <1>1, <1>9, <2>4, <3>4 DEF RowAfter, StatusAfter
      <4>2. \A i \in Invoices : invoice'[i].state = "draft" =>
               i = quote'.link /\ invoice'[i].terms = quote'.sig.terms
        BY <1>6, <1>7, <2>4, <3>1, <4>1
      <4> QED BY <1>6, <3>1, <4>1, <4>2 DEF Trusted
    <3> QED BY <3>3, <3>4
  <2>5. CASE c.op \notin {"approve", "convert", "unbill"}
    <3>1. quote.status \notin {"approved", "converted"}
      BY <1>1, <1>4, <1>9, <2>5 DEF Knows, From, Ops
    <3>2. quote'.status \notin {"approved", "converted"} /\ quote'.sig = quote.sig
          /\ quote'.link = quote.link
      BY <1>1, <1>4, <2>5, <3>1 DEF RowAfter, StatusAfter, Ops
    <3>3. \A i \in Invoices : invoice'[i].state # "draft"
      BY <1>3, <1>6, <1>7, <2>1, <2>5, <3>1
    <3> QED BY <1>6, <3>1, <3>2, <3>3 DEF Trusted
  <2> QED BY <2>2, <2>3, <2>4, <2>5
<1> QED BY <1>5, <1>8, <1>9

\* A commit keeps the invariant: the typing, the calls and the trusted rows apart.
LEMMA CommitKeeps ==
    ASSUME QuoteInv, NEW s \in Sessions, Commit(s)
    PROVE  QuoteInv'
<1>1. Rows' /\ Calls' /\ Trusted'
  BY CommitKeepsRows, CommitKeepsCalls, CommitKeepsTrust
<1>2. Links'
  <2>1. CASE call[s].op = "send"
    BY <2>1, MintKeepsLinks DEF Commit, QuoteInv
  <2>2. CASE call[s].op # "send"
    BY <2>2 DEF Commit, QuoteInv, Links
  <2> QED BY <2>1, <2>2
<1>3. lastNumber' \in Nat
  <2>1. call[s].number \in Nat
    BY CommitEffect DEF Knows, CallRow
  <2> QED BY <2>1 DEF Commit, QuoteInv
<1>4. raced' \in BOOLEAN
  BY CommitEffect DEF QuoteInv
<1> QED BY <1>1, <1>2, <1>3, <1>4 DEF QuoteInv

\* Besides a commit, no step touches the quote or its invoices.
LEMMA StepKeeps ==
    ASSUME QuoteInv, [Next]_vars
    PROVE  /\ QuoteInv'
           /\ UNCHANGED <<quote, invoice>> \/ \E s \in Sessions : Commit(s)
<1>1. CASE UNCHANGED vars
  BY <1>1 DEF vars, QuoteInv, Rows, Links, Calls, Trusted, Knows, OwnIds, RowConsistent
<1>2. ASSUME NEW s \in Sessions, BeginCall(s)
      PROVE  QuoteInv' /\ UNCHANGED <<quote, invoice>>
  <2>1. UNCHANGED <<quote, invoice>>
    BY <1>2 DEF BeginCall, BeginUpdate, BeginSend, BeginApprove, AcceptByKey,
                BeginApproveInStore, BeginReject, BeginCancel, BeginDelete, BeginExpiry,
                BeginConvert, BeginDeleteInvoice, Begin
  <2> QED BY <1>2, <2>1, BeginCallKeeps
<1>3. ASSUME NEW s \in Sessions, Advance(s) \/ Die(s)
      PROVE  QuoteInv' /\ (UNCHANGED <<quote, invoice>> \/ Commit(s))
  <2>1. CASE AssignNumber(s)
    BY <2>1, AssignNumberKeeps DEF AssignNumber
  <2>2. CASE Refuse(s) \/ Die(s)
    BY <2>2, EndKeeps DEF Refuse, Die
  <2>3. CASE Commit(s)
    BY <2>3, CommitKeeps
  <2>4. ASSUME NEW i \in Invoices, InsertInvoice(s, i)
        PROVE  QuoteInv' /\ UNCHANGED <<quote, invoice>>
    BY <2>4, InsertInvoiceKeeps DEF InsertInvoice
  <2> QED BY <1>3, <2>1, <2>2, <2>3, <2>4 DEF Advance
<1>4. CASE AddInvitation \/ \E k \in Keys : RevokeInvitation(k)
  BY <1>4, InvitationKeeps DEF AddInvitation, RevokeInvitation
<1> QED BY <1>1, <1>2, <1>3, <1>4 DEF Next

\* The strengthening is an invariant, for any number of requests, terms, links
\* and invoices.
THEOREM QuoteInvariant == Spec => []QuoteInv
<1>1. QuoteInv /\ [Next]_vars => QuoteInv'
  BY StepKeeps
<1> QED BY <1>1, InitHolds, PTL DEF Spec

-----------------------------------------------------------------------------
(***************************************************************************)
(* What follows                                                            *)
(***************************************************************************)
LEMMA AtMostOneLink ==
    ASSUME Links
    PROVE  OneLiveLink
<1> DEFINE L == {k \in Keys : key[k] = "live"}
<1>1. CASE L = {}
  <2>1. Cardinality(L) = 0
    BY <1>1, FS_EmptySet
  <2> QED BY <2>1 DEF OneLiveLink
<1>2. ASSUME NEW k \in L PROVE OneLiveLink
  <2>1. L = {k}
    BY DEF Links
  <2>2. Cardinality(L) = 1
    BY <2>1, FS_Singleton
  <2> QED BY <2>2 DEF OneLiveLink
<1> QED BY <1>1, <1>2

\* One working link, one live invoice, one signature, all for the same terms,
\* unless a request wrote over a row it had not loaded.
THEOREM RowsAgreeHolds == Spec => []RowsAgree
<1>1. QuoteInv => RowsAgree
  <2> SUFFICES ASSUME QuoteInv PROVE RowsAgree
    OBVIOUS
  <2>1. TypeOK
    BY DEF QuoteInv, Rows, Links, TypeOK, QuoteRow
  <2>2. OneLiveLink
    BY AtMostOneLink DEF QuoteInv
  <2>3. OneInvoiceUnlessRaced /\ SignedUnlessRaced
    BY DEF QuoteInv, Trusted, OneInvoiceUnlessRaced, SignedUnlessRaced, Live
  <2> QED BY <2>1, <2>2, <2>3 DEF RowsAgree
<1> QED BY <1>1, QuoteInvariant, PTL

\* A decision is lost only to a request that wrote over a row it had not
\* loaded (raced).
LEMMA StepKeepsDecision ==
    ASSUME QuoteInv, [Next]_vars, quote.status \in Locked, ~raced'
    PROVE  \/ quote'.status = quote.status
           \/ {quote.status, quote'.status} = {"approved", "converted"}
<1>1. CASE UNCHANGED quote
  BY <1>1
<1>2. ASSUME NEW s \in Sessions, Commit(s), quote' # quote
      PROVE  \/ quote'.status = quote.status
             \/ {quote.status, quote'.status} = {"approved", "converted"}
  <2> DEFINE c == call[s]
  <2>1. Knows(c) /\ RowAfter(s, c, quote') /\ quote = c.loaded
    BY <1>2, CommitEffect
  <2>2. c.op \in Ops /\ RowConsistent(quote) /\ NoInvoice \notin Invoices
    BY <2>1, QuotesAssumption DEF Knows, CallRow, QuoteInv, Rows
  <2> HIDE DEF c
  <2>3. CASE c.op \in {"update", "delete"}
    BY <2>1, <2>3 DEF RowAfter, StatusAfter
  <2>4. CASE c.op \in {"send", "approve", "reject", "cancel", "expire"}
    BY <2>1, <2>4 DEF Knows, From, Locked
  <2>5. CASE c.op = "convert"
    BY <2>1, <2>5 DEF Knows, From, RowAfter, StatusAfter
  <2>6. CASE c.op = "unbill"
    <3>1. c.loaded.link = c.inv => quote.status = "converted"
      BY <2>1, <2>2, <2>6 DEF Knows, RowConsistent
    <3> QED BY <2>1, <2>6, <3>1 DEF RowAfter, StatusAfter
  <2> QED BY <2>2, <2>3, <2>4, <2>5, <2>6 DEF Ops
<1> QED BY <1>1, <1>2, StepKeeps

\* As long as no request writes over a row it had not loaded, no decision on a
\* quote is lost.
THEOREM DecisionKeptHolds == Spec => DecisionKept
<1>1. QuoteInv /\ [Next]_vars =>
        [quote.status \in Locked /\ ~raced' =>
          \/ quote'.status = quote.status
          \/ {quote.status, quote'.status} = {"approved", "converted"}]_vars
  BY StepKeepsDecision
<1> QED BY <1>1, QuoteInvariant, PTL DEF Spec, DecisionKept

-----------------------------------------------------------------------------
(***************************************************************************)
(* The quote implements the signed contract, whatever races                *)
(***************************************************************************)
\* The first rows are those the contract starts from.
LEMMA ContractInit == Init => Contract!Init
<1> SUFFICES ASSUME Init PROVE Contract!Init
  OBVIOUS
<1>1. PICK t \in Terms :
        \/ /\ quote = Draft(t)
           /\ invoice = [i \in Invoices |-> [state |-> "none", terms |-> t]]
           /\ lastNumber = 0
        \/ \E s \in Sessions, i \in Invoices :
           /\ quote = [Draft(t) EXCEPT !.status = "converted", !.number = 1, !.link = i,
                          !.sig = [by |-> s, terms |-> t, number |-> 1]]
           /\ invoice = [j \in Invoices |->
                  [state |-> IF j = i THEN "deleted" ELSE "none", terms |-> t]]
           /\ lastNumber = 1
  BY DEF Init
<1>2. CASE /\ quote = Draft(t)
           /\ invoice = [i \in Invoices |-> [state |-> "none", terms |-> t]]
  BY <1>2 DEF Contract!Init, Draft
<1>3. ASSUME NEW s \in Sessions, NEW i \in Invoices,
             quote = [Draft(t) EXCEPT !.status = "converted", !.number = 1, !.link = i,
                          !.sig = [by |-> s, terms |-> t, number |-> 1]],
             invoice = [j \in Invoices |->
                  [state |-> IF j = i THEN "deleted" ELSE "none", terms |-> t]]
      PROVE  Contract!Init
  <2>1. quote.sig \in Signatures /\ quote.link = i
    BY <1>3 DEF Draft, Signatures
  <2>2. {j \in Invoices : invoice[j].state # "none"} = {i}
    BY <1>3
  <2>3. {j \in Invoices : invoice[j].state = "deleted"} = {i}
    BY <1>3
  <2> QED BY <2>1, <2>2, <2>3 DEF Contract!Init
<1> QED BY <1>1, <1>2, <1>3

\* Approving signs, converting bills, deleting a draft withdraws; everything
\* else stutters.
LEMMA CommitImplements ==
    ASSUME QuoteInv, NEW s \in Sessions, Commit(s)
    PROVE  [Contract!Next]_(Contract!contractVars)
<1> DEFINE c == call[s]
           billed == {i \in Invoices : invoice[i].state # "none"}
           deleted == {i \in Invoices : invoice[i].state = "deleted"}
<1>1. /\ Knows(c) /\ c.step = "flush" /\ RowAfter(s, c, quote') /\ quote' \in QuoteRow
      /\ quote.sig # NoSignature => quote'.sig = quote.sig
  BY CommitEffect
<1>2. \A i \in Invoices :
         invoice'[i] = IF c.op = "convert" /\ i = c.inv
                       THEN [state |-> "draft", terms |-> c.loaded.terms]
                       ELSE IF c.op = "unbill" /\ i = c.inv
                       THEN [state |-> "deleted", terms |-> invoice[i].terms]
                       ELSE invoice[i]
  BY CommitEffect
<1>3. c.op \in Ops /\ NoInvoice \notin Invoices
  BY <1>1, QuotesAssumption DEF Knows, CallRow
<1> HIDE DEF c
<1>4. CASE c.op = "convert"
  <2>1. c.inv \in Invoices /\ invoice[c.inv].state = "none" /\ quote.sig # NoSignature
    BY <1>1, <1>4 DEF Knows
  <2>2. invoice'[c.inv] = [state |-> "draft", terms |-> c.loaded.terms]
        /\ \A i \in Invoices \ {c.inv} : invoice'[i] = invoice[i]
    BY <1>2, <1>4, <2>1
  <2>3. billed' = billed \cup {c.inv} /\ deleted' = deleted /\ c.inv \notin billed
    BY <2>1, <2>2
  <2>4. quote'.sig = quote.sig /\ quote'.link = c.inv
    BY <1>1, <1>4 DEF RowAfter
  <2>5. PICK i \in Invoices : i = c.inv
    BY <2>1
  <2>6. Contract!Bill(i)
    BY <2>1, <2>3, <2>4, <2>5 DEF Contract!Bill
  <2> QED BY <2>6 DEF Contract!Next
<1>5. CASE c.op = "unbill"
  <2>1. c.inv \in Invoices /\ invoice[c.inv].state # "none"
        /\ (c.loaded.link # c.inv => quote.link # c.inv)
    BY <1>1, <1>5 DEF Knows
  <2>2. invoice'[c.inv] = [state |-> "deleted", terms |-> invoice[c.inv].terms]
        /\ \A i \in Invoices \ {c.inv} : invoice'[i] = invoice[i]
    BY <1>2, <1>5, <2>1
  <2>3. billed' = billed /\ deleted' = deleted \cup {c.inv} /\ c.inv \in billed
    BY <2>1, <2>2
  <2>4. quote'.sig = quote.sig
        /\ quote'.link = IF c.loaded.link = c.inv THEN NoInvoice ELSE quote.link
    BY <1>1, <1>5 DEF RowAfter
  <2>5. quote'.link \in {quote.link, NoInvoice} \ {c.inv}
    BY <1>3, <2>1, <2>4
  <2>6. CASE c.inv \notin deleted
    <3>1. PICK i \in Invoices : i = c.inv
      BY <2>1
    <3>2. Contract!Withdraw(i)
      BY <2>3, <2>4, <2>5, <2>6, <3>1 DEF Contract!Withdraw
    <3> QED BY <3>2 DEF Contract!Next
  <2>7. CASE c.inv \in deleted
    <3>1. deleted' = deleted
      BY <2>3, <2>7
    <3>2. CASE quote'.link = quote.link
      BY <2>3, <2>4, <3>1, <3>2 DEF Contract!contractVars
    <3>3. CASE quote'.link = NoInvoice
      BY <2>3, <2>4, <3>1, <3>3 DEF Contract!Next, Contract!Unlink
    <3> QED BY <2>5, <3>2, <3>3
  <2> QED BY <2>6, <2>7
<1>6. CASE c.op \notin {"convert", "unbill"}
  <2>1. \A i \in Invoices : invoice'[i] = invoice[i]
    BY <1>2, <1>6
  <2>2. billed' = billed /\ deleted' = deleted /\ quote'.link = quote.link
    BY <1>1, <1>6, <2>1 DEF RowAfter
  <2>3. CASE quote'.sig = quote.sig
    BY <2>2, <2>3 DEF Contract!contractVars
  <2>4. CASE quote'.sig # quote.sig
    <3>1. quote.sig = NoSignature /\ quote'.sig \in Signatures
      BY <1>1, <2>4 DEF QuoteRow
    <3> QED BY <2>2, <3>1 DEF Contract!Next, Contract!Sign
  <2> QED BY <2>3, <2>4
<1> QED BY <1>4, <1>5, <1>6

\* The life of a quote implements the signed contract: one signature, each
\* invoice made once and only under it, no link to an invoice that was deleted.
THEOREM QuoteImplementsContract == Spec => ImplementsContract
<1>1. QuoteInv /\ [Next]_vars => [Contract!Next]_(Contract!contractVars)
  <2> SUFFICES ASSUME QuoteInv, [Next]_vars
               PROVE  [Contract!Next]_(Contract!contractVars)
    OBVIOUS
  <2>1. CASE UNCHANGED <<quote, invoice>>
    BY <2>1 DEF Contract!contractVars
  <2> QED BY <2>1, StepKeeps, CommitImplements
<1> QED BY <1>1, ContractInit, QuoteInvariant, PTL
       DEF Spec, ImplementsContract, Contract!Spec
=============================================================================
