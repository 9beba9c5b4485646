------------------------------ MODULE PortalLinks ------------------------------
(***************************************************************************)
(* The portal links of one quote or invoice (portal_service.py,            *)
(* routers/portal.py), the mails that carry them (portal_email.py and the  *)
(* send and resend endpoints), the views customers leave behind and the    *)
(* cached PDF copies (invoice_pdf.py).  An invoice is a document nobody    *)
(* signs.                                                                  *)
(*                                                                         *)
(* Requests are transactions at READ COMMITTED that read first and write   *)
(* at their flush.  Mails leave after the commit, one by one, in a loop    *)
(* over links read by then.  Files belong to no transaction.  What races   *)
(* do to the columns of the document itself is in Quotes and               *)
(* LedgerSessions: here a change of the document is one step, but for a    *)
(* signature, whose file is dropped before it commits.                     *)
(***************************************************************************)
EXTENDS Integers, FiniteSets

CONSTANTS
    Requests,     \* requests in flight
    Keys,         \* portal links that may be minted
    Contacts,     \* people a link may be for
    Billed,       \* the one the document is addressed to
    Terms,        \* what the document may say
    MaxRevision,  \* bound: edits after sending, plus one
    MaxViews      \* bound: receipts per link

\* The document is addressed to one of its contacts, and has a first revision.
ASSUME PortalAssumption == Billed \in Contacts /\ MaxRevision \in Nat \ {0}

VARIABLES
    doc,      \* the committed document
    link,     \* quote_invitations or invoice_invitations
    file,     \* the cached copy of each revision
    request   \* what each request is doing

portalVars == <<doc, link, file, request>>

\* logged: rows of the timeline that say the link was opened; crossed
\* (auxiliary): two receipts of it overlapped.
NoLink == [to |-> Billed, state |-> "none", views |-> 0, seen |-> FALSE,
           logged |-> 0, crossed |-> FALSE]

\* head is what the document's row said, body what its lines said; draft and
\* crossed (auxiliary): it was rendered of a draft, or across a change.
NoFile == [there |-> FALSE]

\* ids: the links a mail loop is limited to, all of them when empty.
Idle == [op |-> "idle"]

PortalInit ==
    /\ \E t \in Terms : doc = [status |-> "draft", rev |-> 1, terms |-> t]
    /\ link = [k \in Keys |-> NoLink]
    /\ file = [v \in 1..MaxRevision |-> NoFile]
    /\ request = [r \in Requests |-> Idle]

-----------------------------------------------------------------------------
(***************************************************************************)
(* Links                                                                   *)
(***************************************************************************)
At(r, op) == request[r].op = op
Go(r, q) == request' = [request EXCEPT ![r] = q]

Live == {k \in Keys : link[k].state = "live"}
LinksOf(cs) == {k \in Live : link[k].to \in cs}
Missing(cs) == {c \in cs : LinksOf({c}) = {}}
Fresh == {k \in Keys : link[k].state = "none"}

\* A link that is revoked or deleted is treated as absent: its contact gets a
\* fresh key, everybody else keeps theirs.
Picks(cs) == {p \in [cs -> Fresh] : \A c, d \in cs : p[c] = p[d] => c = d}
Minted(p) ==
    [k \in Keys |->
        IF \E c \in DOMAIN p : p[c] = k
        THEN [NoLink EXCEPT !.to = CHOOSE c \in DOMAIN p : p[c] = k, !.state = "live"]
        ELSE link[k]]

\* The partial unique index: one live link for a contact.  The faulty form does
\* without it.
AnyRow(cs) == TRUE
Unclaimed(cs) == LinksOf(cs) = {}

\* mark_sent: the first mail goes to every live link.
SendDocument(r) ==
    /\ At(r, "idle")
    /\ doc.status = "draft"
    /\ doc' = [doc EXCEPT !.status = "sent"]
    /\ \E p \in Picks(Missing({Billed})) : link' = Minted(p)
    /\ Go(r, [op |-> "collect", asked |-> Contacts, ids |-> {}, lost |-> FALSE])
    /\ UNCHANGED file

\* resend: who has no live link yet.
BeginResend(r) ==
    /\ At(r, "idle")
    /\ doc.status = "sent"
    /\ \E cs \in SUBSET Contacts \ {{}} :
          /\ Cardinality(Missing(cs)) <= Cardinality(Fresh)
          /\ Go(r, [op |-> "resend", asked |-> cs, new |-> Missing(cs)])
    /\ UNCHANGED <<doc, link, file>>

\* The links it mails are looked up again after the commit.
CommitResend(r) ==
    /\ At(r, "resend")
    /\ Unclaimed(request[r].new)
    /\ \E p \in Picks(request[r].new) : link' = Minted(p)
    /\ Go(r, [op |-> "derive", asked |-> request[r].asked])
    /\ UNCHANGED <<doc, file>>

\* An existing live link is returned as it is, with no mail.
BeginAdd(r) ==
    /\ At(r, "idle")
    /\ doc.status # "draft"
    /\ Fresh # {}
    /\ \E c \in Missing(Contacts) : Go(r, [op |-> "add", new |-> {c}])
    /\ UNCHANGED <<doc, link, file>>

CommitAdd(r) ==
    /\ At(r, "add")
    /\ Unclaimed(request[r].new)
    /\ \E p \in Picks(request[r].new) : link' = Minted(p)
    /\ Go(r, Idle)
    /\ UNCHANGED <<doc, file>>

\* The index refuses the row, or the keys of this instance have run out.
Refuse(r) ==
    /\ request[r].op \in {"resend", "add"}
    /\ \/ ~Unclaimed(request[r].new)
       \/ Cardinality(request[r].new) > Cardinality(Fresh)
    /\ Go(r, Idle)
    /\ UNCHANGED <<doc, link, file>>

\* resend of one link, which must not be revoked or deleted.
ResendOne(r) ==
    /\ At(r, "idle")
    /\ \E k \in Live :
          Go(r, [op |-> "collect", asked |-> {link[k].to}, ids |-> {k}, lost |-> FALSE])
    /\ UNCHANGED <<doc, link, file>>

Revoke(k) ==
    /\ link[k].state = "live"
    /\ link' = [link EXCEPT ![k].state = "revoked"]
    /\ UNCHANGED <<doc, file, request>>

Delete(k) ==
    /\ link[k].state \in {"live", "revoked"}
    /\ link' = [link EXCEPT ![k].state = "deleted"]
    /\ UNCHANGED <<doc, file, request>>

-----------------------------------------------------------------------------
(***************************************************************************)
(* Mails                                                                   *)
(***************************************************************************)
\* invitation_ids_for_contacts.
Derive(r) ==
    /\ At(r, "derive")
    /\ LET asked == request[r].asked
       IN  Go(r, [op |-> "collect", asked |-> asked, ids |-> LinksOf(asked),
                  lost |-> LinksOf(asked) = {}])
    /\ UNCHANGED <<doc, link, file>>

\* The loop's links, read once.  The faulty form has no use for ids.
AllLive(ids) == Live
Collected(ids) == IF ids = {} THEN Live ELSE Live \cap ids

Collect(r) ==
    /\ At(r, "collect")
    /\ LET q == request[r]
           todo == Collected(q.ids)
       IN  Go(r, IF todo = {} THEN Idle
                 ELSE [op |-> "mail", asked |-> q.asked, todo |-> todo, lost |-> q.lost])
    /\ UNCHANGED <<doc, link, file>>

\* A contact without an address is passed over; a send that raises ends the loop.
Mail(r) ==
    /\ At(r, "mail")
    /\ LET q == request[r]
       IN  \/ \E k \in q.todo :
                Go(r, IF q.todo = {k} THEN Idle ELSE [q EXCEPT !.todo = @ \ {k}])
           \/ Go(r, Idle)
    /\ UNCHANGED <<doc, link, file>>

-----------------------------------------------------------------------------
(***************************************************************************)
(* Views                                                                   *)
(***************************************************************************)
BeginReceipt(r) ==
    /\ At(r, "idle")
    /\ \E k \in Live : /\ link[k].views < MaxViews
                       /\ Go(r, [op |-> "receipt", key |-> k, was |-> link[k]])
    /\ UNCHANGED <<doc, link, file>>

\* The faulty form takes every view for the first.
EveryView(was) == TRUE
FirstView(was) == ~was.seen

\* The row is written by its primary key, revoked or not.
CommitReceipt(r) ==
    /\ At(r, "receipt")
    /\ LET k == request[r].key
           was == request[r].was
       IN  link' = [link EXCEPT ![k].views = was.views + 1, ![k].seen = TRUE,
                       ![k].logged = @ + (IF FirstView(was) THEN 1 ELSE 0),
                       ![k].crossed = @ \/ link[k].views # was.views]
    /\ Go(r, Idle)
    /\ UNCHANGED <<doc, file>>

-----------------------------------------------------------------------------
(***************************************************************************)
(* The document and its copies                                             *)
(***************************************************************************)
\* A sent document gets a new revision with every edit; a draft keeps its own.
Edit ==
    /\ doc.status \in {"draft", "sent"}
    /\ doc.status = "sent" => doc.rev < MaxRevision
    /\ \E t \in Terms :
          doc' = [doc EXCEPT !.terms = t,
                     !.rev = IF doc.status = "sent" THEN @ + 1 ELSE @]
    /\ UNCHANGED <<link, file, request>>

\* The copy of the unsigned revision goes.  The faulty form keeps it.
Kept(v) == file
Invalidated(v) == [file EXCEPT ![v] = NoFile]

BeginSign(r) ==
    /\ At(r, "idle")
    /\ doc.status = "sent"
    /\ file' = Invalidated(doc.rev)
    /\ Go(r, [op |-> "sign"])
    /\ UNCHANGED <<doc, link>>

CommitSign(r) ==
    /\ At(r, "sign")
    /\ doc' = [doc EXCEPT !.status = "signed"]
    /\ Go(r, Idle)
    /\ UNCHANGED <<link, file>>

\* Cancelled, rejected or expired.
Close ==
    /\ doc.status = "sent"
    /\ doc' = [doc EXCEPT !.status = "closed"]
    /\ UNCHANGED <<link, file, request>>

\* A download finds the copy of the revision or renders it; a retry renders
\* always.
BeginRender(r) ==
    /\ At(r, "idle")
    /\ \E again \in BOOLEAN : ~again => ~file[doc.rev].there
    /\ Go(r, [op |-> "render", was |-> doc])
    /\ UNCHANGED <<doc, link, file>>

Signing == \E r \in Requests : At(r, "sign")

\* The lines are read after the row, and the file put in place in one rename.
Render(r) ==
    /\ At(r, "render")
    /\ LET was == request[r].was
       IN  file' = [file EXCEPT ![was.rev] =
               [there |-> TRUE, head |-> was.terms, body |-> doc.terms,
                signed |-> was.status = "signed", draft |-> was.status = "draft",
                crossed |-> doc # was \/ Signing]]
    /\ Go(r, Idle)
    /\ UNCHANGED <<doc, link>>

RenderFails(r) ==
    /\ At(r, "render")
    /\ Go(r, Idle)
    /\ UNCHANGED <<doc, link, file>>

-----------------------------------------------------------------------------
Request(r) ==
    \/ SendDocument(r) \/ BeginResend(r) \/ CommitResend(r)
    \/ BeginAdd(r) \/ CommitAdd(r) \/ Refuse(r) \/ ResendOne(r)
    \/ Derive(r) \/ Collect(r) \/ Mail(r)
    \/ BeginReceipt(r) \/ CommitReceipt(r)
    \/ BeginSign(r) \/ CommitSign(r)
    \/ BeginRender(r) \/ Render(r) \/ RenderFails(r)

PortalNext ==
    \/ \E r \in Requests : Request(r)
    \/ \E k \in Keys : Revoke(k) \/ Delete(k)
    \/ Edit
    \/ Close

PortalSpec == PortalInit /\ [][PortalNext]_portalVars

-----------------------------------------------------------------------------
(***************************************************************************)
(* Properties                                                              *)
(***************************************************************************)
\* "Prior bookmarks still work": whatever overlaps, nobody ever holds two live
\* links, so a resend never leaves an older bookmark beside a newer one.
OneLiveLink ==
    \A k, l \in Live : k # l => link[k].to # link[l].to

\* "If invitation_ids is given, only those rows are emailed": a mail goes to
\* somebody the request was for, unless every link it was for had been lost by
\* the time it looked them up.
MailsAsAsked ==
    \A r \in Requests : At(r, "mail") /\ ~request[r].lost =>
        \A k \in request[r].todo : link[k].to \in request[r].asked

\* "One activity row per invitation per first-view": the timeline says once that
\* a link was opened, and does when it was, unless two receipts overlapped.
OpenedOnce ==
    \A k \in Keys : ~link[k].crossed =>
        /\ link[k].logged = IF link[k].views > 0 THEN 1 ELSE 0
        /\ link[k].seen = (link[k].views > 0)

LinksSound == OneLiveLink /\ MailsAsAsked /\ OpenedOnce

\* The copy a download of the current revision is served says what the document
\* says, and shows its signature, unless it was rendered of the draft or across
\* a change.
CopyShows ==
    LET copy == file[doc.rev]
    IN  copy.there /\ ~copy.draft /\ ~copy.crossed =>
            /\ copy.head = doc.terms /\ copy.body = doc.terms
            /\ copy.signed = (doc.status = "signed")
================================================================================
