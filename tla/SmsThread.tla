------------------------------ MODULE SmsThread ------------------------------
(***************************************************************************)
(* The text thread with one phone number: Twilio's webhooks                *)
(* (routers/webhooks_twilio.py), the replies, reads and status changes of  *)
(* staff (routers/inbox.py), over inbox_service.py and webhook_ingest.py.  *)
(*                                                                         *)
(* Every request is one transaction at READ COMMITTED: it loads the thread *)
(* without a lock and, as it flushes, writes the columns it assigned a new *)
(* value.  The flush is one step with COMMIT; the key of a message in      *)
(* webhook_events is held from its insert on.  The server may die at any   *)
(* point of a request.  Twilio is external: it calls again until it is     *)
(* answered, and its calls come in any order.                              *)
(***************************************************************************)
EXTENDS Naturals, FiniteSets

CONSTANTS
    Sessions,  \* requests in flight
    Stops,     \* texts from the customer that say STOP
    Starts,    \* that say START
    Texts,     \* that say anything else
    Replies,   \* texts staff may send
    NoText

Inbound == Stops \cup Starts \cup Texts

VARIABLES
    conv,      \* conversations, as committed
    contact,   \* whether the number is known, and that contact's opt-out
    ingested,  \* messages whose raw webhook is stored
    stored,    \* conversation_messages rows, per message from the customer
    sent,      \* conversation_messages.status of each reply; "none" before
    left,      \* replies Twilio accepted
    verdict,   \* what becomes of a reply that left
    read,      \* messages stamped before a staff member's read watermark
    call,      \* the transaction of each session
    wish,      \* auxiliary: the customer's last keyword that was committed
    shown,     \* auxiliary: messages that staff member was shown
    waiting,   \* auxiliary: the customer's text is the last thing that happened
    raced      \* auxiliary: a request wrote over a thread it had not loaded,
               \* or marked read what it had not loaded

vars == <<conv, contact, ingested, stored, sent, left, verdict, read, call,
          wish, shown, waiting, raced>>

NoThread == [exists |-> FALSE, status |-> "open", last |-> NoText,
             out |-> FALSE, linked |-> FALSE]

Idle == [op |-> "idle"]

Init ==
    /\ conv = NoThread
    /\ contact \in [known : BOOLEAN, out : {FALSE}]
    /\ ingested = {}
    /\ stored = [m \in Inbound |-> 0]
    /\ sent = [r \in Replies |-> "none"]
    /\ left = {}
    /\ verdict \in [Replies -> {"delivered", "failed"}]
    /\ read = {}
    /\ call = [s \in Sessions |-> Idle]
    /\ wish = "none"
    /\ shown = {}
    /\ waiting = FALSE
    /\ raced = FALSE

-----------------------------------------------------------------------------
Begin(s, c) ==
    /\ call[s] = Idle
    /\ call' = [call EXCEPT ![s] = c]
    /\ UNCHANGED <<conv, contact, ingested, stored, sent, left, verdict, read,
                   wish, shown, waiting, raced>>

End(s) == call' = [call EXCEPT ![s] = Idle]

At(s, op, step) == call[s].op = op /\ call[s].step = step

Stored == {m \in Inbound : stored[m] > 0}

\* Messages whose webhook is being handled: their time stamp is taken.
Handled == {call[s].text : s \in {t \in Sessions : call[t].op = "inbound"}}

\* The unique key of webhook_events: the insert waits for another of the same message, and a
\* message that is there already is not handled again.  The faulty form forgets it.
Anew(m) == TRUE
New(m) == m \notin ingested \cup Handled

BeginInbound(s, m) ==
    /\ New(m)
    /\ Begin(s, [op |-> "inbound", step |-> "flush", text |-> m,
                 thread |-> conv, who |-> contact])

\* upsert_conversation: the insert of a thread somebody else has committed
\* meanwhile is undone, and their row loaded.
Refetch(s) ==
    /\ call[s] # Idle /\ call[s].op \in {"inbound", "start"}
    /\ ~call[s].thread.exists /\ conv.exists
    /\ call' = [call EXCEPT ![s].thread = conv]
    /\ UNCHANGED <<conv, contact, ingested, stored, sent, left, verdict, read,
                   wish, shown, waiting, raced>>

MayWrite(c) == c.thread.exists \/ ~conv.exists
Overtaken(c) == c.thread # conv

\* An inbound text reopens a thread.  The faulty form leaves an answered one be.
ReopenedIfResolved(status) == IF status = "resolved" THEN "open" ELSE status
Reopened(status) == IF status \in {"resolved", "pending"} THEN "open" ELSE status

\* last_inbound_at, which tells a read thread from an unread one.  The faulty
\* form keeps the first.
FirstInbound(m) == IF conv.last = NoText THEN m ELSE conv.last
LastInbound(m) == m

\* A column is written when its value changed, and over what is committed now.
Written(old, new, now) == IF old # new THEN new ELSE now

\* record_inbound_sms.  The thread keeps the customer's keyword itself, and so
\* does the contact it is linked to by now.
CommitInbound(s) ==
    LET c == call[s]
        m == c.text
        linked == c.thread.linked \/ c.who.known
    IN  /\ c.op = "inbound" /\ MayWrite(c)
        /\ conv' = [exists |-> TRUE,
                    status |-> Written(c.thread.status, Reopened(c.thread.status),
                                       conv.status),
                    last   |-> LastInbound(m),
                    out    |-> IF m \in Stops THEN TRUE
                               ELSE IF m \in Starts THEN FALSE ELSE conv.out,
                    linked |-> conv.linked \/ linked]
        /\ contact' = [contact EXCEPT !.out =
                          IF ~linked THEN @
                          ELSE IF m \in Stops THEN TRUE
                          ELSE IF m \in Starts THEN Written(c.who.out, FALSE, @) ELSE @]
        /\ ingested' = ingested \cup {m}
        /\ stored' = [stored EXCEPT ![m] = @ + 1]
        /\ wish' = IF m \in Stops THEN "stop" ELSE IF m \in Starts THEN "start" ELSE wish
        /\ waiting' = TRUE
        /\ raced' = (raced \/ Overtaken(c))
        /\ End(s)
        /\ UNCHANGED <<sent, left, verdict, read, shown>>

-----------------------------------------------------------------------------
(***************************************************************************)
(* Staff                                                                   *)
(***************************************************************************)
\* A STOP, on the thread or on the contact it is linked to, is absolute.  The
\* faulty form asks the contact alone.
OptedOutContact(c, who) == c.linked /\ who.out
OptedOut(c, who) == c.out \/ (c.linked /\ who.out)

\* _send_sms_reply up to the send; a customer who wrote first may be answered
\* (consent given on a form is not modelled).
BeginReply(s, r) ==
    /\ r \notin left
    /\ \A t \in Sessions : call[t].op = "reply" => call[t].reply # r
    /\ conv.exists /\ conv.last # NoText
    /\ ~OptedOut(conv, contact)
    /\ Begin(s, [op |-> "reply", step |-> "send", reply |-> r, thread |-> conv,
                 against |-> wish = "stop"])

\* Twilio takes it, or refuses it and everything is rolled back.
Send(s) ==
    /\ At(s, "reply", "send")
    /\ \/ /\ left' = left \cup {call[s].reply}
          /\ call' = [call EXCEPT ![s].step = "flush"]
       \/ End(s) /\ UNCHANGED left
    /\ UNCHANGED <<conv, contact, ingested, stored, sent, verdict, read,
                   wish, shown, waiting, raced>>

CommitReply(s) ==
    LET c == call[s]
        status == IF c.thread.status = "open" THEN "pending" ELSE c.thread.status
    IN  /\ At(s, "reply", "flush")
        /\ sent' = [sent EXCEPT ![c.reply] = "sent"]
        /\ conv' = [conv EXCEPT !.status = Written(c.thread.status, status, @)]
        /\ waiting' = FALSE
        /\ raced' = (raced \/ Overtaken(c))
        /\ End(s)
        /\ UNCHANGED <<contact, ingested, stored, left, verdict, read, wish, shown>>

\* set_conversation_fields; the assignee is not modelled.
BeginPatch(s) ==
    /\ conv.exists
    /\ \E status \in {"open", "pending", "resolved"} :
          Begin(s, [op |-> "patch", thread |-> conv, status |-> status])

CommitPatch(s) ==
    LET c == call[s]
    IN  /\ c.op = "patch"
        /\ conv' = [conv EXCEPT !.status = Written(c.thread.status, c.status, @)]
        /\ waiting' = FALSE
        /\ raced' = (raced \/ Overtaken(c))
        /\ End(s)
        /\ UNCHANGED <<contact, ingested, stored, sent, left, verdict, read, wish, shown>>

\* start_sms_conversation, from a contact's page: it links, and sends nothing.
BeginStart(s) ==
    /\ contact.known
    /\ Begin(s, [op |-> "start", thread |-> conv])

CommitStart(s) ==
    LET c == call[s]
    IN  /\ c.op = "start" /\ MayWrite(c)
        /\ conv' = [conv EXCEPT !.exists = TRUE, !.linked = TRUE]
        /\ End(s)
        /\ UNCHANGED <<contact, ingested, stored, sent, left, verdict, read,
                       wish, shown, waiting, raced>>

\* conversation_detail: the messages are loaded first,
BeginRead(s) ==
    /\ conv.exists
    /\ Begin(s, [op |-> "read", texts |-> Stored])

\* mark_read comes after, with the time by then: the watermark covers every
\* message that was stamped earlier, be it stored or not.
CommitRead(s) ==
    LET c == call[s]
    IN  /\ c.op = "read"
        /\ read' = read \cup Stored \cup Handled
        /\ shown' = shown \cup c.texts
        /\ raced' = (raced \/ Stored \cup Handled # c.texts)
        /\ End(s)
        /\ UNCHANGED <<conv, contact, ingested, stored, sent, left, verdict,
                       wish, waiting>>

-----------------------------------------------------------------------------
(***************************************************************************)
(* Delivery, and the rest of the world                                     *)
(***************************************************************************)
\* A delivered text stays delivered, however late another status comes in.  The
\* faulty form takes the statuses as they come.
LatestStatus(old, new) == new
NextStatus(old, new) == IF old = "delivered" THEN old ELSE new

\* apply_delivery_status finds nothing before the reply is committed, and then
\* does nothing.
BeginStatus(s, r) ==
    /\ r \in left
    /\ sent[r] # "none"
    /\ \E new \in {"sent", verdict[r]} :
          Begin(s, [op |-> "status", reply |-> r, old |-> sent[r], new |-> new])

CommitStatus(s) ==
    LET c == call[s]
    IN  /\ c.op = "status"
        /\ sent' = [sent EXCEPT ![c.reply] =
                       Written(c.old, NextStatus(c.old, c.new), @)]
        /\ End(s)
        /\ UNCHANGED <<conv, contact, ingested, stored, left, verdict, read,
                       wish, shown, waiting, raced>>

\* The process dies, or the request fails: nothing of it stays, but a text that
\* left has left.
Die(s) ==
    /\ call[s] # Idle
    /\ End(s)
    /\ UNCHANGED <<conv, contact, ingested, stored, sent, left, verdict, read,
                   wish, shown, waiting, raced>>

\* The number becomes known: a lead form, a walk-in.
BecomeKnown ==
    /\ ~contact.known
    /\ contact' = [contact EXCEPT !.known = TRUE]
    /\ UNCHANGED <<conv, ingested, stored, sent, left, verdict, read, call,
                   wish, shown, waiting, raced>>

Next ==
    \/ \E s \in Sessions :
          \/ \E m \in Inbound : BeginInbound(s, m)
          \/ Refetch(s) \/ CommitInbound(s)
          \/ \E r \in Replies : BeginReply(s, r) \/ BeginStatus(s, r)
          \/ Send(s) \/ CommitReply(s) \/ CommitStatus(s)
          \/ BeginPatch(s) \/ CommitPatch(s)
          \/ BeginStart(s) \/ CommitStart(s)
          \/ BeginRead(s) \/ CommitRead(s)
          \/ Die(s)
    \/ BecomeKnown

Spec == Init /\ [][Next]_vars

-----------------------------------------------------------------------------
(***************************************************************************)
(* Properties                                                              *)
(***************************************************************************)
\* Every variable has its type.
TypeOK ==
    /\ conv \in [exists : BOOLEAN, status : {"open", "pending", "resolved"},
                 last : Inbound \cup {NoText}, out : BOOLEAN, linked : BOOLEAN]
    /\ contact \in [known : BOOLEAN, out : BOOLEAN]
    /\ ingested \subseteq Inbound /\ read \subseteq Inbound /\ shown \subseteq Inbound
    /\ stored \in [Inbound -> Nat]
    /\ sent \in [Replies -> {"none", "sent", "delivered", "failed"}]
    /\ left \subseteq Replies
    /\ wish \in {"none", "stop", "start"}
    /\ waiting \in BOOLEAN /\ raced \in BOOLEAN

\* No message of the customer is stored twice or taken for stored when it is not,
\* however often and to whichever process Twilio delivers it.
StoredOnce ==
    /\ TypeOK
    /\ \A m \in Inbound : stored[m] = IF m \in ingested THEN 1 ELSE 0

\* Once a STOP is committed, no request that starts later sends a text, until a
\* START: not when the STOP came before the contact was known, nor when another
\* message of the customer was handled at the same time.
StopStands ==
    [][\A s \in Sessions :
          (At(s, "reply", "send") /\ call[s].reply \in left' \ left)
              => ~call[s].against]_vars

\* A text that was delivered is never shown as anything else again.
DeliveredIsFinal ==
    [][\A r \in Replies : sent[r] = "delivered" => sent'[r] = "delivered"]_vars

\* The thread is open for as long as the customer waits for an answer, unless
\* somebody parked it without having loaded the last message.
WaitingIsOpen ==
    (waiting /\ ~raced) => conv.status = "open"

\* A message nobody was shown leaves the thread unread, unless it came in while
\* the thread was being read.
UnseenIsUnread ==
    ~raced => \A m \in Inbound :
        (stored[m] > 0 /\ m \notin shown) => conv.last \notin read

\* The inbox never hides a customer who waits (inbox_service.py:718).
UnansweredShows == WaitingIsOpen /\ UnseenIsUnread
=============================================================================
