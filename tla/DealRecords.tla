---------------------------- MODULE DealRecords ----------------------------
(***************************************************************************)
(* The records of the sales desk and their Recycle Bin: contacts, deals    *)
(* (events of type vehicle_sale), what hangs on a deal (quotes and         *)
(* invoices, guests, special orders), and the cars a deal asks about and   *)
(* closes on.  Every request loads its rows, checks them and commits later *)
(* without having locked any: what it checked may no longer hold by then.  *)
(*                                                                         *)
(* Documented abstractions: quotes and invoices are papers that exist or   *)
(* do not (Quotes and PaymentLedger model what they go through); new_lead, *)
(* contacted and follow_up are one status, open; available and pending are *)
(* for_sale, and every other car status sold.  A phone is the only identity*)
(* of a contact.                                                           *)
(***************************************************************************)
EXTENDS Naturals, FiniteSets

CONSTANTS
    Contacts, Deals, Papers, Guests, Orders,    \* rows
    Cars,
    Phones,
    Sessions    \* requests in flight at once

NoRow == "none"

ASSUME RowsAssumption ==
    /\ NoRow \notin UNION {Contacts, Deals, Papers, Guests, Orders, Cars, Phones}
    /\ Deals \cap Cars = {}

VARIABLES
    contact,    \* [life, phone]
    deal,       \* events: [life, contact, asked, closed, status]
    car,        \* catalog_items.vehicle_status
    paper,      \* quotes and invoices: [life, deal]
    guest,      \* event_participants: [life, deal, contact]
    order,      \* special_orders: [life, deal, status]
    call,       \* the request each session is in
    loose,      \* rows written on the strength of a check that no longer held,
                \* or by code that does not check
    unmarked,   \* cars put back on sale by hand, and deals whose car moved in
                \* a way that marks nothing
    tidy        \* deals as the public form left them

rows == <<contact, deal, car, paper, guest, order>>
vars == <<contact, deal, car, paper, guest, order, call, loose, unmarked, tidy>>

Lives == {"none", "live", "archived"}
DealStatuses == {"open", "sold", "lost"}
OrderStatuses == {"needed", "ordered", "delayed", "received", "picked_up", "cancelled"}

\* A request: the contact, the deal and the other row it is about, the value it
\* brings, the phone of the contact it inserts, and the deal as it loaded it.
Idle == [op |-> "idle", c |-> NoRow, d |-> NoRow, r |-> NoRow, new |-> NoRow,
         phone |-> NoRow, seen |-> NoRow]

Live(rec) == rec.life = "live"

\* The car a deal closes on: the one sold, else the one asked about.
CarOf(d) == IF d.closed # NoRow THEN d.closed ELSE d.asked

-----------------------------------------------------------------------------
(***************************************************************************)
(* The dependency reports of record_dependencies.                          *)
(***************************************************************************)
LiveDealsOf(c) == {d \in Deals : Live(deal[d]) /\ deal[d].contact = c}

\* A guest counts against its contact while the deal is live too.
GuestsOf(c) ==
    {g \in Guests : Live(guest[g]) /\ guest[g].contact = c /\ Live(deal[guest[g].deal])}

PapersOf(ds) == {p \in Papers : Live(paper[p]) /\ paper[p].deal \in ds}

ContactUnblocked(c) ==
    /\ LiveDealsOf(c) = {}
    /\ GuestsOf(c) = {}
    /\ PapersOf({d \in Deals : deal[d].contact = c}) = {}

DealUnblocked(d) == PapersOf({d}) = {}

\* "delayed" does not block, though the vendor has the order.  The faulty form
\* forgets the order that waits for its customer.
OrderAtVendor(o) == order[o].status # "ordered"
OrderUnblocked(o) == order[o].status \notin {"ordered", "received"}

\* uq_contacts_phone_e164: one live contact per phone.
PhoneFree(phone, c) ==
    phone # NoRow => \A b \in Contacts \ {c} : ~(Live(contact[b]) /\ contact[b].phone = phone)

\* The open deals of a contact about a car, or about none.  The faulty form
\* keeps the terminal statuses instead of the others.
ClosedDeals(c, k) ==
    {d \in LiveDealsOf(c) : deal[d].status # "open" /\ deal[d].asked = k}
OpenDeals(c, k) ==
    {d \in LiveDealsOf(c) : deal[d].status = "open" /\ deal[d].asked = k}

\* special_order_service._ALLOWED.
Allowed(from, to) ==
    \/ from = "needed"  /\ to \in {"ordered", "cancelled"}
    \/ from = "ordered" /\ to \in {"delayed", "received", "cancelled"}
    \/ from = "delayed" /\ to \in {"ordered", "received", "cancelled"}
    \/ from = "received" /\ to \in {"picked_up", "cancelled"}

\* find_or_create_contact: the new row of the request, or the live contact found.
KnownTo(t) ==
    IF t.phone # NoRow THEN PhoneFree(t.phone, t.c) ELSE Live(contact[t.c])

-----------------------------------------------------------------------------
(***************************************************************************)
(* What each request checks on the rows it loads.  The same check holding  *)
(* still at the commit means that nothing it relied on has moved.          *)
(***************************************************************************)
Checked(t) ==
    CASE t.op = "archive_contact" -> Live(contact[t.c]) /\ ContactUnblocked(t.c)
      [] t.op = "restore_contact" ->
            contact[t.c].life = "archived" /\ PhoneFree(contact[t.c].phone, t.c)
      [] t.op = "update_contact" -> Live(contact[t.c]) /\ PhoneFree(t.new, t.c)
      [] t.op = "submit_lead" -> KnownTo(t) /\ OpenDeals(t.c, t.new) = {}
      [] t.op = "create_deal" -> Live(contact[t.c])
      [] t.op = "archive_deal" -> Live(deal[t.d]) /\ DealUnblocked(t.d)
      [] t.op = "restore_deal" ->
            deal[t.d].life = "archived" /\ Live(contact[deal[t.d].contact])
      [] t.op \in {"change_status", "set_vehicles"} ->
            Live(deal[t.d]) /\ deal[t.d] = t.seen
      [] t.op = "add_guest" -> Live(deal[t.d]) /\ KnownTo(t)
      [] t.op = "archive_guest" -> Live(guest[t.r])
      [] t.op = "restore_guest" -> guest[t.r].life = "archived" /\ Live(deal[t.d])
      [] t.op = "create_order" -> Live(deal[t.d])
      [] t.op = "mark_order" -> Live(order[t.r]) /\ Allowed(order[t.r].status, t.new)
      [] t.op = "archive_order" -> Live(order[t.r]) /\ OrderUnblocked(t.r)
      [] t.op = "restore_order" -> order[t.r].life = "archived" /\ Live(deal[t.d])

Begin(s, t) ==
    /\ call[s] = Idle
    /\ Checked(t)
    /\ call' = [call EXCEPT ![s] = t]
    /\ UNCHANGED <<rows, loose, unmarked, tidy>>

\* An INSERT of a contact with this phone is not committed yet: whoever writes
\* the phone waits for it.
PhoneLocked(phone, s) ==
    \E u \in Sessions \ {s} : call[u].phone = phone /\ phone # NoRow

-----------------------------------------------------------------------------
(***************************************************************************)
(* The requests                                                            *)
(***************************************************************************)
ArchiveContact(s, c) == Begin(s, [Idle EXCEPT !.op = "archive_contact", !.c = c])
RestoreContact(s, c) == Begin(s, [Idle EXCEPT !.op = "restore_contact", !.c = c])

UpdateContact(s, c, phone) ==
    /\ phone # contact[c].phone
    /\ Begin(s, [Idle EXCEPT !.op = "update_contact", !.c = c, !.new = phone])

\* The contact a request about this phone goes on with: the live one that has
\* it, or a row nobody uses yet.
Identified(s, c, phone) ==
    /\ ~PhoneLocked(phone, s)
    /\ IF PhoneFree(phone, NoRow)
       THEN contact[c].life = "none" /\ \A u \in Sessions : call[u].c # c
       ELSE Live(contact[c]) /\ contact[c].phone = phone

Inserted(phone) == IF PhoneFree(phone, NoRow) THEN phone ELSE NoRow

NewDeal(d) == deal[d].life = "none" /\ \A u \in Sessions : call[u].d # d

\* The car is linked only while it is for sale.  A lead whose contact has an open
\* deal about the car joins it and writes nothing modelled here.
SubmitLead(s, c, d, phone, k) ==
    /\ Identified(s, c, phone)
    /\ NewDeal(d)
    /\ k # NoRow => car[k] = "for_sale"
    /\ Begin(s, [Idle EXCEPT !.op = "submit_lead", !.c = c, !.d = d, !.new = k,
                            !.phone = Inserted(phone)])

\* create_walk_in_event, and promote_appointment_to_event with the contact of the
\* appointment.
CreateDeal(s, c, d, k) ==
    /\ NewDeal(d)
    /\ Begin(s, [Idle EXCEPT !.op = "create_deal", !.c = c, !.d = d, !.new = k])

ArchiveDeal(s, d) == Begin(s, [Idle EXCEPT !.op = "archive_deal", !.d = d])
RestoreDeal(s, d) == Begin(s, [Idle EXCEPT !.op = "restore_deal", !.d = d])

ChangeStatus(s, d, status) ==
    /\ status # deal[d].status
    /\ Begin(s, [Idle EXCEPT !.op = "change_status", !.d = d, !.new = status,
                            !.seen = deal[d]])

SetVehicles(s, d, asked, closed) ==
    /\ <<asked, closed>> # <<deal[d].asked, deal[d].closed>>
    /\ Begin(s, [Idle EXCEPT !.op = "set_vehicles", !.d = d, !.seen = deal[d],
                            !.new = [asked |-> asked, closed |-> closed]])

AddGuest(s, g, d, c, phone) ==
    /\ Identified(s, c, phone)
    /\ guest[g].life = "none"
    /\ \A u \in Sessions : call[u].r # g
    /\ Begin(s, [Idle EXCEPT !.op = "add_guest", !.r = g, !.d = d, !.c = c,
                            !.phone = Inserted(phone)])

\* Nothing but a paper in the guest's own name holds an archiving back, which
\* papers here do not have; the one celebrant a quinceanera needs is not modelled.
ArchiveGuest(s, g) ==
    Begin(s, [Idle EXCEPT !.op = "archive_guest", !.r = g, !.d = guest[g].deal])
RestoreGuest(s, g) ==
    Begin(s, [Idle EXCEPT !.op = "restore_guest", !.r = g, !.d = guest[g].deal])

CreateOrder(s, o, d, status) ==
    /\ order[o].life = "none"
    /\ \A u \in Sessions : call[u].r # o
    /\ status \notin {"received", "picked_up"}
    /\ Begin(s, [Idle EXCEPT !.op = "create_order", !.r = o, !.d = d, !.new = status])

\* mark_ordered, mark_delayed, mark_received, mark_picked_up, mark_cancelled.
MarkOrder(s, o, status) ==
    Begin(s, [Idle EXCEPT !.op = "mark_order", !.r = o, !.new = status])

ArchiveOrder(s, o) ==
    Begin(s, [Idle EXCEPT !.op = "archive_order", !.r = o, !.d = order[o].deal])
RestoreOrder(s, o) ==
    Begin(s, [Idle EXCEPT !.op = "restore_order", !.r = o, !.d = order[o].deal])

-----------------------------------------------------------------------------
(***************************************************************************)
(* The commits                                                             *)
(***************************************************************************)
\* The unique index refuses the row the request would leave.
PhoneWritten(t) == IF t.op = "update_contact" THEN t.new ELSE contact[t.c].phone

RefusedByIndex(t) ==
    /\ t.op \in {"restore_contact", "update_contact"}
    /\ t.op = "update_contact" => Live(contact[t.c])
    /\ ~PhoneFree(PhoneWritten(t), t.c)

Rollback(s) ==
    /\ RefusedByIndex(call[s])
    /\ call' = [call EXCEPT ![s] = Idle]
    /\ UNCHANGED <<rows, loose, unmarked, tidy>>

ContactsAfter(t) ==
    CASE t.op = "archive_contact" -> [contact EXCEPT ![t.c].life = "archived"]
      [] t.op = "restore_contact" -> [contact EXCEPT ![t.c].life = "live"]
      [] t.op = "update_contact"  -> [contact EXCEPT ![t.c].phone = t.new]
      [] t.op \in {"submit_lead", "add_guest"} /\ t.phone # NoRow ->
            [contact EXCEPT ![t.c] = [life |-> "live", phone |-> t.phone]]
      [] OTHER -> contact

\* A column the request did not change is not written.
Column(t, name) ==
    IF t.new[name] # t.seen[name] THEN t.new[name] ELSE deal[t.d][name]

DealsAfter(t) ==
    CASE t.op \in {"submit_lead", "create_deal"} ->
            [deal EXCEPT ![t.d] = [life |-> "live", contact |-> t.c, asked |-> t.new,
                                   closed |-> NoRow, status |-> "open"]]
      [] t.op = "archive_deal"  -> [deal EXCEPT ![t.d].life = "archived"]
      [] t.op = "restore_deal"  -> [deal EXCEPT ![t.d].life = "live"]
      [] t.op = "change_status" -> [deal EXCEPT ![t.d].status = t.new]
      [] t.op = "set_vehicles"  -> [deal EXCEPT ![t.d].asked = Column(t, "asked"),
                                                ![t.d].closed = Column(t, "closed")]
      [] OTHER -> deal

\* _propagate_vehicle_status: the car the request marks sold, or NoRow.  The
\* faulty form, of before migration 111, marks the car asked about.
MarkedAsAsked(t) ==
    IF t.op = "change_status" /\ t.new = "sold" THEN t.seen.asked ELSE NoRow
Marked(t) ==
    CASE t.op = "change_status" /\ t.new = "sold" -> CarOf(t.seen)
      [] t.op = "set_vehicles" /\ t.seen.status = "sold"
                              /\ t.new.closed # t.seen.closed -> CarOf(t.new)
      [] OTHER -> NoRow

GuestsAfter(t) ==
    CASE t.op = "add_guest" ->
            [guest EXCEPT ![t.r] = [life |-> "live", deal |-> t.d, contact |-> t.c]]
      [] t.op = "archive_guest" -> [guest EXCEPT ![t.r].life = "archived"]
      [] t.op = "restore_guest" -> [guest EXCEPT ![t.r].life = "live"]
      [] OTHER -> guest

OrdersAfter(t) ==
    CASE t.op = "create_order" ->
            [order EXCEPT ![t.r] = [life |-> "live", deal |-> t.d, status |-> t.new]]
      [] t.op = "mark_order"    -> [order EXCEPT ![t.r].status = t.new]
      [] t.op = "archive_order" -> [order EXCEPT ![t.r].life = "archived"]
      [] t.op = "restore_order" -> [order EXCEPT ![t.r].life = "live"]
      [] OTHER -> order

\* restore_event and restore_event_participant look at the parent row, not at
\* the contact of the guest they bring back.
RestoredUnseen(t) ==
    CASE t.op = "restore_deal" ->
            {g \in Guests : guest[g].deal = t.d /\ ~Live(contact[guest[g].contact])}
      [] t.op = "restore_guest" -> {t.r} \ {g \in Guests : Live(contact[guest[g].contact])}
      [] OTHER -> {}

OnCars(t) == t.op \in {"change_status", "set_vehicles"}

\* A sold deal without a closing car whose inquiry car changes marks nothing.
MarksNothing(t) ==
    t.op = "set_vehicles" /\ t.seen.status = "sold" /\ t.new.closed = t.seen.closed
        /\ t.new.closed = NoRow

Commit(s) ==
    LET t == call[s]
    IN  /\ t # Idle
        /\ ~RefusedByIndex(t)
        /\ t.op \in {"restore_contact", "update_contact"} => ~PhoneLocked(PhoneWritten(t), s)
        /\ contact' = ContactsAfter(t)
        /\ deal' = DealsAfter(t)
        /\ guest' = GuestsAfter(t)
        /\ order' = OrdersAfter(t)
        /\ car' = [k \in Cars |-> IF k = Marked(t) THEN "sold" ELSE car[k]]
        /\ call' = [call EXCEPT ![s] = Idle]
        /\ loose' = loose \cup RestoredUnseen(t) \cup
             (IF Checked(t) \/ OnCars(t) THEN {} ELSE {t.c, t.d, t.r} \ {NoRow})
        /\ unmarked' = (unmarked \ (IF Marked(t) = NoRow THEN {} ELSE {Marked(t), t.d})) \cup
             (IF OnCars(t) /\ (~Checked(t) \/ MarksNothing(t)) THEN {t.d} ELSE {})
        /\ tidy' = CASE t.op = "submit_lead" /\ Checked(t) -> tidy \cup {t.d}
                     [] t.op \in {"restore_deal", "set_vehicles", "change_status"} ->
                           tidy \ {t.d}
                     [] OTHER -> tidy
        /\ UNCHANGED paper

\* create_quote and create_invoice ask only that the deal and the contact exist,
\* so nothing they read can go stale.
CreatePaper(p, d) ==
    /\ paper[p].life = "none"
    /\ deal[d].life # "none"
    /\ paper' = [paper EXCEPT ![p] = [life |-> "live", deal |-> d]]
    /\ loose' = IF Live(deal[d]) /\ Live(contact[deal[d].contact]) THEN loose
                ELSE loose \cup {p}
    /\ UNCHANGED <<contact, deal, car, guest, order, call, unmarked, tidy>>

\* soft_delete_quote and soft_delete_invoice: nothing brings the row back.
DeletePaper(p) ==
    /\ Live(paper[p])
    /\ paper' = [paper EXCEPT ![p].life = "archived"]
    /\ UNCHANGED <<contact, deal, car, guest, order, call, loose, unmarked, tidy>>

\* PATCH of a catalog item.
SetCarStatus(k, status) ==
    /\ car[k] # status
    /\ car' = [car EXCEPT ![k] = status]
    /\ unmarked' = IF status = "for_sale" THEN unmarked \cup {k} ELSE unmarked \ {k}
    /\ UNCHANGED <<contact, deal, paper, guest, order, call, loose, tidy>>

-----------------------------------------------------------------------------
Init ==
    /\ contact = [c \in Contacts |-> [life |-> "none", phone |-> NoRow]]
    /\ deal = [d \in Deals |-> [life |-> "none", contact |-> NoRow, asked |-> NoRow,
                                closed |-> NoRow, status |-> "open"]]
    /\ car = [k \in Cars |-> "for_sale"]
    /\ paper = [p \in Papers |-> [life |-> "none", deal |-> NoRow]]
    /\ guest = [g \in Guests |-> [life |-> "none", deal |-> NoRow, contact |-> NoRow]]
    /\ order = [o \in Orders |-> [life |-> "none", deal |-> NoRow, status |-> "needed"]]
    /\ call = [s \in Sessions |-> Idle]
    /\ loose = {}
    /\ unmarked = {}
    /\ tidy = {}

OnContacts(s, c) ==
    \/ ArchiveContact(s, c)
    \/ RestoreContact(s, c)
    \/ \E phone \in Phones \cup {NoRow} : UpdateContact(s, c, phone)

OnDeals(s, d) ==
    \/ \E c \in Contacts, k \in Cars \cup {NoRow} :
          \/ \E phone \in Phones : SubmitLead(s, c, d, phone, k)
          \/ CreateDeal(s, c, d, k)
    \/ ArchiveDeal(s, d)
    \/ RestoreDeal(s, d)
    \/ \E status \in DealStatuses : ChangeStatus(s, d, status)
    \/ \E asked, closed \in Cars \cup {NoRow} : SetVehicles(s, d, asked, closed)

OnGuests(s, g) ==
    \/ \E d \in Deals, c \in Contacts, phone \in Phones : AddGuest(s, g, d, c, phone)
    \/ ArchiveGuest(s, g)
    \/ RestoreGuest(s, g)

OnOrders(s, o) ==
    \/ \E d \in Deals, status \in OrderStatuses : CreateOrder(s, o, d, status)
    \/ \E status \in OrderStatuses : MarkOrder(s, o, status)
    \/ ArchiveOrder(s, o)
    \/ RestoreOrder(s, o)

BeginCall(s) ==
    \/ \E c \in Contacts : OnContacts(s, c)
    \/ \E d \in Deals : OnDeals(s, d)
    \/ \E g \in Guests : OnGuests(s, g)
    \/ \E o \in Orders : OnOrders(s, o)

Next ==
    \/ \E s \in Sessions : BeginCall(s) \/ Commit(s) \/ Rollback(s)
    \/ \E p \in Papers : DeletePaper(p) \/ \E d \in Deals : CreatePaper(p, d)
    \/ \E k \in Cars, status \in {"for_sale", "sold"} : SetCarStatus(k, status)

Spec == Init /\ [][Next]_vars

-----------------------------------------------------------------------------
(***************************************************************************)
(* Properties                                                              *)
(***************************************************************************)
TypeOK ==
    /\ contact \in [Contacts -> [life : Lives, phone : Phones \cup {NoRow}]]
    /\ deal \in [Deals -> [life : Lives, contact : Contacts \cup {NoRow},
                           asked : Cars \cup {NoRow}, closed : Cars \cup {NoRow},
                           status : DealStatuses]]
    /\ car \in [Cars -> {"for_sale", "sold"}]
    /\ paper \in [Papers -> [life : Lives, deal : Deals \cup {NoRow}]]
    /\ guest \in [Guests -> [life : Lives, deal : Deals \cup {NoRow},
                             contact : Contacts \cup {NoRow}]]
    /\ order \in [Orders -> [life : Lives, deal : Deals \cup {NoRow},
                             status : OrderStatuses]]

\* The Recycle Bin never hides what the desk still works on: the contact of a
\* live deal, of a live paper and of a guest of a live deal is live, a live
\* paper's deal is live, and a special order in the bin is not under way.  Only
\* a request whose check was overtaken, or a call that checks nothing, breaks
\* this (record_dependencies, archive_*, restore_*).
BinHidesNothing ==
    /\ \A d \in Deals : Live(deal[d]) =>
         \/ Live(contact[deal[d].contact])
         \/ {d, deal[d].contact} \cap loose # {}
    /\ \A p \in Papers : Live(paper[p]) =>
         LET d == paper[p].deal
         IN  \/ Live(deal[d]) /\ Live(contact[deal[d].contact])
             \/ {p, d, deal[d].contact} \cap loose # {}
    /\ \A g \in Guests : Live(guest[g]) /\ Live(deal[guest[g].deal]) =>
         \/ Live(contact[guest[g].contact])
         \/ {g, guest[g].deal, guest[g].contact} \cap loose # {}
    /\ \A o \in Orders : order[o].life = "archived" =>
         order[o].status \notin {"ordered", "received"} \/ o \in loose

\* The car a sold deal closed on is marked sold, through corrections of the
\* links and reopenings, unless staff put it back on sale, the deal's own calls
\* overlapped, or its inquiry car was changed after the sale
\* (event_service._propagate_vehicle_status).
SoldCarsMarked ==
    \A d \in Deals :
        deal[d].status = "sold" /\ CarOf(deal[d]) # NoRow =>
            car[CarOf(deal[d])] = "sold" \/ {d, CarOf(deal[d])} \cap unmarked # {}

\* The public form keeps one open deal per contact and car, however often it is
\* sent and whichever calls run meanwhile, as long as staff leave its deals
\* alone and two submissions do not overlap (public_lead_service).
OneOpenLead ==
    \A d, e \in tidy :
        d # e /\ Live(deal[d]) /\ Live(deal[e]) =>
            <<deal[d].contact, deal[d].asked>> # <<deal[e].contact, deal[e].asked>>

\* The board shows the desk's sales and its inquiries once, and as they stand.
BoardTrue == SoldCarsMarked /\ OneOpenLead
=============================================================================
