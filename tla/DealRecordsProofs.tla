--------------------------- MODULE DealRecordsProofs ---------------------------
(***************************************************************************)
(* The Recycle Bin hides nothing in use, and the board shows sales and     *)
(* inquiries as they stand, for any rows and any requests in flight.       *)
(*                                                                         *)
(* A request that commits on a check that still holds finds nothing in its *)
(* way; one whose check was overtaken leaves its rows loose.  What has to  *)
(* be known besides is what no request forgets: that a row once filed      *)
(* stays filed and names filed rows (Filed), that the id of a new deal is  *)
(* used by one request only (CallsOK), and that the deals of the public    *)
(* form are open (TidyOK).                                                 *)
(***************************************************************************)
EXTENDS DealRecords, TLAPS

DealRec == [life : Lives, contact : Contacts \cup {NoRow}, asked : Cars \cup {NoRow},
            closed : Cars \cup {NoRow}, status : DealStatuses]

OnePhone == Phones \cup {NoRow}
OneCar == Cars \cup {NoRow}

Creates(t) == t.op \in {"submit_lead", "create_deal"}

\* The rows and values a request has in hand.
OnContact(t) ==
    /\ t.op \in {"archive_contact", "restore_contact", "update_contact"}
    /\ t.c \in Contacts
    /\ t.op = "update_contact" => t.new \in OnePhone

OnNewDeal(t) ==
    /\ Creates(t)
    /\ t.c \in Contacts /\ t.d \in Deals /\ t.new \in OneCar /\ t.phone \in OnePhone

OnBin(t) == t.op \in {"archive_deal", "restore_deal"} /\ t.d \in Deals

OnSale(t) ==
    /\ t.op \in {"change_status", "set_vehicles"}
    /\ t.d \in Deals /\ t.seen \in DealRec
    /\ t.op = "change_status" => t.new \in DealStatuses
    /\ t.op = "set_vehicles" =>
          /\ t.new \in [asked : OneCar, closed : OneCar]
          /\ t.new # [asked |-> t.seen.asked, closed |-> t.seen.closed]

OnGuest(t) ==
    /\ t.op \in {"add_guest", "archive_guest", "restore_guest"}
    /\ t.r \in Guests
    /\ t.op = "add_guest" => t.d \in Deals /\ t.c \in Contacts /\ t.phone \in OnePhone

OnOrder(t) ==
    /\ t.op \in {"create_order", "mark_order", "archive_order", "restore_order"}
    /\ t.r \in Orders
    /\ t.op = "create_order" => t.d \in Deals
    /\ t.op \in {"create_order", "mark_order"} => t.new \in OrderStatuses

CallOK(t) ==
    \/ t = Idle
    \/ OnContact(t) \/ OnNewDeal(t) \/ OnBin(t) \/ OnSale(t) \/ OnGuest(t) \/ OnOrder(t)

\* What stays true of the rows until it commits.
Knows(t, ds, gs) ==
    /\ Creates(t) => ds[t.d].life = "none"
    /\ t.op \in {"archive_deal", "restore_deal", "add_guest"} => ds[t.d].life # "none"
    /\ t.op \in {"archive_guest", "restore_guest"} => gs[t.r].life # "none"

CallsOK ==
    /\ call = [s \in Sessions |-> call[s]]
    /\ \A s \in Sessions : CallOK(call[s]) /\ Knows(call[s], deal, guest)
    /\ \A s, u \in Sessions :
          s # u /\ Creates(call[s]) /\ Creates(call[u]) => call[s].d # call[u].d

Filed ==
    /\ \A d \in Deals : deal[d].life # "none" => deal[d].contact \in Contacts
    /\ \A p \in Papers : paper[p].life # "none" =>
          paper[p].deal \in Deals /\ deal[paper[p].deal].life # "none"
    /\ \A g \in Guests : guest[g].life # "none" =>
          /\ guest[g].contact \in Contacts
          /\ guest[g].deal \in Deals /\ deal[guest[g].deal].life # "none"

TidyOK ==
    /\ tidy \subseteq Deals
    /\ \A d \in tidy : deal[d].life # "none" /\ deal[d].status = "open"

RecordsInv ==
    TypeOK /\ CallsOK /\ Filed /\ TidyOK /\ BinHidesNothing /\ SoldCarsMarked /\ OneOpenLead

-----------------------------------------------------------------------------
(***************************************************************************)
(* A request begins                                                        *)
(***************************************************************************)
\* Loading and checking changes no row: only the request joins those in flight.
LEMMA BeginKeeps ==
    ASSUME RecordsInv, NEW s \in Sessions, NEW t, Begin(s, t),
           CallOK(t), Knows(t, deal, guest),
           Creates(t) => \A u \in Sessions : call[u].d # t.d
    PROVE  RecordsInv'
<1>1. call' = [call EXCEPT ![s] = t] /\ UNCHANGED <<rows, loose, unmarked, tidy>>
  BY DEF Begin
<1>2. UNCHANGED <<contact, deal, car, paper, guest, order, loose, unmarked, tidy>>
  BY <1>1 DEF rows
<1>3. TypeOK' /\ Filed' /\ TidyOK'
  BY <1>2 DEF RecordsInv, TypeOK, Filed, TidyOK
<1>4. BinHidesNothing'
  BY <1>2 DEF RecordsInv, BinHidesNothing, Live
<1>5. SoldCarsMarked' /\ OneOpenLead'
  BY <1>2 DEF RecordsInv, SoldCarsMarked, OneOpenLead, Live, CarOf
<1>6. CallsOK'
  <2>1. call' = [u \in Sessions |-> call'[u]]
    BY <1>1 DEF RecordsInv, CallsOK
  <2>2. call'[s] = t /\ \A u \in Sessions \ {s} : call'[u] = call[u]
    BY <1>1 DEF RecordsInv, CallsOK
  <2>3. \A u \in Sessions : CallOK(call'[u]) /\ Knows(call'[u], deal', guest')
    BY <1>2, <2>2 DEF RecordsInv, CallsOK
  <2>4. \A v, w \in Sessions :
           v # w /\ Creates(call'[v]) /\ Creates(call'[w]) => call'[v].d # call'[w].d
    BY <2>2 DEF RecordsInv, CallsOK
  <2> QED BY <2>1, <2>3, <2>4 DEF CallsOK
<1> QED BY <1>3, <1>4, <1>5, <1>6 DEF RecordsInv

\* A request on a contact loads its call and moves no record.
LEMMA BeginContact ==
    ASSUME RecordsInv, NEW s \in Sessions, NEW c \in Contacts, OnContacts(s, c)
    PROVE  RecordsInv'
<1>1. ASSUME NEW op \in {"archive_contact", "restore_contact"},
             Begin(s, [Idle EXCEPT !.op = op, !.c = c])
      PROVE  RecordsInv'
  <2> DEFINE t == [Idle EXCEPT !.op = op, !.c = c]
  <2>1. CallOK(t) /\ Knows(t, deal, guest) /\ ~Creates(t)
    BY DEF Idle, CallOK, OnContact, Knows, Creates
  <2> QED BY <1>1, <2>1, BeginKeeps
<1>2. ASSUME NEW phone \in OnePhone, UpdateContact(s, c, phone) PROVE RecordsInv'
  <2> DEFINE t == [Idle EXCEPT !.op = "update_contact", !.c = c, !.new = phone]
  <2>1. CallOK(t) /\ Knows(t, deal, guest) /\ ~Creates(t)
    BY DEF Idle, CallOK, OnContact, Knows, Creates
  <2> QED BY <1>2, <2>1, BeginKeeps DEF UpdateContact
<1> QED BY <1>1, <1>2 DEF OnContacts, ArchiveContact, RestoreContact, OnePhone

\* An id nobody uses is nobody else's new deal.
LEMMA BeginNewDeal ==
    ASSUME RecordsInv, NEW s \in Sessions, NEW d \in Deals, NEW c \in Contacts,
           NEW k \in OneCar,
           CreateDeal(s, c, d, k) \/ \E phone \in Phones : SubmitLead(s, c, d, phone, k)
    PROVE  RecordsInv'
<1>1. ASSUME CreateDeal(s, c, d, k) PROVE RecordsInv'
  <2> DEFINE t == [Idle EXCEPT !.op = "create_deal", !.c = c, !.d = d, !.new = k]
  <2>1. CallOK(t) /\ t.d = d /\ Creates(t)
    BY DEF Idle, CallOK, OnNewDeal, Creates, OnePhone
  <2>2. Knows(t, deal, guest) /\ \A u \in Sessions : call[u].d # t.d
    BY <1>1, <2>1 DEF CreateDeal, NewDeal, Knows, Creates, Idle
  <2> QED BY <1>1, <2>1, <2>2, BeginKeeps DEF CreateDeal
<1>2. ASSUME NEW phone \in Phones, SubmitLead(s, c, d, phone, k) PROVE RecordsInv'
  <2> DEFINE t == [Idle EXCEPT !.op = "submit_lead", !.c = c, !.d = d, !.new = k,
                              !.phone = Inserted(phone)]
  <2>1. Inserted(phone) \in OnePhone
    BY DEF Inserted, OnePhone
  <2>2. CallOK(t) /\ t.d = d /\ Creates(t)
    BY <2>1 DEF Idle, CallOK, OnNewDeal, Creates
  <2>3. Knows(t, deal, guest) /\ \A u \in Sessions : call[u].d # t.d
    BY <1>2, <2>2 DEF SubmitLead, NewDeal, Knows, Creates, Idle
  <2> QED BY <1>2, <2>2, <2>3, BeginKeeps DEF SubmitLead
<1> QED BY <1>1, <1>2

\* What is changed of a deal is a filed deal's.
LEMMA BeginDeal ==
    ASSUME RecordsInv, NEW s \in Sessions, NEW d \in Deals, OnDeals(s, d)
    PROVE  RecordsInv'
<1>1. ASSUME NEW op \in {"archive_deal", "restore_deal"},
             Begin(s, [Idle EXCEPT !.op = op, !.d = d])
      PROVE  RecordsInv'
  <2> DEFINE t == [Idle EXCEPT !.op = op, !.d = d]
  <2>1. CallOK(t) /\ t.d = d /\ t.op = op
    BY DEF Idle, CallOK, OnBin
  <2>2. deal[d].life # "none"
    BY <1>1, <2>1 DEF Begin, Checked, Live
  <2>3. Knows(t, deal, guest) /\ ~Creates(t)
    BY <2>1, <2>2 DEF Knows, Creates
  <2> QED BY <1>1, <2>1, <2>3, BeginKeeps
<1>2. deal[d] \in DealRec
  BY DEF RecordsInv, TypeOK, DealRec
<1>3. ASSUME NEW status \in DealStatuses, ChangeStatus(s, d, status) PROVE RecordsInv'
  <2> DEFINE t == [Idle EXCEPT !.op = "change_status", !.d = d, !.new = status,
                              !.seen = deal[d]]
  <2>1. CallOK(t) /\ Knows(t, deal, guest) /\ ~Creates(t)
    BY <1>2 DEF Idle, CallOK, OnSale, Knows, Creates
  <2> QED BY <1>3, <2>1, BeginKeeps DEF ChangeStatus
<1>4. ASSUME NEW asked \in OneCar, NEW closed \in OneCar, SetVehicles(s, d, asked, closed)
      PROVE  RecordsInv'
  <2> DEFINE new == [asked |-> asked, closed |-> closed]
             t == [Idle EXCEPT !.op = "set_vehicles", !.d = d, !.seen = deal[d], !.new = new]
  <2>1. new \in [asked : OneCar, closed : OneCar]
        /\ new # [asked |-> deal[d].asked, closed |-> deal[d].closed]
    BY <1>4 DEF SetVehicles
  <2>2. CallOK(t) /\ Knows(t, deal, guest) /\ ~Creates(t)
    BY <1>2, <2>1 DEF Idle, CallOK, OnSale, Knows, Creates
  <2> QED BY <1>4, <2>2, BeginKeeps DEF SetVehicles
<1> QED BY <1>1, <1>3, <1>4, BeginNewDeal DEF OnDeals, ArchiveDeal, RestoreDeal, OneCar

\* A guest joins a filed deal, and comes and goes as a filed guest.
LEMMA BeginGuest ==
    ASSUME RecordsInv, NEW s \in Sessions, NEW g \in Guests, OnGuests(s, g)
    PROVE  RecordsInv'
<1>1. ASSUME NEW op \in {"archive_guest", "restore_guest"},
             Begin(s, [Idle EXCEPT !.op = op, !.r = g, !.d = guest[g].deal])
      PROVE  RecordsInv'
  <2> DEFINE t == [Idle EXCEPT !.op = op, !.r = g, !.d = guest[g].deal]
  <2>1. CallOK(t) /\ t.r = g /\ t.op = op
    BY DEF Idle, CallOK, OnGuest
  <2>2. guest[g].life # "none"
    BY <1>1, <2>1 DEF Begin, Checked, Live
  <2>3. Knows(t, deal, guest) /\ ~Creates(t)
    BY <2>1, <2>2 DEF Knows, Creates
  <2> QED BY <1>1, <2>1, <2>3, BeginKeeps
<1>2. ASSUME NEW d \in Deals, NEW c \in Contacts, NEW phone \in Phones,
             AddGuest(s, g, d, c, phone)
      PROVE  RecordsInv'
  <2> DEFINE t == [Idle EXCEPT !.op = "add_guest", !.r = g, !.d = d, !.c = c,
                              !.phone = Inserted(phone)]
  <2>1. Inserted(phone) \in OnePhone
    BY DEF Inserted, OnePhone
  <2>2. CallOK(t) /\ t.d = d /\ t.op = "add_guest"
    BY <2>1 DEF Idle, CallOK, OnGuest
  <2>3. deal[d].life # "none"
    BY <1>2, <2>2 DEF AddGuest, Begin, Checked, Live
  <2>4. Knows(t, deal, guest) /\ ~Creates(t)
    BY <2>2, <2>3 DEF Knows, Creates
  <2> QED BY <1>2, <2>2, <2>4, BeginKeeps DEF AddGuest
<1> QED BY <1>1, <1>2 DEF OnGuests, ArchiveGuest, RestoreGuest

\* A request on an order loads its call and moves no record.
LEMMA BeginOrder ==
    ASSUME RecordsInv, NEW s \in Sessions, NEW o \in Orders, OnOrders(s, o)
    PROVE  RecordsInv'
<1>1. ASSUME NEW t, Begin(s, t), OnOrder(t) PROVE RecordsInv'
  <2>1. CallOK(t) /\ Knows(t, deal, guest) /\ ~Creates(t)
    BY <1>1 DEF CallOK, OnOrder, Knows, Creates
  <2> QED BY <1>1, <2>1, BeginKeeps
<1>2. ASSUME NEW d \in Deals, NEW status \in OrderStatuses, CreateOrder(s, o, d, status)
      PROVE  RecordsInv'
  <2>1. OnOrder([Idle EXCEPT !.op = "create_order", !.r = o, !.d = d, !.new = status])
    BY DEF Idle, OnOrder
  <2> QED BY <1>1, <1>2, <2>1 DEF CreateOrder
<1>3. ASSUME NEW status \in OrderStatuses, MarkOrder(s, o, status) PROVE RecordsInv'
  <2>1. OnOrder([Idle EXCEPT !.op = "mark_order", !.r = o, !.new = status])
    BY DEF Idle, OnOrder
  <2> QED BY <1>1, <1>3, <2>1 DEF MarkOrder
<1>4. ASSUME ArchiveOrder(s, o) \/ RestoreOrder(s, o) PROVE RecordsInv'
  <2>1. /\ OnOrder([Idle EXCEPT !.op = "archive_order", !.r = o, !.d = order[o].deal])
        /\ OnOrder([Idle EXCEPT !.op = "restore_order", !.r = o, !.d = order[o].deal])
    BY DEF Idle, OnOrder
  <2> QED BY <1>1, <1>4, <2>1 DEF ArchiveOrder, RestoreOrder
<1> QED BY <1>2, <1>3, <1>4 DEF OnOrders
-----------------------------------------------------------------------------
(***************************************************************************)
(* A request commits                                                       *)
(***************************************************************************)
\* The other requests still know what they knew, as long as filed rows stay
\* filed and only the request that creates a deal files it.
LEMMA CallsGoOn ==
    ASSUME RecordsInv, NEW s \in Sessions, Commit(s),
           \A d \in Deals : deal[d].life # "none" => deal'[d].life # "none",
           \A d \in Deals : deal[d].life = "none" /\ deal'[d].life # "none" =>
              Creates(call[s]) /\ d = call[s].d,
           \A g \in Guests : guest[g].life # "none" => guest'[g].life # "none"
    PROVE  CallsOK'
<1>1. call' = [call EXCEPT ![s] = Idle]
  BY DEF Commit
<1>2. call'[s] = Idle /\ \A u \in Sessions \ {s} : call'[u] = call[u]
  BY <1>1 DEF RecordsInv, CallsOK
<1>3. CallOK(Idle) /\ Knows(Idle, deal', guest') /\ ~Creates(Idle)
  BY DEF CallOK, Knows, Idle, Creates
<1>4. \A u \in Sessions \ {s} : CallOK(call[u]) /\ Knows(call[u], deal', guest')
  <2> SUFFICES ASSUME NEW u \in Sessions \ {s}
               PROVE  CallOK(call[u]) /\ Knows(call[u], deal', guest')
    OBVIOUS
  <2>1. CallOK(call[u]) /\ Knows(call[u], deal, guest)
    BY DEF RecordsInv, CallsOK
  <2>2. Creates(call[u]) => call[u].d \in Deals
    BY <2>1, <1>3
       DEF CallOK, OnContact, OnNewDeal, OnBin, OnSale, OnGuest, OnOrder, Creates
  <2>3. Creates(call[u]) => deal'[call[u].d].life = "none"
    BY <2>1, <2>2 DEF RecordsInv, CallsOK, Knows
  <2>4. call[u].op \in {"archive_deal", "restore_deal", "add_guest"} => call[u].d \in Deals
    BY <2>1 DEF CallOK, OnContact, OnNewDeal, OnBin, OnSale, OnGuest, OnOrder, Creates, Idle
  <2>5. call[u].op \in {"archive_guest", "restore_guest"} => call[u].r \in Guests
    BY <2>1 DEF CallOK, OnContact, OnNewDeal, OnBin, OnSale, OnGuest, OnOrder, Creates, Idle
  <2> QED BY <2>1, <2>3, <2>4, <2>5 DEF Knows
<1>5. \A u \in Sessions : CallOK(call'[u]) /\ Knows(call'[u], deal', guest')
  BY <1>2, <1>3, <1>4
<1>6. \A v, w \in Sessions :
         v # w /\ Creates(call'[v]) /\ Creates(call'[w]) => call'[v].d # call'[w].d
  BY <1>2, <1>3 DEF RecordsInv, CallsOK
<1>7. call' = [u \in Sessions |-> call'[u]]
  BY <1>1 DEF RecordsInv, CallsOK
<1> QED BY <1>5, <1>6, <1>7 DEF CallsOK

\* A row once loose stays so; a check that failed meanwhile loosens the rows of
\* the request, and a restored row the ones nobody looked at.
LEMMA LooseGrows ==
    ASSUME NEW s \in Sessions, Commit(s)
    PROVE  /\ loose \subseteq loose'
           /\ RestoredUnseen(call[s]) \subseteq loose'
           /\ ~OnCars(call[s]) /\ ~Checked(call[s]) =>
                 {call[s].c, call[s].d, call[s].r} \ {NoRow} \subseteq loose'
<1> DEFINE t == call[s]
           more == IF Checked(t) \/ OnCars(t) THEN {} ELSE {t.c, t.d, t.r} \ {NoRow}
<1>1. loose' = loose \cup RestoredUnseen(t) \cup more
  BY DEF Commit
<1>2. ~OnCars(t) /\ ~Checked(t) => more = {t.c, t.d, t.r} \ {NoRow}
  OBVIOUS
<1> HIDE DEF more
<1> QED BY <1>1, <1>2

\* Only the calls on a sale touch the cars.
LEMMA CarsStay ==
    ASSUME RecordsInv, NEW s \in Sessions, Commit(s), ~OnCars(call[s])
    PROVE  car' = car /\ unmarked' = unmarked
<1> DEFINE t == call[s]
<1>1. Marked(t) = NoRow
  BY DEF Marked, OnCars
<1>2. car' = [k \in Cars |-> IF k = NoRow THEN "sold" ELSE car[k]]
  BY <1>1 DEF Commit
<1>3. NoRow \notin Cars
  BY RowsAssumption
<1>4. car' = car
  BY <1>2, <1>3 DEF RecordsInv, TypeOK
<1>5. unmarked' = (unmarked \ {}) \cup {}
  BY <1>1 DEF Commit, OnCars
<1> QED BY <1>4, <1>5

\* The cars stay marked when neither they nor the deals change.
LEMMA SalesStand ==
    ASSUME RecordsInv, UNCHANGED <<deal, car, unmarked>>
    PROVE  SoldCarsMarked'
  BY DEF RecordsInv, SoldCarsMarked, CarOf

\* Archiving, restoring and changing contacts.
LEMMA CommitContact ==
    ASSUME RecordsInv, NEW s \in Sessions, Commit(s), OnContact(call[s])
    PROVE  RecordsInv'
<1> DEFINE t == call[s]
<1>1. UNCHANGED <<deal, guest, order, paper, tidy>>
  BY DEF Commit, OnContact, DealsAfter, GuestsAfter, OrdersAfter
<1>2. UNCHANGED <<car, unmarked>>
  BY CarsStay DEF OnContact, OnCars
<1>3. contact' = ContactsAfter(t) /\ t.c \in Contacts /\ NoRow \notin Contacts
  BY RowsAssumption DEF Commit, OnContact
<1>4. CASE t.op = "archive_contact"
  <2>1. contact' = [contact EXCEPT ![t.c].life = "archived"]
    BY <1>3, <1>4 DEF ContactsAfter
  <2>2. ContactUnblocked(t.c) \/ t.c \in loose'
    BY <1>3, <1>4, LooseGrows DEF Checked, OnCars
  <2>3. TypeOK'
    BY <1>1, <1>2, <1>3, <2>1 DEF RecordsInv, TypeOK, Lives
  <2>4. loose \subseteq loose'
    BY LooseGrows
  <2>5. \A c \in Contacts \ {t.c} : contact'[c] = contact[c]
    BY <2>1 DEF RecordsInv, TypeOK
  <2>6. BinHidesNothing'
    <3>1. ASSUME NEW d \in Deals, Live(deal[d])
          PROVE  \/ Live(contact'[deal[d].contact])
                 \/ {d, deal[d].contact} \cap loose' # {}
      <4>1. deal[d].contact \in Contacts
        BY <3>1 DEF RecordsInv, Filed, Live
      <4> QED BY <3>1, <4>1, <2>2, <2>4, <2>5
              DEF RecordsInv, BinHidesNothing, ContactUnblocked, LiveDealsOf
    <3>2. ASSUME NEW p \in Papers, Live(paper[p])
          PROVE  LET d == paper[p].deal
                 IN  \/ Live(deal[d]) /\ Live(contact'[deal[d].contact])
                     \/ {p, d, deal[d].contact} \cap loose' # {}
      <4>1. paper[p].deal \in Deals /\ deal[paper[p].deal].contact \in Contacts
        BY <3>2 DEF RecordsInv, Filed, Live
      <4>2. CASE deal[paper[p].deal].contact # t.c
        BY <3>2, <4>1, <4>2, <2>4, <2>5 DEF RecordsInv, BinHidesNothing
      <4>3. CASE deal[paper[p].deal].contact = t.c
        BY <3>2, <4>1, <4>3, <2>2 DEF ContactUnblocked, PapersOf
      <4> QED BY <4>2, <4>3
    <3>3. ASSUME NEW g \in Guests, Live(guest[g]), Live(deal[guest[g].deal])
          PROVE  \/ Live(contact'[guest[g].contact])
                 \/ {g, guest[g].deal, guest[g].contact} \cap loose' # {}
      <4>1. guest[g].contact \in Contacts
        BY <3>3 DEF RecordsInv, Filed, Live
      <4> QED BY <3>3, <4>1, <2>2, <2>4, <2>5
              DEF RecordsInv, BinHidesNothing, ContactUnblocked, GuestsOf
    <3>4. \A o \in Orders : order[o].life = "archived" =>
             order[o].status \notin {"ordered", "received"} \/ o \in loose'
      BY <2>4 DEF RecordsInv, BinHidesNothing
    <3> QED BY <1>1, <3>1, <3>2, <3>3, <3>4 DEF BinHidesNothing, Live
  <2> QED BY <1>1, <1>2, <2>3, <2>6, CallsGoOn, SalesStand
          DEF RecordsInv, Filed, TidyOK, OneOpenLead, Live
<1>5. CASE t.op \in {"restore_contact", "update_contact"}
  <2>1. \A c \in Contacts : Live(contact[c]) => Live(contact'[c])
    BY <1>3, <1>5 DEF ContactsAfter, RecordsInv, TypeOK, Live
  <2>2. TypeOK'
    BY <1>1, <1>2, <1>3, <1>5
       DEF RecordsInv, TypeOK, ContactsAfter, Lives, OnContact, OnePhone
  <2>3. BinHidesNothing'
    BY <1>1, <2>1, LooseGrows DEF RecordsInv, BinHidesNothing, Filed, Live
  <2> QED BY <1>1, <1>2, <2>2, <2>3, CallsGoOn, SalesStand
          DEF RecordsInv, Filed, TidyOK, OneOpenLead, Live
<1> QED BY <1>4, <1>5 DEF OnContact
\* Filing a deal, for a contact that is inserted with it, live, or overtaken.
LEMMA CommitNewDeal ==
    ASSUME RecordsInv, NEW s \in Sessions, Commit(s), OnNewDeal(call[s])
    PROVE  RecordsInv'
<1> DEFINE t == call[s]
           new == [life |-> "live", contact |-> t.c, asked |-> t.new,
                   closed |-> NoRow, status |-> "open"]
<1>1. deal' = [deal EXCEPT ![t.d] = new] /\ UNCHANGED <<guest, order, paper>>
  BY DEF Commit, OnNewDeal, Creates, DealsAfter, GuestsAfter, OrdersAfter
<1>2. UNCHANGED <<car, unmarked>>
  BY CarsStay DEF OnNewDeal, Creates, OnCars
<1>3. t.c \in Contacts /\ t.d \in Deals /\ t.new \in OneCar /\ NoRow \notin Contacts
      /\ loose \subseteq loose'
  BY RowsAssumption, LooseGrows DEF OnNewDeal
<1>4. deal[t.d].life = "none"
  BY DEF RecordsInv, CallsOK, Knows, OnNewDeal
<1>5. \/ contact' = contact /\ (t.op = "submit_lead" => t.phone = NoRow)
      \/ /\ t.phone \in Phones
         /\ contact' = [contact EXCEPT ![t.c] = [life |-> "live", phone |-> t.phone]]
  BY DEF Commit, OnNewDeal, Creates, ContactsAfter, OnePhone
<1>6. \A c \in Contacts : Live(contact[c]) => Live(contact'[c])
  BY <1>5 DEF RecordsInv, TypeOK, Live
<1>7. Live(contact'[t.c]) \/ t.c \in loose'
  <2>1. CASE contact' = contact /\ (t.op = "submit_lead" => t.phone = NoRow)
    <3>1. Checked(t) => Live(contact[t.c])
      BY <2>1 DEF Checked, KnownTo, OnNewDeal, Creates
    <3>2. ~Checked(t) => t.c \in loose'
      BY <1>3, LooseGrows DEF OnNewDeal, Creates, OnCars
    <3> QED BY <2>1, <3>1, <3>2
  <2>2. CASE contact' = [contact EXCEPT ![t.c] = [life |-> "live", phone |-> t.phone]]
    BY <1>3, <2>2 DEF RecordsInv, TypeOK, Live
  <2> QED BY <1>5, <2>1, <2>2
<1>8. new \in DealRec
  BY <1>3 DEF DealRec, Lives, DealStatuses, OneCar
<1>9. deal'[t.d] = new /\ \A d \in Deals \ {t.d} : deal'[d] = deal[d]
  BY <1>1, <1>3 DEF RecordsInv, TypeOK
<1>10. new.life = "live" /\ new.contact = t.c /\ new.status = "open" /\ new.asked = t.new
  OBVIOUS
<1> HIDE DEF new
<1>11. TypeOK'
  <2>1. deal' \in [Deals -> DealRec]
    BY <1>1, <1>3, <1>8 DEF RecordsInv, TypeOK, DealRec
  <2>2. contact' \in [Contacts -> [life : Lives, phone : Phones \cup {NoRow}]]
    BY <1>3, <1>5 DEF RecordsInv, TypeOK, Lives
  <2> QED BY <1>1, <1>2, <2>1, <2>2 DEF RecordsInv, TypeOK, DealRec
<1>12. Filed'
  BY <1>1, <1>3, <1>9, <1>10 DEF RecordsInv, Filed
<1>13. CallsOK'
  BY <1>1, <1>4, <1>9, <1>10, CallsGoOn DEF OnNewDeal
<1>14. t.d \notin tidy
  BY <1>4 DEF RecordsInv, TidyOK
<1>15. tidy' = IF t.op = "submit_lead" /\ Checked(t) THEN tidy \cup {t.d} ELSE tidy
  BY DEF Commit, OnNewDeal, Creates
<1>16. TidyOK'
  BY <1>3, <1>9, <1>10, <1>14, <1>15 DEF RecordsInv, TidyOK
<1>17. BinHidesNothing'
  <2>1. ASSUME NEW d \in Deals, Live(deal'[d])
        PROVE  \/ Live(contact'[deal'[d].contact])
               \/ {d, deal'[d].contact} \cap loose' # {}
    BY <1>3, <1>6, <1>7, <1>9, <1>10, <2>1 DEF RecordsInv, BinHidesNothing, Filed, Live
  <2>2. ASSUME NEW p \in Papers, Live(paper[p])
        PROVE  LET d == paper[p].deal
               IN  \/ Live(deal'[d]) /\ Live(contact'[deal'[d].contact])
                   \/ {p, d, deal'[d].contact} \cap loose' # {}
    <3>1. paper[p].deal \in Deals \ {t.d} /\ deal[paper[p].deal].contact \in Contacts
      BY <2>2, <1>4 DEF RecordsInv, Filed, Live
    <3> QED BY <1>3, <1>6, <1>9, <2>2, <3>1 DEF RecordsInv, BinHidesNothing
  <2>3. ASSUME NEW g \in Guests, Live(guest[g]), Live(deal'[guest[g].deal])
        PROVE  \/ Live(contact'[guest[g].contact])
               \/ {g, guest[g].deal, guest[g].contact} \cap loose' # {}
    <3>1. guest[g].deal \in Deals \ {t.d} /\ guest[g].contact \in Contacts
      BY <2>3, <1>4 DEF RecordsInv, Filed, Live
    <3> QED BY <1>3, <1>6, <1>9, <2>3, <3>1 DEF RecordsInv, BinHidesNothing
  <2>4. \A o \in Orders : order[o].life = "archived" =>
           order[o].status \notin {"ordered", "received"} \/ o \in loose'
    BY <1>3 DEF RecordsInv, BinHidesNothing
  <2> QED BY <1>1, <2>1, <2>2, <2>3, <2>4 DEF BinHidesNothing, Live
<1>18. SoldCarsMarked'
  BY <1>2, <1>9, <1>10 DEF RecordsInv, SoldCarsMarked, CarOf
<1>19. OneOpenLead'
  <2>1. ASSUME NEW d \in tidy, Live(deal[d]), t.op = "submit_lead", Checked(t)
        PROVE  <<deal[d].contact, deal[d].asked>> # <<t.c, t.new>>
    <3>1. OpenDeals(t.c, t.new) = {}
      BY <2>1 DEF Checked
    <3> QED BY <2>1, <3>1 DEF RecordsInv, TidyOK, OpenDeals, LiveDealsOf
  <2>2. \A d \in tidy : deal'[d] = deal[d]
    BY <1>9, <1>14 DEF RecordsInv, TidyOK
  <2>3. \A d, e \in tidy : d # e /\ Live(deal'[d]) /\ Live(deal'[e]) =>
           <<deal'[d].contact, deal'[d].asked>> # <<deal'[e].contact, deal'[e].asked>>
    BY <2>2 DEF RecordsInv, OneOpenLead
  <2>4. ASSUME t.op = "submit_lead", Checked(t), NEW d \in tidy, Live(deal'[d])
        PROVE  <<deal'[d].contact, deal'[d].asked>>
                  # <<deal'[t.d].contact, deal'[t.d].asked>>
    BY <1>9, <1>10, <2>1, <2>2, <2>4
  <2> QED BY <1>15, <2>3, <2>4 DEF OneOpenLead, Live
<1> QED BY <1>11, <1>12, <1>13, <1>16, <1>17, <1>18, <1>19 DEF RecordsInv

\* Into the bin with a deal and back: a deal without live papers, and one whose
\* contact is live, or loose.
LEMMA CommitBin ==
    ASSUME RecordsInv, NEW s \in Sessions, Commit(s), OnBin(call[s])
    PROVE  RecordsInv'
<1> DEFINE t == call[s]
           life == IF t.op = "archive_deal" THEN "archived" ELSE "live"
<1>1. deal' = [deal EXCEPT ![t.d].life = life] /\ UNCHANGED <<contact, guest, order, paper>>
  BY DEF Commit, OnBin, ContactsAfter, DealsAfter, GuestsAfter, OrdersAfter
<1>2. UNCHANGED <<car, unmarked>>
  BY CarsStay DEF OnBin, OnCars
<1>3. t.d \in Deals /\ NoRow \notin Deals /\ loose \subseteq loose'
      /\ RestoredUnseen(t) \subseteq loose'
  BY RowsAssumption, LooseGrows DEF OnBin
<1>4. deal[t.d].life # "none" /\ life \in Lives /\ life # "none"
  BY DEF RecordsInv, CallsOK, Knows, OnBin, Lives
<1>5. Checked(t) \/ t.d \in loose'
  BY <1>3, LooseGrows DEF OnBin, OnCars
<1>6. \/ t.op = "archive_deal" /\ life = "archived"
      \/ t.op = "restore_deal" /\ life = "live"
  BY DEF OnBin
<1> HIDE DEF life
<1>7. /\ \A d \in Deals \ {t.d} : deal'[d] = deal[d]
      /\ \A d \in Deals : /\ deal'[d].contact = deal[d].contact
                          /\ deal'[d].asked = deal[d].asked
                          /\ deal'[d].closed = deal[d].closed
                          /\ deal'[d].status = deal[d].status
      /\ deal'[t.d].life = life
      /\ deal' \in [Deals -> DealRec]
  BY <1>1, <1>3, <1>4 DEF RecordsInv, TypeOK, DealRec
<1>8. TypeOK'
  BY <1>1, <1>2, <1>7 DEF RecordsInv, TypeOK, DealRec
<1>9. Filed'
  BY <1>1, <1>3, <1>4, <1>7 DEF RecordsInv, Filed
<1>10. CallsOK'
  BY <1>1, <1>4, <1>7, CallsGoOn
<1>11. tidy' \subseteq tidy /\ (t.op = "restore_deal" => t.d \notin tidy')
  BY <1>6 DEF Commit
<1>12. TidyOK'
  BY <1>4, <1>7, <1>11 DEF RecordsInv, TidyOK
<1>13. OneOpenLead'
  <2>1. \A d \in tidy' : Live(deal'[d]) => Live(deal[d])
    BY <1>6, <1>7, <1>11 DEF RecordsInv, TidyOK, Live
  <2> QED BY <1>7, <1>11, <2>1 DEF RecordsInv, TidyOK, OneOpenLead
<1>14. SoldCarsMarked'
  BY <1>2, <1>7 DEF RecordsInv, SoldCarsMarked, CarOf
<1>15. BinHidesNothing'
  <2>1. ASSUME NEW d \in Deals, Live(deal'[d])
        PROVE  \/ Live(contact[deal[d].contact])
               \/ {d, deal[d].contact} \cap loose' # {}
    <3>1. CASE d = t.d
      BY <3>1, <2>1, <1>5, <1>6, <1>7 DEF Live, Checked
    <3>2. CASE d # t.d
      BY <3>2, <2>1, <1>3, <1>7 DEF RecordsInv, BinHidesNothing
    <3> QED BY <3>1, <3>2
  <2>2. ASSUME NEW p \in Papers, Live(paper[p])
        PROVE  LET d == paper[p].deal
               IN  \/ Live(deal'[d]) /\ Live(contact[deal[d].contact])
                   \/ {p, d, deal[d].contact} \cap loose' # {}
    <3>1. paper[p].deal \in Deals
      BY <2>2 DEF RecordsInv, Filed, Live
    <3>2. CASE paper[p].deal = t.d /\ t.op = "archive_deal"
      BY <3>2, <2>2, <1>5 DEF Checked, DealUnblocked, PapersOf
    <3>3. CASE paper[p].deal = t.d /\ t.op = "restore_deal"
      BY <3>3, <1>5, <1>6, <1>7 DEF Checked, Live
    <3>4. CASE paper[p].deal # t.d
      BY <3>1, <3>4, <2>2, <1>3, <1>7 DEF RecordsInv, BinHidesNothing
    <3> QED BY <1>6, <3>2, <3>3, <3>4
  <2>3. ASSUME NEW g \in Guests, Live(guest[g]), Live(deal'[guest[g].deal])
        PROVE  \/ Live(contact[guest[g].contact])
               \/ {g, guest[g].deal, guest[g].contact} \cap loose' # {}
    <3>1. guest[g].deal \in Deals
      BY <2>3 DEF RecordsInv, Filed, Live
    <3>2. CASE guest[g].deal = t.d
      <4>1. t.op = "restore_deal"
        BY <3>2, <2>3, <1>6, <1>7 DEF Live
      <4> QED BY <3>2, <4>1, <1>3 DEF RestoredUnseen
    <3>3. CASE guest[g].deal # t.d
      BY <3>1, <3>3, <2>3, <1>3, <1>7 DEF RecordsInv, BinHidesNothing
    <3> QED BY <3>2, <3>3
  <2>4. \A o \in Orders : order[o].life = "archived" =>
           order[o].status \notin {"ordered", "received"} \/ o \in loose'
    BY <1>3 DEF RecordsInv, BinHidesNothing
  <2>5. \A p \in Papers : Live(paper[p]) => paper[p].deal \in Deals
    BY DEF RecordsInv, Filed, Live
  <2> QED BY <1>1, <1>7, <2>1, <2>2, <2>3, <2>4, <2>5 DEF BinHidesNothing, Live
<1> QED BY <1>8, <1>9, <1>10, <1>12, <1>13, <1>14, <1>15 DEF RecordsInv
\* What a call on a sale leaves of its deal: the status, or the cars it changed.
LEMMA SaleWrites ==
    ASSUME RecordsInv, NEW s \in Sessions, Commit(s), OnSale(call[s])
    PROVE  /\ deal' \in [Deals -> DealRec]
           /\ \A d \in Deals \ {call[s].d} : deal'[d] = deal[d]
           /\ \A d \in Deals :
                 deal'[d].life = deal[d].life /\ deal'[d].contact = deal[d].contact
           /\ call[s].op = "change_status" =>
                 /\ deal'[call[s].d].status = call[s].new
                 /\ deal'[call[s].d].asked = deal[call[s].d].asked
                 /\ deal'[call[s].d].closed = deal[call[s].d].closed
           /\ call[s].op = "set_vehicles" =>
                 /\ deal'[call[s].d].status = deal[call[s].d].status
                 /\ deal'[call[s].d].asked = Column(call[s], "asked")
                 /\ deal'[call[s].d].closed = Column(call[s], "closed")
<1> DEFINE t == call[s]
<1>1. deal' = DealsAfter(t) /\ t.d \in Deals /\ t.seen \in DealRec
  BY DEF Commit, OnSale
<1>2. deal \in [Deals -> DealRec]
  BY DEF RecordsInv, TypeOK, DealRec
<1>3. CASE t.op = "change_status"
  <2>1. deal' = [deal EXCEPT ![t.d].status = t.new] /\ t.new \in DealStatuses
    BY <1>1, <1>3 DEF OnSale, DealsAfter
  <2> QED BY <1>1, <1>2, <1>3, <2>1 DEF DealRec
<1>4. CASE t.op = "set_vehicles"
  <2> DEFINE a == Column(t, "asked")
             b == Column(t, "closed")
  <2>1. a \in OneCar /\ b \in OneCar
    BY <1>1, <1>2, <1>4 DEF OnSale, Column, DealRec, OneCar
  <2>2. deal' = [deal EXCEPT ![t.d].asked = a, ![t.d].closed = b]
    BY <1>1, <1>4 DEF DealsAfter
  <2> HIDE DEF a, b
  <2>3. /\ deal' \in [Deals -> DealRec]
        /\ \A d \in Deals \ {t.d} : deal'[d] = deal[d]
        /\ \A d \in Deals : deal'[d].life = deal[d].life /\ deal'[d].contact = deal[d].contact
        /\ deal'[t.d].status = deal[t.d].status
        /\ deal'[t.d].asked = a /\ deal'[t.d].closed = b
    BY <1>1, <1>2, <2>1, <2>2 DEF DealRec, OneCar
  <2> QED BY <1>4, <2>3 DEF a, b
<1> QED BY <1>3, <1>4 DEF OnSale

\* The car a deal closed on is marked with the sale; a deal whose own calls
\* overlapped, or whose inquiry car moved after the sale, is unmarked.
LEMMA SaleMarked ==
    ASSUME RecordsInv, NEW s \in Sessions, Commit(s), OnSale(call[s])
    PROVE  SoldCarsMarked' /\ car' \in [Cars -> {"for_sale", "sold"}]
<1> DEFINE t == call[s]
           m == Marked(t)
           off == IF m = NoRow THEN {} ELSE {m, t.d}
           on == IF OnCars(t) /\ (~Checked(t) \/ MarksNothing(t)) THEN {t.d} ELSE {}
<1>1. car' = [k \in Cars |-> IF k = m THEN "sold" ELSE car[k]]
      /\ unmarked' = (unmarked \ off) \cup on
  BY DEF Commit
<1>2. t.d \in Deals /\ t.seen \in DealRec
      /\ NoRow \notin Cars /\ NoRow \notin Deals /\ Deals \cap Cars = {}
  BY RowsAssumption DEF OnSale
<1>3. m \in OneCar
  BY <1>2 DEF OnSale, Marked, CarOf, DealRec, OneCar
<1>4. ~Checked(t) \/ MarksNothing(t) => t.d \in unmarked'
  BY <1>1 DEF OnSale, OnCars
<1> HIDE DEF on
<1>5. unmarked \ off \subseteq unmarked' /\ off \subseteq {m, t.d}
  BY <1>1
<1> HIDE DEF off
<1>6. car \in [Cars -> {"for_sale", "sold"}]
  BY DEF RecordsInv, TypeOK
<1>7. car' \in [Cars -> {"for_sale", "sold"}] /\ (m # NoRow => car'[m] = "sold")
      /\ \A k \in Cars : car[k] = "sold" => car'[k] = "sold"
  BY <1>1, <1>3, <1>6 DEF OneCar
<1>8. ASSUME NEW d \in Deals \ {t.d}, deal'[d].status = "sold", CarOf(deal'[d]) # NoRow
      PROVE  car'[CarOf(deal'[d])] = "sold" \/ {d, CarOf(deal'[d])} \cap unmarked' # {}
  <2> DEFINE k == CarOf(deal[d])
  <2>1. deal'[d] = deal[d] /\ deal[d] \in DealRec
    BY SaleWrites DEF RecordsInv, TypeOK, DealRec
  <2>2. k \in Cars
    BY <1>8, <2>1 DEF CarOf, DealRec
  <2>3. car[k] = "sold" \/ {d, k} \cap unmarked # {}
    BY <1>8, <2>1 DEF RecordsInv, SoldCarsMarked
  <2> HIDE DEF k
  <2>4. CASE k = m
    BY <2>2, <2>4, <1>2, <1>7, <2>1 DEF k
  <2>5. CASE k # m
    <3>1. {d, k} \cap off = {}
      BY <1>2, <1>3, <1>5, <2>2, <2>5 DEF OneCar
    <3>2. car'[k] = "sold" \/ {d, k} \cap unmarked' # {}
      BY <1>5, <1>7, <2>2, <2>3, <3>1
    <3> QED BY <2>1, <3>2 DEF k
  <2> QED BY <2>4, <2>5
<1>9. ASSUME deal'[t.d].status = "sold", CarOf(deal'[t.d]) # NoRow, t.d \notin unmarked'
      PROVE  car'[CarOf(deal'[t.d])] = "sold"
             \/ {t.d, CarOf(deal'[t.d])} \cap unmarked' # {}
  <2> DEFINE k == CarOf(deal'[t.d])
  <2>1. Checked(t) /\ ~MarksNothing(t)
    BY <1>4, <1>9
  <2>2. deal[t.d] = t.seen
    BY <2>1 DEF Checked, OnSale
  <2>3. CASE t.op = "change_status"
    <3>1. t.new = "sold" /\ k = CarOf(t.seen)
      BY <1>9, <2>2, <2>3, SaleWrites DEF CarOf
    <3>2. m = k
      BY <2>3, <3>1 DEF Marked
    <3> QED BY <1>7, <1>9, <3>2
  <2>4. CASE t.op = "set_vehicles" /\ t.new.closed # t.seen.closed
    <3>1. /\ t.seen.status = "sold"
          /\ deal'[t.d].closed = t.new.closed /\ deal'[t.d].asked = t.new.asked
      BY <1>9, <2>2, <2>4, SaleWrites DEF Column
    <3>2. k = CarOf(t.new) /\ m = CarOf(t.new)
      BY <2>4, <3>1 DEF CarOf, Marked
    <3> QED BY <1>7, <1>9, <3>2
  <2>5. CASE t.op = "set_vehicles" /\ t.new.closed = t.seen.closed
    <3>1. /\ t.seen.status = "sold" /\ deal'[t.d].closed = t.seen.closed
      BY <1>9, <2>2, <2>5, SaleWrites DEF Column
    <3>2. t.seen.closed # NoRow
      BY <2>1, <2>5, <3>1 DEF MarksNothing
    <3>3. k = t.seen.closed /\ k = CarOf(deal[t.d]) /\ k \in Cars
      BY <1>2, <2>2, <3>1, <3>2 DEF CarOf, DealRec
    <3>4. car[k] = "sold" \/ {t.d, k} \cap unmarked # {}
      BY <1>2, <2>2, <3>1, <3>2, <3>3 DEF RecordsInv, SoldCarsMarked
    <3>5. m = NoRow
      BY <2>5 DEF Marked
    <3>6. unmarked \subseteq unmarked'
      BY <1>1, <3>5 DEF off
    <3> QED BY <1>7, <3>3, <3>4, <3>6
  <2> QED BY <2>3, <2>4, <2>5 DEF OnSale
<1>10. SoldCarsMarked'
  BY <1>8, <1>9 DEF SoldCarsMarked
<1> QED BY <1>7, <1>10

\* A change of a sale commits: the order and its car are written together.
LEMMA CommitSale ==
    ASSUME RecordsInv, NEW s \in Sessions, Commit(s), OnSale(call[s])
    PROVE  RecordsInv'
<1> DEFINE t == call[s]
<1>1. UNCHANGED <<contact, guest, order, paper>>
  BY DEF Commit, OnSale, ContactsAfter, GuestsAfter, OrdersAfter
<1>2. t.d \in Deals /\ loose \subseteq loose' /\ tidy' = tidy \ {t.d}
  BY LooseGrows DEF Commit, OnSale
<1>3. /\ deal' \in [Deals -> DealRec]
      /\ \A d \in Deals \ {t.d} : deal'[d] = deal[d]
      /\ \A d \in Deals : deal'[d].life = deal[d].life /\ deal'[d].contact = deal[d].contact
  BY SaleWrites
<1>4. SoldCarsMarked' /\ TypeOK'
  BY <1>1, <1>3, SaleMarked DEF RecordsInv, TypeOK, DealRec
<1>5. Filed' /\ TidyOK'
  BY <1>1, <1>2, <1>3 DEF RecordsInv, Filed, TidyOK
<1>6. CallsOK'
  BY <1>1, <1>3, CallsGoOn
<1>7. OneOpenLead'
  BY <1>2, <1>3 DEF RecordsInv, TidyOK, OneOpenLead, Live
<1>8. BinHidesNothing'
  BY <1>1, <1>2, <1>3 DEF RecordsInv, BinHidesNothing, Filed, Live
<1> QED BY <1>4, <1>5, <1>6, <1>7, <1>8 DEF RecordsInv
\* Guests join, leave and come back.
LEMMA CommitGuest ==
    ASSUME RecordsInv, NEW s \in Sessions, Commit(s), OnGuest(call[s])
    PROVE  RecordsInv'
<1> DEFINE t == call[s]
<1>1. UNCHANGED <<deal, order, paper, car, unmarked, tidy>>
  BY CarsStay DEF Commit, OnGuest, DealsAfter, OrdersAfter, OnCars
<1>2. t.r \in Guests /\ loose \subseteq loose' /\ RestoredUnseen(t) \subseteq loose'
      /\ NoRow \notin Contacts /\ NoRow \notin Guests
  BY RowsAssumption, LooseGrows DEF OnGuest
<1>3. SoldCarsMarked' /\ OneOpenLead' /\ TidyOK'
  BY <1>1, SalesStand DEF RecordsInv, OneOpenLead, TidyOK, Live
<1>4. \A o \in Orders : order[o].life = "archived" =>
         order[o].status \notin {"ordered", "received"} \/ o \in loose'
  BY <1>2 DEF RecordsInv, BinHidesNothing
<1>5. ASSUME \A c \in Contacts : Live(contact[c]) => Live(contact'[c]),
             TypeOK', Filed',
             \A g \in Guests \ {t.r} : guest'[g] = guest[g],
             Live(guest'[t.r]) /\ Live(deal[guest'[t.r].deal]) =>
                \/ Live(contact'[guest'[t.r].contact])
                \/ {t.r, guest'[t.r].deal, guest'[t.r].contact} \cap loose' # {}
      PROVE  RecordsInv'
  <2>1. \A d \in Deals : Live(deal[d]) =>
           Live(contact'[deal[d].contact]) \/ {d, deal[d].contact} \cap loose' # {}
    BY <1>2, <1>5 DEF RecordsInv, BinHidesNothing, Filed, Live
  <2>2. \A p \in Papers : Live(paper[p]) =>
           LET d == paper[p].deal
           IN  \/ Live(deal[d]) /\ Live(contact'[deal[d].contact])
               \/ {p, d, deal[d].contact} \cap loose' # {}
    BY <1>2, <1>5 DEF RecordsInv, BinHidesNothing, Filed, Live
  <2>3. ASSUME NEW g \in Guests \ {t.r}, Live(guest[g]), Live(deal[guest[g].deal])
        PROVE  \/ Live(contact'[guest[g].contact])
               \/ {g, guest[g].deal, guest[g].contact} \cap loose' # {}
    BY <1>2, <1>5, <2>3 DEF RecordsInv, BinHidesNothing, Filed, Live
  <2>4. BinHidesNothing'
    BY <1>1, <1>4, <1>5, <2>1, <2>2, <2>3 DEF BinHidesNothing, Live
  <2>5. \A g \in Guests : guest[g].life # "none" => guest'[g].life # "none"
    <3>1. guest'[t.r].life # "none"
      BY <1>1, <1>2 DEF Commit, OnGuest, GuestsAfter, RecordsInv, TypeOK, CallsOK, Knows
    <3> QED BY <1>5, <3>1
  <2>6. CallsOK'
    BY <1>1, <2>5, CallsGoOn
  <2> QED BY <1>3, <1>5, <2>4, <2>6 DEF RecordsInv
<1>6. CASE t.op = "add_guest"
  <2> DEFINE new == [life |-> "live", deal |-> t.d, contact |-> t.c]
  <2>1. guest' = [guest EXCEPT ![t.r] = new] /\ t.d \in Deals /\ t.c \in Contacts
    BY <1>6 DEF Commit, OnGuest, GuestsAfter
  <2>2. guest'[t.r] = new /\ \A g \in Guests \ {t.r} : guest'[g] = guest[g]
    BY <1>2, <2>1 DEF RecordsInv, TypeOK
  <2>3. \/ contact' = contact /\ t.phone = NoRow
        \/ /\ t.phone \in Phones
           /\ contact' = [contact EXCEPT ![t.c] = [life |-> "live", phone |-> t.phone]]
    BY <1>6 DEF Commit, OnGuest, ContactsAfter, OnePhone
  <2>4. \A c \in Contacts : Live(contact[c]) => Live(contact'[c])
    BY <2>3 DEF RecordsInv, TypeOK, Live
  <2>5. contact' \in [Contacts -> [life : Lives, phone : Phones \cup {NoRow}]]
    BY <2>1, <2>3 DEF RecordsInv, TypeOK, Lives
  <2>6. new \in [life : Lives, deal : Deals \cup {NoRow}, contact : Contacts \cup {NoRow}]
    BY <2>1 DEF Lives
  <2>7. TypeOK'
    BY <1>1, <1>2, <2>1, <2>5, <2>6 DEF RecordsInv, TypeOK
  <2>8. deal[t.d].life # "none"
    BY <1>6 DEF RecordsInv, CallsOK, Knows
  <2>9. Filed'
    BY <1>1, <1>2, <2>1, <2>2, <2>8 DEF RecordsInv, Filed
  <2>10. Live(contact'[t.c]) \/ t.c \in loose'
    <3>1. CASE contact' = contact /\ t.phone = NoRow
      <4>1. Checked(t) => Live(contact[t.c])
        BY <1>6, <3>1 DEF Checked, KnownTo
      <4>2. ~Checked(t) => t.c \in loose'
        BY <1>2, <1>6, <2>1, LooseGrows DEF OnCars
      <4> QED BY <3>1, <4>1, <4>2
    <3>2. CASE contact' = [contact EXCEPT ![t.c] = [life |-> "live", phone |-> t.phone]]
      BY <2>1, <3>2 DEF RecordsInv, TypeOK, Live
    <3> QED BY <2>3, <3>1, <3>2
  <2> QED BY <1>5, <2>2, <2>4, <2>7, <2>9, <2>10
<1>7. CASE t.op \in {"archive_guest", "restore_guest"}
  <2> DEFINE life == IF t.op = "archive_guest" THEN "archived" ELSE "live"
  <2>1. guest' = [guest EXCEPT ![t.r].life = life] /\ contact' = contact
    BY <1>7 DEF Commit, GuestsAfter, ContactsAfter
  <2>2. life \in Lives /\ life # "none" /\ (life = "live" => t.op = "restore_guest")
    BY <1>7 DEF Lives
  <2> HIDE DEF life
  <2>3. /\ guest'[t.r].life = life
        /\ guest'[t.r].deal = guest[t.r].deal /\ guest'[t.r].contact = guest[t.r].contact
        /\ \A g \in Guests \ {t.r} : guest'[g] = guest[g]
    BY <1>2, <2>1 DEF RecordsInv, TypeOK
  <2>4. TypeOK'
    BY <1>1, <1>2, <2>1, <2>2 DEF RecordsInv, TypeOK
  <2>5. guest[t.r].life # "none"
    BY <1>7 DEF RecordsInv, CallsOK, Knows
  <2>6. Filed'
    BY <1>1, <1>2, <2>3, <2>5 DEF RecordsInv, Filed
  <2>7. Live(guest'[t.r]) => Live(contact[guest[t.r].contact]) \/ t.r \in loose'
    BY <1>2, <2>2, <2>3 DEF Live, RestoredUnseen
  <2> QED BY <1>5, <2>1, <2>3, <2>4, <2>6, <2>7
<1> QED BY <1>6, <1>7 DEF OnGuest

\* Special orders: one goes to the bin unless it is under way, and is not put
\* under way from there.
LEMMA CommitOrder ==
    ASSUME RecordsInv, NEW s \in Sessions, Commit(s), OnOrder(call[s])
    PROVE  RecordsInv'
<1> DEFINE t == call[s]
<1>1. UNCHANGED <<contact, deal, guest, paper, car, unmarked, tidy>>
  BY CarsStay DEF Commit, OnOrder, ContactsAfter, DealsAfter, GuestsAfter, OnCars
<1>2. t.r \in Orders /\ loose \subseteq loose' /\ NoRow \notin Orders
  BY RowsAssumption, LooseGrows DEF OnOrder
<1>3. SoldCarsMarked' /\ OneOpenLead' /\ TidyOK' /\ Filed'
  BY <1>1, SalesStand DEF RecordsInv, OneOpenLead, TidyOK, Filed, Live
<1>4. CallsOK'
  BY <1>1, CallsGoOn
<1>5. order' = OrdersAfter(t)
  BY DEF Commit
<1>6. Checked(t) \/ t.r \in loose'
  BY <1>2, LooseGrows DEF OnOrder, OnCars
<1>7. order \in [Orders -> [life : Lives, deal : Deals \cup {NoRow}, status : OrderStatuses]]
  BY DEF RecordsInv, TypeOK
<1>8. /\ order' \in [Orders -> [life : Lives, deal : Deals \cup {NoRow},
                                status : OrderStatuses]]
      /\ \A o \in Orders \ {t.r} : order'[o] = order[o]
      /\ order'[t.r].life = "archived" =>
            order'[t.r].status \notin {"ordered", "received"} \/ t.r \in loose'
  <2>1. CASE t.op = "create_order"
    BY <1>2, <1>5, <1>7, <2>1 DEF OnOrder, OrdersAfter, Lives
  <2>2. CASE t.op = "mark_order"
    <3>1. order' = [order EXCEPT ![t.r].status = t.new] /\ t.new \in OrderStatuses
      BY <1>5, <2>2 DEF OnOrder, OrdersAfter
    <3>2. order[t.r].life = "live" \/ t.r \in loose'
      BY <1>6, <2>2 DEF Checked, Live
    <3> QED BY <1>2, <1>7, <3>1, <3>2
  <2>3. CASE t.op = "archive_order"
    <3>1. order' = [order EXCEPT ![t.r].life = "archived"]
      BY <1>5, <2>3 DEF OrdersAfter
    <3>2. order[t.r].status \notin {"ordered", "received"} \/ t.r \in loose'
      BY <1>6, <2>3 DEF Checked, OrderUnblocked
    <3> QED BY <1>2, <1>7, <3>1, <3>2 DEF Lives
  <2>4. CASE t.op = "restore_order"
    BY <1>2, <1>5, <1>7, <2>4 DEF OrdersAfter, Lives
  <2> QED BY <2>1, <2>2, <2>3, <2>4 DEF OnOrder
<1>9. TypeOK'
  BY <1>1, <1>8 DEF RecordsInv, TypeOK
<1>10. BinHidesNothing'
  <2>1. \A o \in Orders : order'[o].life = "archived" =>
           order'[o].status \notin {"ordered", "received"} \/ o \in loose'
    BY <1>2, <1>8 DEF RecordsInv, BinHidesNothing
  <2>2. \A d \in Deals : Live(deal[d]) =>
           Live(contact[deal[d].contact]) \/ {d, deal[d].contact} \cap loose' # {}
    BY <1>2 DEF RecordsInv, BinHidesNothing
  <2>3. \A p \in Papers : Live(paper[p]) =>
           LET d == paper[p].deal
           IN  \/ Live(deal[d]) /\ Live(contact[deal[d].contact])
               \/ {p, d, deal[d].contact} \cap loose' # {}
    BY <1>2 DEF RecordsInv, BinHidesNothing
  <2>4. \A g \in Guests : Live(guest[g]) /\ Live(deal[guest[g].deal]) =>
           \/ Live(contact[guest[g].contact])
           \/ {g, guest[g].deal, guest[g].contact} \cap loose' # {}
    BY <1>2 DEF RecordsInv, BinHidesNothing
  <2> QED BY <1>1, <2>1, <2>2, <2>3, <2>4 DEF BinHidesNothing, Live
<1> QED BY <1>3, <1>4, <1>9, <1>10 DEF RecordsInv
\* Quotes and invoices are made on any deal that exists; what is made on a deal
\* or for a contact in the bin is loose.
LEMMA OnPapers ==
    ASSUME RecordsInv, NEW p \in Papers,
           DeletePaper(p) \/ \E d \in Deals : CreatePaper(p, d)
    PROVE  RecordsInv'
<1>1. UNCHANGED <<contact, deal, car, guest, order, call, unmarked, tidy>>
  BY DEF DeletePaper, CreatePaper
<1>2. loose \subseteq loose'
  BY DEF DeletePaper, CreatePaper
<1>3. paper \in [Papers -> [life : Lives, deal : Deals \cup {NoRow}]]
  BY DEF RecordsInv, TypeOK
<1> DEFINE Good ==
      /\ paper' \in [Papers -> [life : Lives, deal : Deals \cup {NoRow}]]
      /\ \A q \in Papers \ {p} : paper'[q] = paper[q]
      /\ paper'[p].life # "none" =>
            paper'[p].deal \in Deals /\ deal[paper'[p].deal].life # "none"
      /\ Live(paper'[p]) =>
            LET d == paper'[p].deal
            IN  \/ Live(deal[d]) /\ Live(contact[deal[d].contact])
                \/ p \in loose'
<1>4. Good
  <2>1. CASE DeletePaper(p)
    <3>1. paper' = [paper EXCEPT ![p].life = "archived"] /\ paper[p].life = "live"
      BY <2>1 DEF DeletePaper, Live
    <3> QED BY <1>3, <3>1 DEF RecordsInv, Filed, Lives, Live
  <2>2. ASSUME NEW d \in Deals, CreatePaper(p, d)
        PROVE  Good
    <3>1. paper' = [paper EXCEPT ![p] = [life |-> "live", deal |-> d]]
          /\ deal[d].life # "none"
      BY <2>2 DEF CreatePaper
    <3>2. \/ Live(deal[d]) /\ Live(contact[deal[d].contact])
          \/ p \in loose'
      BY <2>2 DEF CreatePaper
    <3> QED BY <1>3, <3>1, <3>2 DEF Lives
  <2> QED BY <2>1, <2>2
<1>5. TypeOK' /\ Filed'
  BY <1>1, <1>4 DEF RecordsInv, TypeOK, Filed
<1>6. CallsOK'
  BY <1>1 DEF RecordsInv, CallsOK
<1>7. SoldCarsMarked' /\ OneOpenLead' /\ TidyOK'
  BY <1>1, SalesStand DEF RecordsInv, OneOpenLead, TidyOK, Live
<1>8. BinHidesNothing'
  <2>1. \A q \in Papers : Live(paper'[q]) =>
           LET d == paper'[q].deal
           IN  \/ Live(deal[d]) /\ Live(contact[deal[d].contact])
               \/ {q, d, deal[d].contact} \cap loose' # {}
    BY <1>2, <1>4 DEF RecordsInv, BinHidesNothing
  <2>2. \A d \in Deals : Live(deal[d]) =>
           Live(contact[deal[d].contact]) \/ {d, deal[d].contact} \cap loose' # {}
    BY <1>2 DEF RecordsInv, BinHidesNothing
  <2>3. \A g \in Guests : Live(guest[g]) /\ Live(deal[guest[g].deal]) =>
           \/ Live(contact[guest[g].contact])
           \/ {g, guest[g].deal, guest[g].contact} \cap loose' # {}
    BY <1>2 DEF RecordsInv, BinHidesNothing
  <2>4. \A o \in Orders : order[o].life = "archived" =>
           order[o].status \notin {"ordered", "received"} \/ o \in loose'
    BY <1>2 DEF RecordsInv, BinHidesNothing
  <2> QED BY <1>1, <2>1, <2>2, <2>3, <2>4 DEF BinHidesNothing, Live
<1> QED BY <1>5, <1>6, <1>7, <1>8 DEF RecordsInv

\* Staff set the status of a car by hand: put back on sale, it is unmarked.
LEMMA OnCar ==
    ASSUME RecordsInv, NEW k \in Cars, NEW status \in {"for_sale", "sold"},
           SetCarStatus(k, status)
    PROVE  RecordsInv'
<1>1. UNCHANGED <<contact, deal, paper, guest, order, call, loose, tidy>>
      /\ car' = [car EXCEPT ![k] = status]
      /\ unmarked' = IF status = "for_sale" THEN unmarked \cup {k} ELSE unmarked \ {k}
  BY DEF SetCarStatus
<1>2. TypeOK' /\ Filed' /\ TidyOK' /\ CallsOK'
  BY <1>1 DEF RecordsInv, TypeOK, Filed, TidyOK, CallsOK
<1>3. BinHidesNothing' /\ OneOpenLead'
  BY <1>1 DEF RecordsInv, BinHidesNothing, OneOpenLead, Live
<1>4. ASSUME NEW d \in Deals, deal[d].status = "sold", CarOf(deal[d]) # NoRow
      PROVE  car'[CarOf(deal[d])] = "sold" \/ {d, CarOf(deal[d])} \cap unmarked' # {}
  <2> DEFINE m == CarOf(deal[d])
  <2>1. m \in Cars /\ d # k
    BY <1>4, RowsAssumption DEF RecordsInv, TypeOK, CarOf
  <2>2. car[m] = "sold" \/ {d, m} \cap unmarked # {}
    BY <1>4 DEF RecordsInv, SoldCarsMarked
  <2> HIDE DEF m
  <2>3. car'[m] = "sold" \/ {d, m} \cap unmarked' # {}
    BY <1>1, <2>1, <2>2 DEF RecordsInv, TypeOK
  <2> QED BY <2>3 DEF m
<1>5. SoldCarsMarked'
  BY <1>1, <1>4 DEF SoldCarsMarked
<1> QED BY <1>2, <1>3, <1>5 DEF RecordsInv

-----------------------------------------------------------------------------
(***************************************************************************)
(* The theorems                                                            *)
(***************************************************************************)
\* An empty database.
LEMMA RecordsBegin == Init => RecordsInv
<1> SUFFICES ASSUME Init PROVE RecordsInv
  OBVIOUS
<1>1. TypeOK
  BY DEF Init, TypeOK, Lives, DealStatuses, OrderStatuses
<1>2. CallsOK
  <2>1. CallOK(Idle) /\ Knows(Idle, deal, guest) /\ ~Creates(Idle)
    BY DEF CallOK, Knows, Idle, Creates
  <2> QED BY <2>1 DEF Init, CallsOK
<1>3. Filed /\ TidyOK /\ OneOpenLead
  BY DEF Init, Filed, TidyOK, OneOpenLead
<1>4. BinHidesNothing /\ SoldCarsMarked
  BY DEF Init, BinHidesNothing, SoldCarsMarked, Live
<1> QED BY <1>1, <1>2, <1>3, <1>4 DEF RecordsInv

\* Every step keeps the invariant, action by action.
LEMMA RecordsStep == RecordsInv /\ [Next]_vars => RecordsInv'
<1> SUFFICES ASSUME RecordsInv, [Next]_vars PROVE RecordsInv'
  OBVIOUS
<1>1. ASSUME NEW s \in Sessions, BeginCall(s) PROVE RecordsInv'
  BY <1>1, BeginContact, BeginDeal, BeginGuest, BeginOrder DEF BeginCall
<1>2. ASSUME NEW s \in Sessions, Commit(s) PROVE RecordsInv'
  <2>1. CallOK(call[s]) /\ call[s] # Idle
    BY <1>2 DEF RecordsInv, CallsOK, Commit
  <2> QED BY <1>2, <2>1, CommitContact, CommitNewDeal, CommitBin, CommitSale, CommitGuest,
             CommitOrder DEF CallOK
<1>3. ASSUME NEW s \in Sessions, Rollback(s) PROVE RecordsInv'
  <2>1. call' = [call EXCEPT ![s] = Idle]
        /\ UNCHANGED <<contact, deal, car, paper, guest, order, loose, unmarked, tidy>>
    BY <1>3 DEF Rollback, rows
  <2>2. CallOK(Idle) /\ Knows(Idle, deal, guest) /\ ~Creates(Idle)
    BY DEF CallOK, Knows, Idle, Creates
  <2>3. call'[s] = Idle /\ \A u \in Sessions \ {s} : call'[u] = call[u]
    BY <2>1 DEF RecordsInv, CallsOK
  <2>4. call' = [u \in Sessions |-> call'[u]]
    BY <2>1 DEF RecordsInv, CallsOK
  <2>5. CallsOK'
    BY <2>1, <2>2, <2>3, <2>4 DEF RecordsInv, CallsOK
  <2>6. TypeOK' /\ Filed' /\ TidyOK'
    BY <2>1 DEF RecordsInv, TypeOK, Filed, TidyOK
  <2>7. BinHidesNothing' /\ SoldCarsMarked' /\ OneOpenLead'
    BY <2>1 DEF RecordsInv, BinHidesNothing, SoldCarsMarked, OneOpenLead, Live, CarOf
  <2> QED BY <2>5, <2>6, <2>7 DEF RecordsInv
<1>4. CASE UNCHANGED vars
  <2>1. UNCHANGED <<contact, deal, car, paper, guest, order, call, loose, unmarked, tidy>>
    BY <1>4 DEF vars
  <2>2. TypeOK' /\ Filed' /\ TidyOK' /\ CallsOK'
    BY <2>1 DEF RecordsInv, TypeOK, Filed, TidyOK, CallsOK
  <2>3. BinHidesNothing' /\ SoldCarsMarked' /\ OneOpenLead'
    BY <2>1 DEF RecordsInv, BinHidesNothing, SoldCarsMarked, OneOpenLead, Live, CarOf
  <2> QED BY <2>2, <2>3 DEF RecordsInv
<1> QED BY <1>1, <1>2, <1>3, <1>4, OnPapers, OnCar DEF Next

\* In every reachable state every request in flight has filed rows in hand, and
\* the promises about them hold.
THEOREM RecordsInvariant == Spec => []RecordsInv
<1> QED BY RecordsBegin, RecordsStep, PTL DEF Spec

\* The contact of a live deal, paper or guest is live and no special order under
\* way is in the bin, for any rows, through any overlap of the requests of
\* record_dependencies and of the archive and restore calls: the exceptions are
\* the rows of a request whose check had been overtaken or was never made.
THEOREM BinHidesNothingHolds == Spec => []BinHidesNothing
<1>1. RecordsInv => BinHidesNothing
  BY DEF RecordsInv
<1> QED BY <1>1, RecordsInvariant, PTL

\* A sold deal marks its car and the public form keeps one open deal per contact
\* and car, whatever the desk does meanwhile (event_service, public_lead_service).
THEOREM BoardTrueHolds == Spec => []BoardTrue
<1>1. RecordsInv => BoardTrue
  BY DEF RecordsInv, BoardTrue
<1> QED BY <1>1, RecordsInvariant, PTL
=============================================================================
