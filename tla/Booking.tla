------------------------------- MODULE Booking --------------------------------
(***************************************************************************)
(* Appointments: the public widget and the links it hands out              *)
(* (booking/routers/booking.py, booking_service.py, booking_tokens.py),    *)
(* the bookings, edits and arrivals of staff (admin_booking.py,            *)
(* staff_appointments.py, sales_appointments.py, sales_assignment.py) and  *)
(* the lead on the pipeline board (event_service.py).                      *)
(*                                                                         *)
(* Every request is a transaction at READ COMMITTED that reads without a   *)
(* lock, checks, and writes the columns it assigned at COMMIT.  Some go on *)
(* after it: a new booking is promoted to a lead, a cancellation is        *)
(* mirrored onto the board, each in a transaction of its own whose failure *)
(* is logged and forgotten.                                                *)
(*                                                                         *)
(* A slot is a set of units of time, all in the future; two slots overlap  *)
(* when they share a unit.                                                 *)
(***************************************************************************)
EXTENDS Naturals, FiniteSets

CONSTANTS
    Sessions,     \* requests in flight
    Submissions,  \* event_ids the widget makes, one per filled form
    MaxId,        \* bound: ids the appointments table may give out
    Grid,         \* slots of the published availability rules
    StaffSlots,   \* slots staff may book, on the grid or off it
    Capacity,     \* of every rule
    Reps,
    Leads,        \* ids the events table may give out
    MaxStaff,     \* bound: requests staff make
    Nobody, NoForm, NoLead

ASSUME BookingAssumption == {MaxId, Capacity, MaxStaff} \subseteq Nat

Appointments == 1..MaxId

VARIABLES
    appt,   \* the appointments table
    board,  \* events.status of each lead, "unborn" before there is one
    call,   \* the request of each session
    stale,  \* auxiliary: sessions whose checks another COMMIT has overtaken
    asked   \* how many requests staff have made, for the bound

vars == <<appt, board, call, stale, asked>>

\* "pending" behaves as "confirmed", and "no_show" as an "attended" staff patched
\* in: both are left out.
Live == {"confirmed"}
Over == {"attended", "cancelled", "rescheduled"}

\* cancelledAt: cancelled_at is set.  revoked: tokens_invalidated_at is set.
\* Auxiliary: root is the first of the chain of rescheduled_from_id; loose, the
\* row does not owe its place to a check that still held at COMMIT, or staff put
\* it back; moved, its rep came without evaluate_staff_slot.
NoRow == [slot |-> {}, status |-> "none", rep |-> Nobody, lead |-> NoLead,
          form |-> NoForm, cancelledAt |-> FALSE, revoked |-> FALSE,
          root |-> 0, loose |-> FALSE, moved |-> FALSE]

Idle == [op |-> "idle", at |-> "idle"]

Init ==
    /\ appt = [a \in Appointments |-> NoRow]
    /\ board = [l \in Leads |-> "unborn"]
    /\ call = [s \in Sessions |-> Idle]
    /\ stale = {}
    /\ asked = 0

-----------------------------------------------------------------------------
(***************************************************************************)
(* What the checks read                                                    *)
(***************************************************************************)
Exists(a) == appt[a].status # "none"
Standing(slot) == {a \in Appointments : /\ appt[a].status \in Live
                                        /\ appt[a].slot \cap slot # {}}

\* slot_is_bookable: every live appointment that overlaps counts, whoever made
\* it and however long it is.  The faulty form counts one too few.
BookableOnce(slot) == slot \in Grid /\ Cardinality(Standing(slot)) <= Capacity
Bookable(slot) == slot \in Grid /\ Cardinality(Standing(slot)) < Capacity

\* evaluate_staff_slot: of the hard conflicts, a rep who is taken.  Capacity and
\* published hours only warn.
RepFree(rep, slot) == rep = Nobody \/ \A a \in Standing(slot) : appt[a].rep # rep

\* verify_token and ensure_not_revoked: a link minted before the row's links were
\* revoked is dead.  The faulty form never compares the two times.
AnyLink(a, link) == TRUE
LinkLives(a, link) == ~appt[a].revoked \/ link = "fresh"

-----------------------------------------------------------------------------
(***************************************************************************)
(* Steps of a request                                                      *)
(***************************************************************************)
Step(s, op, at) == call[s].op = op /\ call[s].at = at

\* c is a request that has made its checks and is about to commit.
Begin(s, c) ==
    /\ call[s] = Idle
    /\ call' = [call EXCEPT ![s] = c]
    /\ UNCHANGED <<appt, board, stale, asked>>

BeginStaff(s, c) ==
    /\ call[s] = Idle
    /\ asked < MaxStaff
    /\ asked' = asked + 1
    /\ call' = [call EXCEPT ![s] = c]
    /\ UNCHANGED <<appt, board, stale>>

\* What session t relied on is overtaken when its row changes, or a row in its slot.
Overtaken(t) ==
    /\ call[t].at = "commit"
    /\ \E b \in Appointments :
           /\ appt'[b] # appt[b]
           /\ b = call[t].row \/ appt'[b].slot \cap call[t].slot # {}

Commit(s, next) ==
    /\ call' = [call EXCEPT ![s] = next]
    /\ stale' = (stale \ {s}) \cup {t \in Sessions \ {s} : Overtaken(t)}

\* The session ends without a write: the answer is an error, the server dies, or
\* a follow-up fails and is only logged.
GiveUp(s) ==
    /\ call[s] # Idle
    /\ call' = [call EXCEPT ![s] = Idle]
    /\ stale' = stale \ {s}
    /\ UNCHANGED <<appt, board, asked>>

\* was: the columns of the row, as loaded, that the request goes by.
Loaded(a) == [status |-> appt[a].status, rep |-> appt[a].rep, lead |-> appt[a].lead,
              cancelledAt |-> appt[a].cancelledAt]
Request(op, a, slot, arg) ==
    [op |-> op, at |-> "commit", row |-> a, slot |-> slot, arg |-> arg, was |-> Loaded(a)]

\* A request that will insert a row: its id is drawn at the INSERT.
Filing(op, slot, arg) ==
    [op |-> op, at |-> "commit", row |-> 0, slot |-> slot, arg |-> arg]
Free(a) == ~Exists(a) /\ \A b \in Appointments : b < a => Exists(b)

-----------------------------------------------------------------------------
(***************************************************************************)
(* The widget: create_appointment                                          *)
(***************************************************************************)
\* The lookup by event_id found nothing; found, the answer is that appointment
\* and nothing changes.
Submit(s) ==
    \E f \in Submissions, slot \in Grid :
        /\ \A b \in Appointments : appt[b].form # f
        /\ Begin(s, [Filing("create", slot, f) EXCEPT !.at = "check"])

CheckSlot(s) ==
    /\ Step(s, "create", "check")
    /\ Bookable(call[s].slot)
    /\ call' = [call EXCEPT ![s].at = "commit"]
    /\ UNCHANGED <<appt, board, stale, asked>>

\* UNIQUE (event_id).
Unique(f) == \A b \in Appointments : appt[b].form # f

CommitCreate(s) ==
    /\ Step(s, "create", "commit")
    /\ Unique(call[s].arg)
    /\ \E a \in Appointments :
       LET c == call[s] IN
       /\ Free(a)
       /\ appt' = [appt EXCEPT ![a] =
              [NoRow EXCEPT !.slot = c.slot, !.status = "confirmed", !.form = c.arg,
                            !.root = a, !.loose = s \in stale]]
       /\ Commit(s, [op |-> "create", at |-> "promote", row |-> a])
    /\ UNCHANGED <<board, asked>>

\* promote_appointment_to_event, in a second transaction.
Promote(s) ==
    /\ Step(s, "create", "promote")
    /\ appt[call[s].row].lead = NoLead
    /\ \E l \in Leads :
           /\ board[l] = "unborn"
           /\ board' = [board EXCEPT ![l] = "new_lead"]
           /\ appt' = [appt EXCEPT ![call[s].row].lead = l]
    /\ Commit(s, Idle)
    /\ UNCHANGED asked

-----------------------------------------------------------------------------
(***************************************************************************)
(* The customer's links: post_reschedule, post_cancel                      *)
(***************************************************************************)
\* A fresh link to a row whose links were never revoked is like an old one.
OpenLink(s, op, slots) ==
    \E a \in Appointments, slot \in slots, link \in {"old", "fresh"} :
        /\ LinkLives(a, link)
        /\ appt[a].status \in Live
        /\ slot # {} => Bookable(slot)
        /\ link = "fresh" => appt[a].revoked
        /\ Begin(s, Request(op, a, slot, link))

FollowReschedule(s) == OpenLink(s, "reschedule", Grid)
FollowCancel(s) == OpenLink(s, "cancel", {{}})

\* The new row takes rep and lead over from the original as it was loaded.  The
\* faulty form leaves the original as it is.
KeptOriginal(a) == appt[a]
Original(a) == [appt[a] EXCEPT !.status = "rescheduled", !.revoked = TRUE]

CommitReschedule(s) ==
    /\ Step(s, "reschedule", "commit")
    /\ \E a \in Appointments :
       LET c == call[s]
           untrusted == s \in stale \/ appt[c.row].loose IN
       /\ Free(a)
       /\ appt' = [appt EXCEPT
              ![a] = [NoRow EXCEPT !.slot = c.slot, !.status = "confirmed", !.rep = c.was.rep,
                          !.lead = c.was.lead, !.root = appt[c.row].root, !.loose = untrusted,
                          !.moved = TRUE],
              ![c.row] = [Original(c.row) EXCEPT !.loose = untrusted]]
    /\ Commit(s, Idle)
    /\ UNCHANGED <<board, asked>>

\* The lead is read again after COMMIT.
ThenMirror(s) ==
    IF appt[call[s].row].lead = NoLead
    THEN Idle
    ELSE [op |-> call[s].op, at |-> "mirror", row |-> call[s].row,
          lead |-> appt[call[s].row].lead]

CommitCancel(s) ==
    /\ Step(s, "cancel", "commit")
    /\ appt' = [appt EXCEPT ![call[s].row] =
           [appt[call[s].row] EXCEPT !.status = "cancelled", !.cancelledAt = TRUE, !.revoked = TRUE,
                     !.loose = @ \/ s \in stale]]
    /\ Commit(s, ThenMirror(s))
    /\ UNCHANGED <<board, asked>>

\* change_event_status.  The customer's handler asks the workflow for its own
\* column, admin_booking.py always asks for 'cancelled', which the pipeline of
\* vehicle sales does not have: an EventServiceError, logged and rolled back.
Mirror(s) ==
    /\ call[s].at = "mirror"
    /\ board' = IF call[s].op = "cancel" THEN [board EXCEPT ![call[s].lead] = "lost"] ELSE board
    /\ call' = [call EXCEPT ![s] = Idle]
    /\ UNCHANGED <<appt, stale, asked>>

-----------------------------------------------------------------------------
(***************************************************************************)
(* Staff                                                                   *)
(***************************************************************************)
\* create_staff_appointment, on a deal or for a person without one.
StaffBook(s) ==
    \E slot \in StaffSlots, rep \in Reps \cup {Nobody},
       l \in {x \in Leads : board[x] # "unborn"} \cup {NoLead} :
        /\ RepFree(rep, slot)
        /\ BeginStaff(s, Filing("staff", slot, [rep |-> rep, lead |-> l]))

CommitStaffBook(s) ==
    /\ Step(s, "staff", "commit")
    /\ \E a \in Appointments :
       LET c == call[s] IN
       /\ Free(a)
       /\ appt' = [appt EXCEPT ![a] =
              [NoRow EXCEPT !.slot = c.slot, !.status = "confirmed", !.rep = c.arg.rep,
                            !.lead = c.arg.lead, !.root = a, !.loose = s \in stale]]
    /\ Commit(s, Idle)
    /\ UNCHANGED <<board, asked>>

\* patch_appointment: any status, from any status.
OpenPatch(s) ==
    \E a \in Appointments, status \in Live \cup Over :
        /\ Exists(a)
        /\ appt[a].status # status
        /\ BeginStaff(s, Request("patch", a, {}, status))

CommitPatch(s) ==
    /\ Step(s, "patch", "commit")
    /\ LET c == call[s]
           cancels == c.arg = "cancelled" /\ ~c.was.cancelledAt IN
       /\ appt' = [appt EXCEPT ![c.row] =
              [appt[c.row] EXCEPT !.status = c.arg, !.cancelledAt = @ \/ cancels,
                        !.loose = @ \/ s \in stale \/ c.arg \in Live]]
       /\ Commit(s, IF cancels THEN ThenMirror(s) ELSE Idle)
    /\ UNCHANGED <<board, asked>>

\* apply_status_action at the desk: no look at the status the row has.  The lead
\* is read with the row.
OpenDesk(s) ==
    \E a \in Appointments, status \in {"attended", "cancelled"} :
        /\ Exists(a)
        /\ BeginStaff(s, Request("desk", a, {},
               [to |-> status,
                column |-> IF appt[a].lead = NoLead THEN "unborn" ELSE board[appt[a].lead]]))

\* The faulty form takes whatever lead to 'contacted'.
AdvancesAny(column) == column # "unborn"
Advances(column) == column = "new_lead"

\* An arrival makes the lead if there is none, and takes a new one to 'contacted'.
Advance(s) ==
    LET c == call[s] IN
    IF c.arg.to = "attended" /\ c.was.lead = NoLead
    THEN \E l \in Leads :
           /\ board[l] = "unborn"
           /\ board' = [board EXCEPT ![l] = "contacted"]
           /\ appt' = [appt EXCEPT ![c.row].status = "attended", ![c.row].lead = l,
                                   ![c.row].loose = @ \/ s \in stale]
    ELSE /\ board' = IF c.arg.to = "attended" /\ Advances(c.arg.column)
                     THEN [board EXCEPT ![c.was.lead] = "contacted"]
                     ELSE board
         /\ appt' = IF c.was.status = c.arg.to THEN appt
                    ELSE [appt EXCEPT ![c.row] =
                            [appt[c.row] EXCEPT !.status = c.arg.to, !.loose = @ \/ s \in stale,
                                      !.cancelledAt = @ \/ c.arg.to = "cancelled"]]

CommitDesk(s) ==
    /\ Step(s, "desk", "commit")
    /\ Advance(s)
    /\ Commit(s, Idle)
    /\ UNCHANGED asked

\* reassign_appointment, and the appointments reassign_event_lead takes along.
\* Nothing asks whether the new rep is free.
Reassign(s) ==
    \E a \in Appointments, rep \in Reps \cup {Nobody} :
        /\ Exists(a)
        /\ appt[a].rep # rep
        /\ BeginStaff(s, Request("assign", a, {}, rep))

CommitReassign(s) ==
    /\ Step(s, "assign", "commit")
    /\ \E rows \in {{call[s].row}}
           \cup {{a \in Appointments : appt[a].lead = l} : l \in {call[s].was.lead} \ {NoLead}} :
       appt' = [a \in Appointments |->
           IF a \in rows THEN [appt[a] EXCEPT !.rep = call[s].arg, !.moved = TRUE] ELSE appt[a]]
    /\ Commit(s, Idle)
    /\ UNCHANGED <<board, asked>>

-----------------------------------------------------------------------------
Next == \E s \in Sessions :
    \/ Submit(s) \/ CheckSlot(s) \/ CommitCreate(s) \/ Promote(s)
    \/ FollowReschedule(s) \/ CommitReschedule(s)
    \/ FollowCancel(s) \/ CommitCancel(s) \/ Mirror(s)
    \/ StaffBook(s) \/ CommitStaffBook(s)
    \/ OpenPatch(s) \/ CommitPatch(s)
    \/ OpenDesk(s) \/ CommitDesk(s)
    \/ Reassign(s) \/ CommitReassign(s)
    \/ GiveUp(s)

Spec == Init /\ [][Next]_vars

-----------------------------------------------------------------------------
(***************************************************************************)
(* Properties                                                              *)
(***************************************************************************)
Rows == [slot : {{}} \cup Grid \cup StaffSlots, status : {"none"} \cup Live \cup Over,
         rep : Reps \cup {Nobody}, lead : Leads \cup {NoLead},
         form : Submissions \cup {NoForm}, cancelledAt : BOOLEAN, revoked : BOOLEAN,
         root : 0..MaxId, loose : BOOLEAN, moved : BOOLEAN]

\* Rows keep their shape, and a cancelled one carries its time.
TypeOK ==
    /\ appt \in [Appointments -> Rows]
    /\ board \in [Leads -> {"unborn", "new_lead", "contacted", "lost"}]
    /\ stale \subseteq {s \in Sessions : call[s].at = "commit"}
    /\ asked \in 0..MaxStaff
    /\ \A a \in Appointments : appt[a].status = "cancelled" => appt[a].cancelledAt

Trusted == {a \in Appointments : appt[a].status \in Live /\ ~appt[a].loose}
ByCustomer(a) == appt[a].form # NoForm \/ appt[a].root # a

\* slot_is_bookable holds the widget and the reschedule link to the capacity: at no
\* moment do more customers' bookings stand than a rule allows, but for those that
\* were checked and committed across one another, and those staff put back.
CapacityUnlessRaced ==
    \A u \in UNION Grid :
        Cardinality({a \in Trusted : ByCustomer(a) /\ u \in appt[a].slot}) <= Capacity

\* However often a booking is submitted, moved, cancelled and its links reused,
\* a form makes one appointment at most (create_appointment) and it stands once
\* (post_reschedule), unless two requests crossed or staff put it back.
OneVisitPerBooking ==
    /\ TypeOK
    /\ \A a, b \in Appointments :
          a # b /\ appt[a].form = appt[b].form => appt[a].form = NoForm
    /\ \A a, b \in Trusted : appt[a].root = appt[b].root => a = b

\* staff_appointments.py: double-booking a person is a hard conflict.  Two visits of
\* one rep overlap only if one of them was moved there without that check.
RepsNotDoubleBooked ==
    \A a, b \in Trusted :
        /\ a # b
        /\ appt[a].rep # Nobody /\ appt[a].rep = appt[b].rep
        /\ appt[a].slot \cap appt[b].slot # {}
        => appt[a].moved \/ appt[b].moved

\* No place, no person and no visit is promised twice.
NotOverbooked == OneVisitPerBooking /\ CapacityUnlessRaced /\ RepsNotDoubleBooked

\* booking_tokens.py: what a customer does through a link is done to a visit that
\* still stands, and through a link newer than the last cancellation or move by a
\* link, even after staff put the visit back; unless the row changed in between.
LinksHonoured ==
    [][\A s \in Sessions :
        call[s].op \in {"reschedule", "cancel"} /\ call[s].at = "commit" /\ appt' # appt
            /\ call'[s] # call[s] /\ s \notin stale
        => LET a == call[s].row IN
           appt[a].status \in Live /\ (appt[a].revoked => call[s].arg = "fresh")]_vars

\* sales_appointments.py: an arrival moves a lead that is still new, it does not
\* bring back one the customer's cancellation closed, unless it had read the
\* board before.
LostStays ==
    [][\A l \in Leads : board[l] = "lost" /\ board'[l] # "lost"
        => \E s \in Sessions : call[s].op = "desk" /\ call[s].arg.column # "lost"]_vars
=============================================================================
