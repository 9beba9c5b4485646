---------------------------- MODULE BookingProofs -----------------------------
(***************************************************************************)
(* What appointments keep, for any number of requests in flight, any slots *)
(* and any capacity.                                                       *)
(*                                                                         *)
(* A request checks in one step and commits in a later one, so nothing it  *)
(* checked needs to be true when it commits.  The inductive invariant says *)
(* how long it stays true: a session that no COMMIT has overtaken (it is   *)
(* not stale) still has its row as it found it, its slot still has a place *)
(* and its rep is still free (Sure).  A row is then written either by an   *)
(* edit, which keeps what the promises are about (Edited), or by an INSERT *)
(* of a session that is sure, or the row is marked loose.                  *)
(***************************************************************************)
EXTENDS Booking, FiniteSetTheorems, TLAPS

-----------------------------------------------------------------------------
\* A row of the table after a request that inserts nothing.
Edited(old, new) ==
    /\ new \in Rows
    /\ new.slot = old.slot /\ new.root = old.root /\ new.form = old.form
    /\ new.status = "none" <=> old.status = "none"
    /\ new.status \in Live /\ ~new.loose => old.status \in Live /\ ~old.loose
    /\ new.rep # old.rep => new.moved
    /\ old.moved => new.moved
    /\ old.cancelledAt => new.cancelledAt
    /\ new.status = "cancelled" => new.cancelledAt

OnRow == {"reschedule", "cancel", "patch", "desk", "assign"}

Loads == [status : {"none"} \cup Live \cup Over, rep : Reps \cup {Nobody},
          lead : Leads \cup {NoLead}, cancelledAt : BOOLEAN]

\* What a request in flight carries, and that the row it loaded is still there
\* and still cancelled if it was.
CallOK(c, table) ==
    /\ c.at = "check" =>
          /\ c = [op |-> "create", at |-> "check", row |-> 0,
                  slot |-> c.slot, arg |-> c.arg]
          /\ c.slot \in Grid /\ c.arg \in Submissions
    /\ c.at = "promote" => c.row \in Appointments /\ table[c.row].status # "none"
    /\ c.at = "mirror" => c.lead \in Leads
    /\ c.at = "commit" =>
          /\ c.op \in OnRow \cup {"create", "staff"}
          /\ c.op = "create" => c.slot \in Grid /\ c.arg \in Submissions
          /\ c.op = "staff" => /\ c.slot \in StaffSlots
                               /\ c.arg.rep \in Reps \cup {Nobody}
                               /\ c.arg.lead \in Leads \cup {NoLead}
          /\ c.op \in OnRow =>
                /\ c.row \in Appointments /\ table[c.row].status # "none"
                /\ c.was \in Loads
                /\ c.was.cancelledAt => table[c.row].cancelledAt
          /\ c.op = "reschedule" => c.slot \in Grid
          /\ c.op = "patch" => c.arg \in Live \cup Over
          /\ c.op = "desk" => c.arg.to \in {"attended", "cancelled"}
          /\ c.op = "assign" => c.arg \in Reps \cup {Nobody}

\* What a request that was not overtaken may still count on.
Sure(c) ==
    /\ c.op \in {"reschedule", "cancel"} =>
          appt[c.row].status \in Live /\ (appt[c.row].revoked => c.arg = "fresh")
    /\ c.op \in {"create", "reschedule"} /\ c.slot # {} =>
          Cardinality(Standing(c.slot)) < Capacity
    /\ c.op = "staff" => RepFree(c.arg.rep, c.slot)

\* The chain of moves of a row begins at a row that exists.
RootsExist == \A a \in Appointments : Exists(a) =>
                  appt[a].root \in Appointments /\ Exists(appt[a].root)

IInv ==
    /\ NotOverbooked
    /\ RootsExist
    /\ call = [s \in Sessions |-> call[s]]
    /\ \A s \in Sessions : CallOK(call[s], appt)
    /\ \A s \in Sessions : call[s].at = "commit" /\ s \notin stale => Sure(call[s])

-----------------------------------------------------------------------------
(***************************************************************************)
(* The rows                                                                *)
(***************************************************************************)

\* A row left alone is an edit like any other.
LEMMA SameRow ==
    ASSUME TypeOK, NEW a \in Appointments
    PROVE  Edited(appt[a], appt[a])
BY DEF Edited, TypeOK, Rows
\* Edits cannot make a booking stand that did not, so no promise is broken.
LEMMA EditsKeep ==
    ASSUME NotOverbooked, RootsExist, TypeOK',
           \A a \in Appointments : Edited(appt[a], appt'[a])
    PROVE  NotOverbooked' /\ RootsExist'
<1>1. /\ Trusted' \subseteq Trusted
      /\ \A a \in Appointments : /\ appt'[a].slot = appt[a].slot
                                 /\ appt'[a].root = appt[a].root
                                 /\ appt'[a].form = appt[a].form
  BY DEF Edited, Trusted
<1>2. \A a \in Appointments : ByCustomer(a)' = ByCustomer(a)
  BY <1>1 DEF ByCustomer
<1>3. OneVisitPerBooking'
  BY <1>1 DEF NotOverbooked, OneVisitPerBooking, Trusted
<1>4. ASSUME NEW u \in UNION Grid
      PROVE  Cardinality({a \in Trusted : ByCustomer(a) /\ u \in appt[a].slot})' <= Capacity
  <2> DEFINE now == {a \in Trusted : ByCustomer(a) /\ u \in appt[a].slot}
  <2>1. now' \subseteq now
    BY <1>1, <1>2 DEF Trusted
  <2>2. IsFiniteSet(now)
    <3>1. IsFiniteSet(Appointments) /\ now \subseteq Appointments
      BY FS_Interval, BookingAssumption DEF Appointments, Trusted
    <3> QED BY <3>1, FS_Subset
  <2>3. Cardinality(now) <= Capacity
    BY DEF NotOverbooked, CapacityUnlessRaced
  <2> DEFINE then == {a \in Trusted' : ByCustomer(a)' /\ u \in appt'[a].slot}
  <2>4. then \subseteq now
    BY <1>1, <1>2 DEF Trusted
  <2> HIDE DEF now, then
  <2>5. Cardinality(then) <= Cardinality(now) /\ Cardinality(then) \in Nat
        /\ Cardinality(now) \in Nat
    BY <2>2, <2>4, FS_Subset, FS_CardinalityType
  <2>6. Cardinality(then) <= Capacity
    BY <2>3, <2>5, BookingAssumption
  <2> QED BY <2>6 DEF then
<1>5. CapacityUnlessRaced'
  BY <1>4 DEF CapacityUnlessRaced
<1>6. RepsNotDoubleBooked'
  BY <1>1 DEF RepsNotDoubleBooked, NotOverbooked, Edited, Trusted
<1>7. RootsExist'
  BY <1>1 DEF RootsExist, Edited, Exists
<1> QED BY <1>3, <1>5, <1>6, <1>7 DEF NotOverbooked

\* An INSERT, and at most edits besides, keeps the promises when the new row
\* is loose or came from checks that still hold.
LEMMA InsertKeeps ==
    ASSUME NotOverbooked, RootsExist, TypeOK', NEW a \in Appointments, ~Exists(a),
           appt'[a].status = "confirmed",
           \A b \in Appointments \ {a} : Edited(appt[b], appt'[b]),
           appt'[a].form = NoForm \/ Unique(appt'[a].form),
           \/ appt'[a].root = a
           \/ \E b \in Appointments : Exists(b) /\ appt'[a].root = appt[b].root,
           ~appt'[a].loose =>
               /\ \A b \in Trusted' \ {a} : appt'[b].root # appt'[a].root
               /\ (appt'[a].form # NoForm \/ appt'[a].root # a) /\ appt'[a].slot # {} =>
                      Cardinality(Standing(appt'[a].slot)) < Capacity
               /\ appt'[a].moved \/ RepFree(appt'[a].rep, appt'[a].slot)
    PROVE  NotOverbooked' /\ RootsExist'
<1> DEFINE r == appt'[a]
<1>1. /\ Trusted' \ {a} \subseteq Trusted
      /\ \A b \in Appointments \ {a} : /\ appt'[b].slot = appt[b].slot
                                       /\ appt'[b].root = appt[b].root
                                       /\ appt'[b].form = appt[b].form
  BY DEF Edited, Trusted
<1>2. \A b \in Appointments \ {a} : ByCustomer(b)' = ByCustomer(b)
  BY <1>1 DEF ByCustomer
<1>3. OneVisitPerBooking'
  <2>1. ASSUME NEW b \in Appointments, NEW d \in Appointments, b # d,
               appt'[b].form = appt'[d].form
        PROVE  appt'[b].form = NoForm
    BY <1>1, <2>1 DEF NotOverbooked, OneVisitPerBooking, Unique
  <2>2. ASSUME NEW b \in Trusted', NEW d \in Trusted', appt'[b].root = appt'[d].root
        PROVE  b = d
    <3>1. b # a /\ d # a => b = d
      <4>1. b # a /\ d # a => /\ b \in Trusted /\ d \in Trusted
                              /\ appt[b].root = appt[d].root
        BY <1>1, <2>2 DEF Trusted
      <4> QED BY <4>1 DEF NotOverbooked, OneVisitPerBooking
    <3>2. a \in Trusted' => ~r.loose
      BY DEF Trusted
    <3> QED BY <2>2, <3>1, <3>2
  <2> QED BY <2>1, <2>2 DEF OneVisitPerBooking
<1>4. ASSUME NEW u \in UNION Grid
      PROVE  Cardinality({b \in Trusted : ByCustomer(b) /\ u \in appt[b].slot})' <= Capacity
  <2> DEFINE now == {b \in Trusted : ByCustomer(b) /\ u \in appt[b].slot}
             then == {b \in Trusted' : ByCustomer(b)' /\ u \in appt'[b].slot}
  <2>1. IsFiniteSet(now) /\ IsFiniteSet(Standing(r.slot)) /\ Cardinality(now) \in Nat
        /\ Cardinality(Standing(r.slot)) \in Nat
    <3>1. IsFiniteSet(Appointments)
      BY FS_Interval, BookingAssumption DEF Appointments
    <3>2. now \subseteq Appointments /\ Standing(r.slot) \subseteq Appointments
      BY DEF Trusted, Standing
    <3> HIDE DEF now, r
    <3> QED BY <3>1, <3>2, FS_Subset, FS_CardinalityType
  <2>2. Cardinality(now) <= Capacity
    BY DEF NotOverbooked, CapacityUnlessRaced
  <2>3. then \subseteq now \cup {a}
    BY <1>1, <1>2 DEF Trusted
  <2>4. CASE a \notin then
    <3>1. then \subseteq now
      BY <2>3, <2>4
    <3> HIDE DEF now, then
    <3>2. Cardinality(then) <= Cardinality(now) /\ Cardinality(then) \in Nat
      BY <2>1, <3>1, FS_Subset, FS_CardinalityType
    <3>3. Cardinality(then) <= Capacity
      BY <2>1, <2>2, <3>2, BookingAssumption
    <3> QED BY <3>3 DEF then
  <2>5. CASE a \in then
    <3>1. Cardinality(Standing(r.slot)) < Capacity
      BY <2>5 DEF Trusted, ByCustomer
    <3>2. now \subseteq Standing(r.slot)
      <4>1. u \in r.slot
        BY <2>5
      <4> QED BY <4>1 DEF Standing, Trusted
    <3>3. then \subseteq Standing(r.slot) \cup {a}
      BY <2>3, <3>2
    <3> DEFINE St == Standing(r.slot)
    <3> HIDE DEF now, then, St, r
    <3>4. IsFiniteSet(St \cup {a}) /\ Cardinality(St \cup {a}) \in {Cardinality(St), Cardinality(St) + 1}
      BY <2>1, FS_AddElement DEF St
    <3>5. Cardinality(then) <= Cardinality(St \cup {a}) /\ Cardinality(then) \in Nat
      BY <3>3, <3>4, FS_Subset, FS_CardinalityType DEF St
    <3>6. Cardinality(then) <= Capacity
      BY <2>1, <3>1, <3>4, <3>5, BookingAssumption DEF St
    <3> QED BY <3>6 DEF then
  <2> QED BY <2>4, <2>5
<1>5. CapacityUnlessRaced'
  BY <1>4 DEF CapacityUnlessRaced
<1>6. RepsNotDoubleBooked'
  <2>1. ASSUME NEW b \in Trusted', NEW d \in Trusted', b # d,
               appt'[b].rep # Nobody, appt'[b].rep = appt'[d].rep,
               appt'[b].slot \cap appt'[d].slot # {}
        PROVE  appt'[b].moved \/ appt'[d].moved
    <3>1. CASE b # a /\ d # a
      <4>1. /\ b \in Trusted /\ d \in Trusted /\ Edited(appt[b], appt'[b])
            /\ Edited(appt[d], appt'[d])
        BY <1>1, <3>1 DEF Trusted
      <4> QED BY <2>1, <4>1 DEF Edited, NotOverbooked, RepsNotDoubleBooked
    <3>2. ASSUME NEW x \in Trusted' \ {a}, a \in Trusted', appt'[x].rep = r.rep,
                 r.rep # Nobody, appt'[x].slot \cap r.slot # {}
          PROVE  appt'[x].moved \/ r.moved
      <4>1. x \in Trusted /\ Edited(appt[x], appt'[x]) /\ ~r.loose
        BY <1>1, <3>2 DEF Trusted
      <4>2. x \in Standing(r.slot)
        BY <3>2, <4>1 DEF Standing, Trusted, Edited
      <4>3. RepFree(r.rep, r.slot) => appt[x].rep # r.rep
        BY <3>2, <4>2 DEF RepFree
      <4> QED BY <3>2, <4>1, <4>3 DEF Edited
    <3>3. appt'[d].slot \cap appt'[b].slot # {}
      BY <2>1
    <3> QED BY <2>1, <3>1, <3>2, <3>3
  <2> QED BY <2>1 DEF RepsNotDoubleBooked
<1>7. RootsExist'
  <2>1. ASSUME NEW b \in Appointments, appt'[b].status # "none"
        PROVE  appt'[b].root \in Appointments /\ appt'[appt'[b].root].status # "none"
    <3>1. \A d \in Appointments : Exists(d) => d # a /\ appt'[d].status # "none"
      BY DEF Exists, Edited
    <3>2. b # a => Exists(b) /\ appt'[b].root = appt[b].root
      BY <1>1, <2>1 DEF Exists, Edited
    <3> QED BY <3>1, <3>2 DEF RootsExist
  <2> QED BY <2>1 DEF RootsExist, Exists
<1> QED BY <1>3, <1>5, <1>6, <1>7 DEF NotOverbooked
-----------------------------------------------------------------------------
(***************************************************************************)
(* The calls                                                               *)
(***************************************************************************)

\* What every step leaves of a row that exists.
RowsStay ==
    \A a \in Appointments : appt[a].status # "none" =>
        /\ appt'[a].status # "none" /\ appt'[a].slot = appt[a].slot
        /\ appt[a].cancelledAt => appt'[a].cancelledAt

\* A request that is not overtaken can still count on what it checked.
LEMMA SureStays ==
    ASSUME RowsStay, NEW c, Sure(c), c.op \in OnRow => c.row \in Appointments,
           \A b \in Appointments : appt'[b] # appt[b] =>
               b # c.row /\ appt'[b].slot \cap c.slot = {}
    PROVE  Sure(c)'
<1>1. \A b \in Appointments : /\ b \in Standing(c.slot)' <=> b \in Standing(c.slot)
                              /\ b \in Standing(c.slot) => appt'[b] = appt[b]
  BY DEF RowsStay, Standing, Live
<1>2. Standing(c.slot)' = Standing(c.slot)
  BY <1>1 DEF Standing
<1>3. c.op \in OnRow => appt'[c.row] = appt[c.row]
  OBVIOUS
<1>4. RepFree(c.arg.rep, c.slot) => RepFree(c.arg.rep, c.slot)'
  BY <1>1, <1>2 DEF RepFree, Standing
<1> QED BY <1>2, <1>3, <1>4 DEF Sure, OnRow

\* What a call says of its row stays true.
LEMMA CallStays ==
    ASSUME RowsStay, NEW c, CallOK(c, appt)
    PROVE  CallOK(c, appt')
BY DEF RowsStay, CallOK

\* A COMMIT of session s: the other calls keep what they carry, and are stale if
\* it overtook them.
LEMMA CommitKeepsCalls ==
    ASSUME IInv, RowsStay, NEW s \in Sessions, NEW next, Commit(s, next),
           CallOK(next, appt'), next.at # "commit"
    PROVE  /\ call' = [t \in Sessions |-> call'[t]]
           /\ \A t \in Sessions : CallOK(call'[t], appt')
           /\ \A t \in Sessions : call'[t].at = "commit" /\ t \notin stale' => Sure(call[t])'
           /\ stale' \subseteq {t \in Sessions : call'[t].at = "commit"}
<1>1. /\ call = [t \in Sessions |-> call[t]] /\ call' = [call EXCEPT ![s] = next]
      /\ stale' = (stale \ {s}) \cup {t \in Sessions \ {s} : Overtaken(t)}
      /\ stale \subseteq {t \in Sessions : call[t].at = "commit"}
  BY DEF IInv, Commit, NotOverbooked, OneVisitPerBooking, TypeOK
<1>2. call'[s] = next /\ \A t \in Sessions \ {s} : call'[t] = call[t]
  BY <1>1
<1>3. \A t \in Sessions : CallOK(call'[t], appt')
  BY <1>2, CallStays DEF IInv
<1>4. ASSUME NEW t \in Sessions, call'[t].at = "commit", t \notin stale'
      PROVE  Sure(call[t])'
  <2>1. PICK c : c = call[t]
    OBVIOUS
  <2>2. t # s /\ call'[t] = c
    BY <1>2, <1>4, <2>1
  <2>3. c.at = "commit" /\ t \notin stale /\ ~Overtaken(t)
    BY <1>1, <1>4, <2>1, <2>2
  <2>4. Sure(c)
    BY <2>1, <2>3 DEF IInv
  <2>5. \A b \in Appointments : appt'[b] # appt[b] =>
            b # c.row /\ appt'[b].slot \cap c.slot = {}
    BY <2>1, <2>3 DEF Overtaken
  <2>6. c.op \in OnRow => c.row \in Appointments
    BY <2>1, <2>3 DEF IInv, CallOK
  <2>7. Sure(c)'
    BY <2>4, <2>5, <2>6, SureStays
  <2> QED BY <2>2, <2>7
<1>5. stale' \subseteq {t \in Sessions : call'[t].at = "commit"}
  BY <1>1, <1>2 DEF Overtaken
<1>6. call' = [t \in Sessions |-> call'[t]]
  BY <1>1
<1> QED BY <1>3, <1>4, <1>5, <1>6

\* Edits leave every row in place.
LEMMA EditsStay ==
    ASSUME \A a \in Appointments : Exists(a) => Edited(appt[a], appt'[a])
    PROVE  RowsStay
<1> SUFFICES ASSUME NEW a \in Appointments, appt[a].status # "none"
             PROVE  /\ appt'[a].status # "none" /\ appt'[a].slot = appt[a].slot
                    /\ appt[a].cancelledAt => appt'[a].cancelledAt
  BY DEF RowsStay
<1>1. Edited(appt[a], appt'[a])
  BY DEF Exists
<1> QED BY <1>1 DEF Edited

\* A COMMIT that only edits rows.
LEMMA EditCommitKeeps ==
    ASSUME IInv, NEW s \in Sessions, NEW next, Commit(s, next),
           appt' = [a \in Appointments |-> appt'[a]],
           \A a \in Appointments : Edited(appt[a], appt'[a]),
           CallOK(next, appt'), next.at # "commit",
           board' \in [Leads -> {"unborn", "new_lead", "contacted", "lost"}],
           UNCHANGED asked
    PROVE  IInv'
<1>1. RowsStay
  BY EditsStay
<1>2. /\ call' = [t \in Sessions |-> call'[t]]
      /\ \A t \in Sessions : CallOK(call'[t], appt')
      /\ \A t \in Sessions : call'[t].at = "commit" /\ t \notin stale' => Sure(call[t])'
      /\ stale' \subseteq {t \in Sessions : call'[t].at = "commit"}
  BY <1>1, CommitKeepsCalls
<1>3. TypeOK'
  <2>1. appt' \in [Appointments -> Rows]
        /\ \A a \in Appointments : appt'[a].status = "cancelled" => appt'[a].cancelledAt
    BY DEF Edited
  <2> QED BY <1>2, <2>1 DEF TypeOK, IInv, NotOverbooked, OneVisitPerBooking
<1>4. NotOverbooked' /\ RootsExist'
  BY <1>3, EditsKeep DEF IInv
<1> QED BY <1>2, <1>4 DEF IInv

\* A COMMIT that inserts row a.
LEMMA InsertCommitKeeps ==
    ASSUME IInv, NEW s \in Sessions, NEW next, Commit(s, next),
           NEW a \in Appointments, ~Exists(a), appt'[a] \in Rows,
           appt' = [b \in Appointments |-> appt'[b]],
           appt'[a].status = "confirmed",
           \A b \in Appointments \ {a} : Edited(appt[b], appt'[b]),
           appt'[a].form = NoForm \/ Unique(appt'[a].form),
           \/ appt'[a].root = a
           \/ \E b \in Appointments : Exists(b) /\ appt'[a].root = appt[b].root,
           ~appt'[a].loose =>
               /\ \A b \in Trusted' \ {a} : appt'[b].root # appt'[a].root
               /\ (appt'[a].form # NoForm \/ appt'[a].root # a) /\ appt'[a].slot # {} =>
                      Cardinality(Standing(appt'[a].slot)) < Capacity
               /\ appt'[a].moved \/ RepFree(appt'[a].rep, appt'[a].slot),
           CallOK(next, appt'), next.at # "commit", UNCHANGED <<board, asked>>
    PROVE  IInv'
<1>1. RowsStay
  BY EditsStay DEF Exists
<1>2. /\ call' = [t \in Sessions |-> call'[t]]
      /\ \A t \in Sessions : CallOK(call'[t], appt')
      /\ \A t \in Sessions : call'[t].at = "commit" /\ t \notin stale' => Sure(call[t])'
      /\ stale' \subseteq {t \in Sessions : call'[t].at = "commit"}
  BY <1>1, CommitKeepsCalls
<1>3. TypeOK'
  <2>1. appt' \in [Appointments -> Rows]
        /\ \A b \in Appointments : appt'[b].status = "cancelled" => appt'[b].cancelledAt
    BY DEF Edited
  <2> QED BY <1>2, <2>1 DEF TypeOK, IInv, NotOverbooked, OneVisitPerBooking
<1>4. NotOverbooked /\ RootsExist
  BY DEF IInv
<1>5. NotOverbooked' /\ RootsExist'
  BY <1>3, <1>4, InsertKeeps
<1> QED BY <1>2, <1>5 DEF IInv

\* A step of session s that writes no row: what it carries then it may count on.
LEMMA CallMoves ==
    ASSUME IInv, NEW s \in Sessions, NEW c, call' = [call EXCEPT ![s] = c],
           CallOK(c, appt), c.at = "commit" /\ s \notin stale' => Sure(c),
           \/ stale' = stale /\ call[s].at # "commit"
           \/ stale' = stale \ {s} /\ c.at # "commit",
           board' \in [Leads -> {"unborn", "new_lead", "contacted", "lost"}],
           asked' \in 0..MaxStaff, UNCHANGED appt
    PROVE  IInv'
<1>1. TypeOK /\ call = [t \in Sessions |-> call[t]]
  BY DEF IInv, NotOverbooked, OneVisitPerBooking
<1>2. call'[s] = c /\ (\A t \in Sessions \ {s} : call'[t] = call[t])
      /\ call' = [t \in Sessions |-> call'[t]]
  BY <1>1
<1>3. TypeOK'
  BY <1>1, <1>2 DEF TypeOK
<1>4. NotOverbooked' /\ RootsExist'
  BY <1>3 DEF IInv, NotOverbooked, OneVisitPerBooking, CapacityUnlessRaced,
     RepsNotDoubleBooked, RootsExist, Trusted, ByCustomer, Exists
<1>5. \A t \in Sessions : CallOK(call'[t], appt')
  BY <1>2 DEF IInv
<1>6. ASSUME NEW d, Sure(d) PROVE Sure(d)'
  BY <1>6 DEF Sure, RepFree, Standing
<1>7. \A t \in Sessions : call'[t].at = "commit" /\ t \notin stale' => Sure(call'[t])
  BY <1>2 DEF IInv
<1>8. ASSUME NEW t \in Sessions, call'[t].at = "commit", t \notin stale'
      PROVE  Sure(call[t])'
  <2>1. PICK d : d = call'[t]
    OBVIOUS
  <2> QED BY <1>6, <1>7, <1>8, <2>1
<1> QED BY <1>2, <1>4, <1>5, <1>8 DEF IInv
-----------------------------------------------------------------------------
(***************************************************************************)
(* The steps of a request                                                  *)
(***************************************************************************)

\* The parts of the invariant a step starts from.
LEMMA Start ==
    ASSUME IInv, NEW s \in Sessions
    PROVE  /\ TypeOK /\ NotOverbooked /\ RootsExist
           /\ CallOK(call[s], appt)
           /\ call[s].at = "commit" /\ s \notin stale => Sure(call[s])
           /\ s \in stale => call[s].at = "commit"
           /\ \A a \in Appointments : /\ appt[a] \in Rows /\ Loaded(a) \in Loads
                                      /\ Edited(appt[a], appt[a])
<1>1. TypeOK
  BY DEF IInv, NotOverbooked, OneVisitPerBooking
<1>2. \A a \in Appointments : appt[a] \in Rows /\ Edited(appt[a], appt[a])
  BY <1>1, SameRow DEF TypeOK
<1>3. \A a \in Appointments : Loaded(a) \in Loads
  BY <1>2 DEF Loaded, Loads, Rows
<1> QED BY <1>1, <1>2, <1>3 DEF IInv, TypeOK

\* A request that has made its checks.
LEMMA BeginKeeps ==
    ASSUME IInv, NEW s \in Sessions, NEW c, Begin(s, c) \/ BeginStaff(s, c),
           CallOK(c, appt), Sure(c)
    PROVE  IInv'
<1>1. call[s].at # "commit"
  BY DEF Begin, BeginStaff, Idle
<1>2. TypeOK
  BY Start
<1>3. asked' \in 0..MaxStaff
  BY <1>2, BookingAssumption DEF TypeOK, Begin, BeginStaff
<1>4. /\ call' = [call EXCEPT ![s] = c] /\ stale' = stale /\ appt' = appt
      /\ board' \in [Leads -> {"unborn", "new_lead", "contacted", "lost"}]
  BY <1>2 DEF TypeOK, Begin, BeginStaff
<1> QED BY <1>1, <1>3, <1>4, CallMoves

\* A visitor's submission only loads a call: no row moves.
LEMMA SubmitKeeps ==
    ASSUME IInv, NEW s \in Sessions, Submit(s)
    PROVE  IInv'
<1>1. PICK f \in Submissions, slot \in Grid :
          Begin(s, [Filing("create", slot, f) EXCEPT !.at = "check"])
  BY DEF Submit
<1> DEFINE c == [op |-> "create", at |-> "check", row |-> 0, slot |-> slot, arg |-> f]
<1>2. Begin(s, c)
  BY <1>1 DEF Filing
<1>3. CallOK(c, appt)
  BY DEF CallOK
<1>4. call[s].at # "commit" /\ TypeOK
  BY <1>2, Start DEF Begin, Idle
<1>5. /\ call' = [call EXCEPT ![s] = c] /\ stale' = stale /\ UNCHANGED <<appt, board, asked>>
      /\ c.at # "commit"
  BY <1>2 DEF Begin
<1> HIDE DEF c
<1> QED BY <1>3, <1>4, <1>5, CallMoves DEF TypeOK

\* Checking the slot before the insert moves the call on, and no row.
LEMMA CheckSlotKeeps ==
    ASSUME IInv, NEW s \in Sessions, CheckSlot(s)
    PROVE  IInv'
<1> DEFINE b == call[s]
           c == [op |-> "create", at |-> "commit", row |-> 0, slot |-> b.slot, arg |-> b.arg]
<1>1. /\ b.at = "check" /\ CallOK(b, appt) /\ Bookable(b.slot) /\ TypeOK
      /\ call' = [call EXCEPT ![s].at = "commit"] /\ UNCHANGED <<appt, board, stale, asked>>
  BY Start DEF CheckSlot, Step
<1>2. /\ b = [op |-> "create", at |-> "check", row |-> 0, slot |-> b.slot, arg |-> b.arg]
      /\ b.slot \in Grid /\ b.arg \in Submissions
  BY <1>1 DEF CallOK
<1>3. [b EXCEPT !.at = "commit"] = c
  BY <1>2
<1>4. call' = [call EXCEPT ![s] = c]
  BY <1>1, <1>3 DEF IInv
<1>5. CallOK(c, appt) /\ Sure(c)
  BY <1>1, <1>2 DEF CallOK, Sure, Bookable, OnRow
<1> HIDE DEF c
<1> QED BY <1>1, <1>4, <1>5, CallMoves DEF TypeOK

\* A failed call leaves an idle session and no row changed.
LEMMA GiveUpKeeps ==
    ASSUME IInv, NEW s \in Sessions, GiveUp(s)
    PROVE  IInv'
<1>1. CallOK(Idle, appt) /\ Idle.at # "commit"
  BY DEF CallOK, Idle
<1>2. /\ call' = [call EXCEPT ![s] = Idle] /\ stale' = stale \ {s}
      /\ UNCHANGED <<appt, board, asked>> /\ TypeOK
  BY Start DEF GiveUp
<1> QED BY <1>1, <1>2, CallMoves DEF TypeOK

\* The mirror ends the call after its commit and, for a cancellation, loses the lead.
LEMMA MirrorKeeps ==
    ASSUME IInv, NEW s \in Sessions, Mirror(s)
    PROVE  IInv'
<1>1. CallOK(Idle, appt) /\ Idle.at # "commit"
  BY DEF CallOK, Idle
<1>2. /\ call' = [call EXCEPT ![s] = Idle] /\ call[s].at # "commit"
      /\ UNCHANGED <<appt, stale, asked>> /\ TypeOK
  BY Start DEF Mirror
<1>3. board' \in [Leads -> {"unborn", "new_lead", "contacted", "lost"}]
  BY <1>2 DEF Mirror, TypeOK
<1> QED BY <1>1, <1>2, <1>3, CallMoves DEF TypeOK

\* A request about a row that exists carries what it loaded.
LEMMA RequestOK ==
    ASSUME IInv, NEW a \in Appointments, Exists(a), NEW op \in OnRow, NEW slot, NEW arg,
           op = "reschedule" => slot \in Grid,
           op = "patch" => arg \in Live \cup Over,
           op = "desk" => arg.to \in {"attended", "cancelled"},
           op = "assign" => arg \in Reps \cup {Nobody}
    PROVE  CallOK(Request(op, a, slot, arg), appt)
<1> DEFINE c == Request(op, a, slot, arg)
<1>1. /\ c.op = op /\ c.at = "commit" /\ c.row = a /\ c.slot = slot /\ c.arg = arg
      /\ c.was = Loaded(a)
  BY DEF Request
<1>2. Loaded(a) \in Loads /\ (Loaded(a).cancelledAt => appt[a].cancelledAt)
  <2>1. TypeOK
    BY DEF IInv, NotOverbooked, OneVisitPerBooking
  <2> QED BY <2>1 DEF TypeOK, Loaded, Loads, Rows
<1> HIDE DEF c
<1>3. /\ c.row \in Appointments /\ appt[c.row].status # "none" /\ c.was \in Loads
      /\ c.was.cancelledAt => appt[c.row].cancelledAt
  BY <1>1, <1>2 DEF Exists
<1>4. /\ c.op = "reschedule" => c.slot \in Grid
      /\ c.op = "patch" => c.arg \in Live \cup Over
      /\ c.op = "desk" => c.arg.to \in {"attended", "cancelled"}
      /\ c.op = "assign" => c.arg \in Reps \cup {Nobody}
  BY <1>1
<1>5. c.op \in OnRow /\ c.op # "create" /\ c.op # "staff" /\ c.at = "commit"
  BY <1>1 DEF OnRow
<1> QED BY <1>3, <1>4, <1>5 DEF CallOK, c

\* Opening a reschedule or a cancel link loads the row the link names.
LEMMA OpenLinkKeeps ==
    ASSUME IInv, NEW s \in Sessions, FollowReschedule(s) \/ FollowCancel(s)
    PROVE  IInv'
<1>1. PICK op \in {"reschedule", "cancel"}, slots \in {Grid, {{}}} :
          /\ OpenLink(s, op, slots)
          /\ op = "reschedule" => slots = Grid
          /\ op = "cancel" => slots = {{}}
  BY DEF FollowReschedule, FollowCancel
<1>2. PICK a \in Appointments, slot \in slots, link \in {"old", "fresh"} :
          /\ LinkLives(a, link) /\ appt[a].status \in Live
          /\ slot # {} => Bookable(slot)
          /\ Begin(s, Request(op, a, slot, link))
  BY <1>1 DEF OpenLink
<1> DEFINE c == Request(op, a, slot, link)
<1>3. CallOK(c, appt)
  <2>1. Exists(a) /\ op \in OnRow
    BY <1>2 DEF Exists, Live, OnRow
  <2> QED BY <1>1, <1>2, <2>1, RequestOK
<1>4. Sure(c)
  BY <1>2 DEF Sure, Request, Bookable, LinkLives
<1> HIDE DEF c
<1> QED BY <1>2, <1>3, <1>4, BeginKeeps DEF c

\* A booking by staff loads a call with its slot, its rep and its lead.
LEMMA StaffBookKeeps ==
    ASSUME IInv, NEW s \in Sessions, StaffBook(s)
    PROVE  IInv'
<1>1. PICK slot \in StaffSlots, rep \in Reps \cup {Nobody}, l \in Leads \cup {NoLead} :
          /\ RepFree(rep, slot)
          /\ BeginStaff(s, Filing("staff", slot, [rep |-> rep, lead |-> l]))
  BY DEF StaffBook
<1> DEFINE c == Filing("staff", slot, [rep |-> rep, lead |-> l])
<1>2. CallOK(c, appt) /\ Sure(c)
  BY <1>1 DEF CallOK, Sure, Filing, OnRow
<1> HIDE DEF c
<1> QED BY <1>1, <1>2, BeginKeeps DEF c

\* An edit, a desk action or a reassignment by staff loads the row it is about.
LEMMA OpenStaffKeeps ==
    ASSUME IInv, NEW s \in Sessions, OpenPatch(s) \/ OpenDesk(s) \/ Reassign(s)
    PROVE  IInv'
<1>1. \E a \in Appointments, op \in {"patch", "desk", "assign"} : \E arg :
          /\ Exists(a) /\ BeginStaff(s, Request(op, a, {}, arg))
          /\ op = "patch" => arg \in Live \cup Over
          /\ op = "desk" => arg.to \in {"attended", "cancelled"}
          /\ op = "assign" => arg \in Reps \cup {Nobody}
  <2>1. CASE OpenPatch(s)
    BY <2>1 DEF OpenPatch
  <2>2. CASE OpenDesk(s)
    BY <2>2 DEF OpenDesk
  <2>3. CASE Reassign(s)
    BY <2>3 DEF Reassign
  <2> QED BY <2>1, <2>2, <2>3
<1>2. PICK a, op, arg :
          /\ a \in Appointments /\ op \in {"patch", "desk", "assign"}
          /\ Exists(a) /\ BeginStaff(s, Request(op, a, {}, arg))
          /\ op = "patch" => arg \in Live \cup Over
          /\ op = "desk" => arg.to \in {"attended", "cancelled"}
          /\ op = "assign" => arg \in Reps \cup {Nobody}
  BY <1>1
<1> DEFINE c == Request(op, a, {}, arg)
<1>3. CallOK(c, appt) /\ Sure(c)
  BY <1>2, RequestOK DEF Sure, Request, OnRow
<1> HIDE DEF c
<1> QED BY <1>2, <1>3, BeginKeeps DEF c
\* What a cancellation goes on with: nothing, or the lead of its row.
LEMMA ThenMirrorOK ==
    ASSUME IInv, NEW s \in Sessions, call[s].row \in Appointments
    PROVE  CallOK(ThenMirror(s), appt') /\ ThenMirror(s).at # "commit"
<1>1. appt[call[s].row].lead \in Leads \cup {NoLead}
  BY Start DEF TypeOK, Rows
<1>2. CASE ThenMirror(s) = Idle
  BY <1>2 DEF Idle, CallOK
<1>3. CASE /\ appt[call[s].row].lead \in Leads
           /\ ThenMirror(s) = [op |-> call[s].op, at |-> "mirror", row |-> call[s].row,
                               lead |-> appt[call[s].row].lead]
  <2> DEFINE c == ThenMirror(s)
  <2>1. c.at = "mirror" /\ c.lead \in Leads
    BY <1>3
  <2> HIDE DEF c
  <2>2. CallOK(c, appt')
    BY <2>1 DEF CallOK
  <2> QED BY <2>1, <2>2 DEF c
<1> QED BY <1>1, <1>2, <1>3 DEF ThenMirror

\* Nothing follows.
LEMMA IdleFollows == CallOK(Idle, appt') /\ Idle.at # "commit"
BY DEF CallOK, Idle

\* Promotion binds a lead born in that step to the booking the call has just made.
LEMMA PromoteKeeps ==
    ASSUME IInv, NEW s \in Sessions, Promote(s)
    PROVE  IInv'
<1> DEFINE r == call[s].row
<1>1. PICK l \in Leads : /\ board' = [board EXCEPT ![l] = "new_lead"]
                         /\ appt' = [appt EXCEPT ![r].lead = l]
  BY DEF Promote
<1>2. /\ TypeOK /\ CallOK(call[s], appt) /\ call[s].at = "promote"
      /\ \A a \in Appointments : appt[a] \in Rows /\ Edited(appt[a], appt[a])
  BY Start DEF Promote, Step
<1>3. r \in Appointments
  BY <1>2 DEF CallOK
<1> HIDE DEF r
<1> DEFINE new == [appt[r] EXCEPT !.lead = l]
<1>4. Edited(appt[r], new)
  BY <1>2, <1>3 DEF Edited, Rows
<1>5. appt' = [appt EXCEPT ![r] = new]
  BY <1>1
<1> HIDE DEF new
<1>6. /\ appt' = [a \in Appointments |-> appt'[a]]
      /\ \A a \in Appointments : Edited(appt[a], appt'[a])
  BY <1>2, <1>3, <1>4, <1>5 DEF TypeOK
<1>7. board' \in [Leads -> {"unborn", "new_lead", "contacted", "lost"}]
  BY <1>1, <1>2 DEF TypeOK
<1>8. Commit(s, Idle) /\ UNCHANGED asked
  BY DEF Promote
<1> QED BY <1>6, <1>7, <1>8, IdleFollows, EditCommitKeeps

\* A COMMIT that writes one row, by an edit.
LEMMA OneEditKeeps ==
    ASSUME IInv, NEW s \in Sessions, NEW next, Commit(s, next),
           NEW r \in Appointments, NEW new, Edited(appt[r], new),
           appt' = [appt EXCEPT ![r] = new],
           CallOK(next, appt'), next.at # "commit",
           board' \in [Leads -> {"unborn", "new_lead", "contacted", "lost"}],
           UNCHANGED asked
    PROVE  IInv'
<1>1. TypeOK /\ \A a \in Appointments : Edited(appt[a], appt[a])
  BY Start
<1>2. /\ appt' = [a \in Appointments |-> appt'[a]]
      /\ \A a \in Appointments : Edited(appt[a], appt'[a])
  BY <1>1 DEF TypeOK
<1> QED BY <1>2, EditCommitKeeps

\* A cancellation by link commits: the visit is cancelled and its links are revoked.
LEMMA CommitCancelKeeps ==
    ASSUME IInv, NEW s \in Sessions, CommitCancel(s)
    PROVE  IInv'
<1> DEFINE r == call[s].row
           loose == appt[r].loose \/ s \in stale
           new == [appt[r] EXCEPT !.status = "cancelled", !.cancelledAt = TRUE,
                                  !.revoked = TRUE, !.loose = loose]
           next == ThenMirror(s)
<1>0. Commit(s, next) /\ UNCHANGED <<board, asked>>
  BY DEF CommitCancel
<1>1. appt' = [appt EXCEPT ![r] = new]
  BY Zenon DEF CommitCancel
<1>2. /\ TypeOK /\ CallOK(call[s], appt) /\ call[s].at = "commit" /\ call[s].op = "cancel"
      /\ \A a \in Appointments : appt[a] \in Rows
  BY Start DEF CommitCancel, Step
<1>3. r \in Appointments /\ appt[r].status # "none" /\ loose \in BOOLEAN
  BY <1>2 DEF CallOK, OnRow
<1>4. CallOK(next, appt') /\ next.at # "commit"
  BY <1>3, ThenMirrorOK
<1> HIDE DEF r, loose, next
<1>5. Edited(appt[r], new)
  BY <1>2, <1>3 DEF Edited, Rows, Live, Over
<1> HIDE DEF new
<1> QED BY <1>0, <1>1, <1>2, <1>3, <1>4, <1>5, OneEditKeeps DEF TypeOK

\* A staff edit commits, over the row as it now stands.
LEMMA CommitPatchKeeps ==
    ASSUME IInv, NEW s \in Sessions, CommitPatch(s)
    PROVE  IInv'
<1> DEFINE c == call[s]
           r == c.row
           cancels == c.arg = "cancelled" /\ ~c.was.cancelledAt
           at == appt[r].cancelledAt \/ cancels
           loose == appt[r].loose \/ s \in stale \/ c.arg \in Live
           new == [appt[r] EXCEPT !.status = c.arg, !.cancelledAt = at, !.loose = loose]
           next == IF cancels THEN ThenMirror(s) ELSE Idle
<1>0. Commit(s, next) /\ UNCHANGED <<board, asked>>
  BY DEF CommitPatch
<1>1. appt' = [appt EXCEPT ![r] = new]
  BY Zenon DEF CommitPatch
<1>2. /\ TypeOK /\ CallOK(c, appt) /\ c.at = "commit" /\ c.op = "patch"
      /\ \A a \in Appointments : appt[a] \in Rows
  BY Start DEF CommitPatch, Step
<1>3. /\ r \in Appointments /\ appt[r].status # "none" /\ loose \in BOOLEAN
      /\ at \in BOOLEAN /\ c.arg \in Live \cup Over
      /\ c.was.cancelledAt => appt[r].cancelledAt
  BY <1>2 DEF CallOK, OnRow
<1>4. CallOK(next, appt') /\ next.at # "commit"
  BY <1>3, ThenMirrorOK, IdleFollows
<1>5. /\ c.arg = "cancelled" => at
      /\ appt[r].cancelledAt => at
      /\ c.arg \in Live => loose
      /\ c.arg # "none" /\ appt[r] \in Rows
  BY <1>2, <1>3 DEF Live, Over
<1> HIDE DEF r, at, loose, next, c
<1>6. Edited(appt[r], new)
  BY <1>3, <1>5 DEF Edited, Rows
<1> HIDE DEF new
<1> QED BY <1>0, <1>1, <1>2, <1>3, <1>4, <1>6, OneEditKeeps DEF TypeOK

\* A desk action commits the status it moves the visit and the lead to.
LEMMA CommitDeskKeeps ==
    ASSUME IInv, NEW s \in Sessions, CommitDesk(s)
    PROVE  IInv'
<1> DEFINE c == call[s]
           r == c.row
           to == c.arg.to
           loose == appt[r].loose \/ s \in stale
           at == appt[r].cancelledAt \/ to = "cancelled"
<1>1. Advance(s) /\ Commit(s, Idle) /\ UNCHANGED asked
  BY DEF CommitDesk
<1>2. /\ TypeOK /\ CallOK(c, appt) /\ c.at = "commit" /\ c.op = "desk"
      /\ \A a \in Appointments : appt[a] \in Rows /\ Edited(appt[a], appt[a])
  BY Start DEF CommitDesk, Step
<1>3. /\ r \in Appointments /\ appt[r].status # "none" /\ loose \in BOOLEAN
      /\ at \in BOOLEAN /\ to \in {"attended", "cancelled"} /\ appt[r] \in Rows
  BY <1>2 DEF CallOK, OnRow
<1>4. CASE \E l \in Leads :
              /\ to = "attended" /\ board' = [board EXCEPT ![l] = "contacted"]
              /\ appt' = [appt EXCEPT ![r].status = "attended", ![r].lead = l,
                                      ![r].loose = @ \/ s \in stale]
  <2>1. PICK l \in Leads :
              /\ to = "attended" /\ board' = [board EXCEPT ![l] = "contacted"]
              /\ appt' = [appt EXCEPT ![r].status = "attended", ![r].lead = l,
                                      ![r].loose = @ \/ s \in stale]
    BY <1>4
  <2> DEFINE new == [appt[r] EXCEPT !.status = "attended", !.lead = l, !.loose = loose]
  <2>2. appt' = [appt EXCEPT ![r] = new]
    <3>1. appt' = [appt EXCEPT ![r].status = "attended", ![r].lead = l, ![r].loose = loose]
      BY <1>2, <1>3, <2>1 DEF TypeOK, Rows
    <3> HIDE DEF loose, r
    <3> QED BY <1>2, <1>3, <3>1 DEF TypeOK
  <2>3. board' \in [Leads -> {"unborn", "new_lead", "contacted", "lost"}]
    BY <1>2, <2>1 DEF TypeOK
  <2> HIDE DEF r, loose, to, at
  <2>4. Edited(appt[r], new)
    BY <1>3 DEF Edited, Rows, Live, Over
  <2> HIDE DEF new
  <2> QED BY <1>1, <1>3, <2>2, <2>3, <2>4, IdleFollows, OneEditKeeps
<1>5. CASE /\ board' = IF to = "attended" /\ Advances(c.arg.column)
                       THEN [board EXCEPT ![c.was.lead] = "contacted"] ELSE board
           /\ appt' = IF c.was.status = to THEN appt
                      ELSE [appt EXCEPT ![r] =
                              [appt[r] EXCEPT !.status = to, !.loose = @ \/ s \in stale,
                                        !.cancelledAt = @ \/ to = "cancelled"]]
  <2> DEFINE new == [appt[r] EXCEPT !.status = to, !.loose = loose, !.cancelledAt = at]
             row == IF c.was.status = to THEN appt[r] ELSE new
  <2>1. board' \in [Leads -> {"unborn", "new_lead", "contacted", "lost"}]
    BY <1>2, <1>5 DEF TypeOK
  <2>2. appt' = IF c.was.status = to THEN appt ELSE [appt EXCEPT ![r] = new]
    BY <1>5, Zenon
  <2>3. appt' = [appt EXCEPT ![r] = row]
    <3> HIDE DEF new, r
    <3> QED BY <1>2, <1>3, <2>2 DEF TypeOK
  <2>4. /\ to = "cancelled" => at
        /\ appt[r].cancelledAt => at
    OBVIOUS
  <2>5. Edited(appt[r], appt[r])
    BY <1>2, <1>3
  <2> HIDE DEF r, loose, at, to
  <2>6. Edited(appt[r], new)
    BY <1>3, <2>4 DEF Edited, Rows, Live, Over
  <2>7. Edited(appt[r], row)
    BY <2>5, <2>6
  <2> HIDE DEF row
  <2> QED BY <1>1, <1>3, <2>1, <2>3, <2>7, IdleFollows, OneEditKeeps
<1> QED BY <1>1, <1>4, <1>5 DEF Advance

\* A reassignment commits: it changes the rep and nothing of the slot.
LEMMA CommitReassignKeeps ==
    ASSUME IInv, NEW s \in Sessions, CommitReassign(s)
    PROVE  IInv'
<1> DEFINE arg == call[s].arg
<1>1. /\ TypeOK /\ CallOK(call[s], appt) /\ call[s].at = "commit" /\ call[s].op = "assign"
      /\ \A a \in Appointments : appt[a] \in Rows /\ Edited(appt[a], appt[a])
  BY Start DEF CommitReassign, Step
<1>2. arg \in Reps \cup {Nobody}
  BY <1>1 DEF CallOK
<1>3. PICK rows : appt' = [a \in Appointments |->
          IF a \in rows THEN [appt[a] EXCEPT !.rep = arg, !.moved = TRUE] ELSE appt[a]]
  BY DEF CommitReassign
<1> HIDE DEF arg
<1>4. \A a \in Appointments : Edited(appt[a], [appt[a] EXCEPT !.rep = arg, !.moved = TRUE])
  BY <1>1, <1>2 DEF Edited, Rows, TypeOK
<1>5. /\ appt' = [a \in Appointments |-> appt'[a]]
      /\ \A a \in Appointments : Edited(appt[a], appt'[a])
  BY <1>1, <1>3, <1>4
<1>6. /\ board' \in [Leads -> {"unborn", "new_lead", "contacted", "lost"}]
      /\ Commit(s, Idle) /\ UNCHANGED asked
  BY <1>1 DEF CommitReassign, TypeOK
<1> QED BY <1>5, <1>6, IdleFollows, EditCommitKeeps
\* What a new row needs of the other rows: none of them begins its chain there.
LEMMA NobodysRoot ==
    ASSUME RootsExist, NEW a \in Appointments, ~Exists(a), NEW b \in Appointments,
           Exists(b)
    PROVE  appt[b].root # a
BY DEF RootsExist

\* An INSERT of a row that begins a chain of its own.
LEMMA FirstInsertKeeps ==
    ASSUME IInv, NEW s \in Sessions, NEW next, Commit(s, next),
           NEW a \in Appointments, ~Exists(a), NEW new \in Rows,
           appt' = [appt EXCEPT ![a] = new],
           new.status = "confirmed", new.root = a, new.form = NoForm \/ Unique(new.form),
           ~new.loose =>
               /\ new.form # NoForm /\ new.slot # {} =>
                      Cardinality(Standing(new.slot)) < Capacity
               /\ RepFree(new.rep, new.slot),
           CallOK(next, appt'), next.at # "commit", UNCHANGED <<board, asked>>
    PROVE  IInv'
<1>1. TypeOK /\ RootsExist /\ \A b \in Appointments : Edited(appt[b], appt[b])
  BY Start
<1>2. /\ appt'[a] = new /\ \A b \in Appointments \ {a} : appt'[b] = appt[b]
      /\ appt' = [b \in Appointments |-> appt'[b]]
  BY <1>1 DEF TypeOK
<1>3. \A b \in Appointments \ {a} : Edited(appt[b], appt'[b])
  BY <1>1, <1>2
<1>4. \A b \in Trusted' \ {a} : appt'[b].root # appt'[a].root
  <2> SUFFICES ASSUME NEW b \in Trusted', b # a PROVE appt[b].root # a
    BY <1>2 DEF Trusted
  <2>1. b \in Appointments /\ Exists(b)
    BY <1>2 DEF Trusted, Exists, Live
  <2> QED BY <1>1, <2>1, NobodysRoot
<1>5. appt'[a] \in Rows /\ appt'[a].status = "confirmed" /\ appt'[a].root = a
      /\ (appt'[a].form = NoForm \/ Unique(appt'[a].form))
  BY <1>2
<1>6. ~appt'[a].loose =>
               /\ \A b \in Trusted' \ {a} : appt'[b].root # appt'[a].root
               /\ (appt'[a].form # NoForm \/ appt'[a].root # a) /\ appt'[a].slot # {} =>
                      Cardinality(Standing(appt'[a].slot)) < Capacity
               /\ appt'[a].moved \/ RepFree(appt'[a].rep, appt'[a].slot)
  BY <1>2, <1>4
<1> QED BY <1>2, <1>3, <1>5, <1>6, InsertCommitKeeps

\* A new visit commits, into a row that no booking has.
LEMMA CommitCreateKeeps ==
    ASSUME IInv, NEW s \in Sessions, CommitCreate(s)
    PROVE  IInv'
<1> DEFINE c == call[s]
           loose == s \in stale
<1>1. PICK a \in Appointments :
          /\ Free(a)
          /\ appt' = [appt EXCEPT ![a] =
                 [NoRow EXCEPT !.slot = c.slot, !.status = "confirmed", !.form = c.arg,
                               !.root = a, !.loose = loose]]
          /\ Commit(s, [op |-> "create", at |-> "promote", row |-> a])
  BY DEF CommitCreate
<1> DEFINE new == [NoRow EXCEPT !.slot = c.slot, !.status = "confirmed", !.form = c.arg,
                                !.root = a, !.loose = loose]
           next == [op |-> "create", at |-> "promote", row |-> a]
<1>2. /\ TypeOK /\ CallOK(c, appt) /\ c.at = "commit" /\ c.op = "create"
      /\ s \notin stale => Sure(c)
  BY Start DEF CommitCreate, Step
<1>3. c.slot \in Grid /\ c.arg \in Submissions /\ Unique(c.arg) /\ UNCHANGED <<board, asked>>
  BY <1>2 DEF CallOK, CommitCreate
<1>4. ~loose => (c.slot # {} => Cardinality(Standing(c.slot)) < Capacity)
  BY <1>2 DEF Sure
<1>5. a \in 0..MaxId /\ loose \in BOOLEAN
  BY BookingAssumption DEF Appointments
<1> HIDE DEF c, loose
<1>6. new \in Rows
  BY <1>3, <1>5 DEF Rows, NoRow, Live, Over
<1>7. /\ new.status = "confirmed" /\ new.root = a /\ new.form = c.arg
      /\ new.slot = c.slot /\ new.rep = Nobody /\ new.loose = loose
  BY DEF NoRow
<1>8. RepFree(new.rep, new.slot)
  BY <1>7 DEF RepFree
<1> HIDE DEF new
<1>9. appt'[a].status # "none"
  BY <1>1, <1>2, <1>7 DEF TypeOK, new
<1>10. CallOK(next, appt') /\ next.at # "commit"
  BY <1>9 DEF CallOK
<1>11. ~Exists(a)
  BY <1>1 DEF Free
<1>12. appt' = [appt EXCEPT ![a] = new] /\ Commit(s, next)
  BY <1>1 DEF new
<1> HIDE DEF next
<1> QED BY <1>3, <1>4, <1>6, <1>7, <1>8, <1>10, <1>11, <1>12, FirstInsertKeeps

\* A booking by staff commits, into a row that no booking has.
LEMMA CommitStaffBookKeeps ==
    ASSUME IInv, NEW s \in Sessions, CommitStaffBook(s)
    PROVE  IInv'
<1> DEFINE c == call[s]
           loose == s \in stale
<1>1. PICK a \in Appointments :
          /\ Free(a)
          /\ appt' = [appt EXCEPT ![a] =
                 [NoRow EXCEPT !.slot = c.slot, !.status = "confirmed", !.rep = c.arg.rep,
                               !.lead = c.arg.lead, !.root = a, !.loose = loose]]
  BY DEF CommitStaffBook
<1> DEFINE new == [NoRow EXCEPT !.slot = c.slot, !.status = "confirmed", !.rep = c.arg.rep,
                                !.lead = c.arg.lead, !.root = a, !.loose = loose]
<1>2. /\ TypeOK /\ CallOK(c, appt) /\ c.at = "commit" /\ c.op = "staff"
      /\ s \notin stale => Sure(c)
  BY Start DEF CommitStaffBook, Step
<1>3. /\ c.slot \in StaffSlots /\ c.arg.rep \in Reps \cup {Nobody}
      /\ c.arg.lead \in Leads \cup {NoLead} /\ UNCHANGED <<board, asked>> /\ Commit(s, Idle)
  BY <1>2 DEF CallOK, CommitStaffBook
<1>4. ~loose => RepFree(c.arg.rep, c.slot)
  BY <1>2 DEF Sure
<1>5. a \in 0..MaxId /\ loose \in BOOLEAN
  BY BookingAssumption DEF Appointments
<1> HIDE DEF c, loose
<1>6. new \in Rows
  BY <1>3, <1>5 DEF Rows, NoRow, Live, Over
<1>7. /\ new.status = "confirmed" /\ new.root = a /\ new.form = NoForm
      /\ new.slot = c.slot /\ new.rep = c.arg.rep /\ new.loose = loose
  BY DEF NoRow
<1> HIDE DEF new
<1>8. ~Exists(a)
  BY <1>1 DEF Free
<1>9. appt' = [appt EXCEPT ![a] = new]
  BY <1>1 DEF new
<1> QED BY <1>3, <1>4, <1>6, <1>7, <1>8, <1>9, IdleFollows, FirstInsertKeeps

\* A move by the customer: the original stands no more, and the new row takes
\* its place in the chain.
LEMMA CommitRescheduleKeeps ==
    ASSUME IInv, NEW s \in Sessions, CommitReschedule(s)
    PROVE  IInv'
<1> DEFINE c == call[s]
           r == c.row
           loose == s \in stale \/ appt[r].loose
           old == [Original(r) EXCEPT !.loose = loose]
<1>1. PICK a \in Appointments :
          /\ Free(a)
          /\ appt' = [appt EXCEPT
                 ![a] = [NoRow EXCEPT !.slot = c.slot, !.status = "confirmed",
                             !.rep = c.was.rep, !.lead = c.was.lead,
                             !.root = appt[r].root, !.loose = loose, !.moved = TRUE],
                 ![r] = old]
  BY DEF CommitReschedule
<1> DEFINE new == [NoRow EXCEPT !.slot = c.slot, !.status = "confirmed",
                             !.rep = c.was.rep, !.lead = c.was.lead,
                             !.root = appt[r].root, !.loose = loose, !.moved = TRUE]
<1>2. /\ TypeOK /\ CallOK(c, appt) /\ c.at = "commit" /\ c.op = "reschedule"
      /\ s \notin stale => Sure(c)
      /\ \A b \in Appointments : appt[b] \in Rows /\ Edited(appt[b], appt[b])
  BY Start DEF CommitReschedule, Step
<1>3. /\ r \in Appointments /\ appt[r].status # "none" /\ c.slot \in Grid
      /\ c.was.rep \in Reps \cup {Nobody} /\ c.was.lead \in Leads \cup {NoLead}
      /\ UNCHANGED <<board, asked>> /\ Commit(s, Idle)
  BY <1>2 DEF CallOK, OnRow, Loads, CommitReschedule
<1>4. ~loose => /\ c.slot # {} => Cardinality(Standing(c.slot)) < Capacity
                /\ r \in Trusted
  BY <1>2, <1>3 DEF Sure, Trusted
<1>5. /\ appt[r].root \in 0..MaxId /\ loose \in BOOLEAN /\ appt[r] \in Rows
      /\ appt[r].loose => loose
  BY <1>2, <1>3 DEF Rows
<1>6. ~Exists(a) /\ a # r
  BY <1>1, <1>3 DEF Free, Exists
<1>7. Edited(appt[r], old) /\ old.status = "rescheduled" /\ old.root = appt[r].root
  <2> DEFINE mid == Original(r)
  <2> HIDE DEF c, loose, r
  <2>1. /\ mid \in Rows /\ mid.slot = appt[r].slot /\ mid.root = appt[r].root
        /\ mid.form = appt[r].form /\ mid.rep = appt[r].rep /\ mid.moved = appt[r].moved
        /\ mid.status = "rescheduled" /\ mid.cancelledAt = appt[r].cancelledAt
    BY <1>5 DEF Original, Rows, Live, Over
  <2> HIDE DEF mid
  <2>2. /\ old \in Rows /\ old.slot = mid.slot /\ old.root = mid.root
        /\ old.form = mid.form /\ old.rep = mid.rep /\ old.moved = mid.moved
        /\ old.status = mid.status /\ old.cancelledAt = mid.cancelledAt
    BY <1>5, <2>1 DEF Rows, mid
  <2> HIDE DEF old
  <2> QED BY <1>3, <2>1, <2>2 DEF Edited, Live
<1> HIDE DEF c, r, loose
<1>8. new \in Rows
  BY <1>3, <1>5 DEF Rows, NoRow, Live, Over
<1>9. /\ new.status = "confirmed" /\ new.root = appt[r].root /\ new.form = NoForm
      /\ new.slot = c.slot /\ new.loose = loose /\ new.moved = TRUE
  BY DEF NoRow
<1>10. appt' = [appt EXCEPT ![a] = new, ![r] = old]
  BY <1>1
<1> HIDE DEF new, old
<1>11. /\ appt'[a] = new /\ appt'[r] = old
       /\ \A b \in Appointments \ {a, r} : appt'[b] = appt[b]
       /\ appt' = [b \in Appointments |-> appt'[b]]
  BY <1>2, <1>3, <1>6, <1>10 DEF TypeOK
<1>12. \A b \in Appointments \ {a} : Edited(appt[b], appt'[b])
  BY <1>2, <1>7, <1>11
<1>13. ~new.loose => \A b \in Trusted' \ {a} : appt'[b].root # new.root
  <2> SUFFICES ASSUME ~loose, NEW b \in Trusted', b # a, appt'[b].root = appt[r].root
               PROVE  FALSE
    BY <1>9
  <2>1. b # r
    BY <1>7, <1>11 DEF Trusted, Live
  <2>2. b \in Trusted /\ appt[b].root = appt[r].root
    BY <1>11, <2>1 DEF Trusted
  <2>3. r \in Trusted
    BY <1>4
  <2> QED BY <2>1, <2>2, <2>3 DEF IInv, NotOverbooked, OneVisitPerBooking
<1>14. /\ appt'[a] \in Rows /\ appt'[a].status = "confirmed" /\ appt'[a].form = NoForm
       /\ \E b \in Appointments : Exists(b) /\ appt'[a].root = appt[b].root
  BY <1>3, <1>8, <1>9, <1>11 DEF Exists
<1>15. ~appt'[a].loose =>
               /\ \A b \in Trusted' \ {a} : appt'[b].root # appt'[a].root
               /\ (appt'[a].form # NoForm \/ appt'[a].root # a) /\ appt'[a].slot # {} =>
                      Cardinality(Standing(appt'[a].slot)) < Capacity
               /\ appt'[a].moved \/ RepFree(appt'[a].rep, appt'[a].slot)
  BY <1>4, <1>9, <1>11, <1>13
<1> QED BY <1>3, <1>6, <1>11, <1>12, <1>14, <1>15, IdleFollows, InsertCommitKeeps

-----------------------------------------------------------------------------
\* The empty calendar satisfies the invariant.
LEMMA InitKeeps == Init => IInv
<1> SUFFICES ASSUME Init PROVE IInv
  OBVIOUS
<1> USE DEF Init
<1>1. \A a \in Appointments : appt[a] = NoRow
  OBVIOUS
<1>2. NoRow \in Rows /\ NoRow.status = "none" /\ NoRow.form = NoForm /\ ~NoRow.cancelledAt
  BY BookingAssumption DEF NoRow, Rows
<1>3. TypeOK
  BY <1>1, <1>2, BookingAssumption DEF TypeOK
<1>4. Trusted = {}
  BY <1>1, <1>2 DEF Trusted, Live
<1>5. OneVisitPerBooking
  BY <1>1, <1>2, <1>3, <1>4 DEF OneVisitPerBooking
<1>6. RepsNotDoubleBooked
  BY <1>4 DEF RepsNotDoubleBooked
<1>7. CapacityUnlessRaced
  <2> SUFFICES ASSUME NEW u \in UNION Grid
               PROVE  Cardinality({a \in Trusted : ByCustomer(a) /\ u \in appt[a].slot})
                         <= Capacity
    BY DEF CapacityUnlessRaced
  <2>1. {a \in Trusted : ByCustomer(a) /\ u \in appt[a].slot} = {}
    BY <1>4
  <2>2. Cardinality({}) = 0 /\ Capacity \in Nat
    BY FS_EmptySet, BookingAssumption
  <2>3. Cardinality({a \in Trusted : ByCustomer(a) /\ u \in appt[a].slot}) = 0
    BY <2>1, <2>2
  <2> QED BY <2>2, <2>3
<1>8. RootsExist
  BY <1>1, <1>2 DEF RootsExist, Exists
<1>9. \A s \in Sessions : call[s] = Idle
  OBVIOUS
<1>10. CallOK(Idle, appt) /\ Idle.at # "commit"
  BY DEF CallOK, Idle
<1> QED BY <1>5, <1>6, <1>7, <1>8, <1>9, <1>10 DEF IInv, NotOverbooked

\* Every step keeps the invariant, action by action.
LEMMA NextKeeps ==
    ASSUME IInv, [Next]_vars
    PROVE  IInv'
<1>1. ASSUME NEW s \in Sessions,
             \/ Submit(s) \/ CheckSlot(s) \/ CommitCreate(s) \/ Promote(s)
             \/ FollowReschedule(s) \/ CommitReschedule(s)
             \/ FollowCancel(s) \/ CommitCancel(s) \/ Mirror(s)
             \/ StaffBook(s) \/ CommitStaffBook(s)
             \/ OpenPatch(s) \/ CommitPatch(s)
             \/ OpenDesk(s) \/ CommitDesk(s)
             \/ Reassign(s) \/ CommitReassign(s)
             \/ GiveUp(s)
      PROVE  IInv'
  BY <1>1, SubmitKeeps, CheckSlotKeeps, CommitCreateKeeps, PromoteKeeps, OpenLinkKeeps,
     CommitRescheduleKeeps, CommitCancelKeeps, MirrorKeeps, StaffBookKeeps,
     CommitStaffBookKeeps, OpenStaffKeeps, CommitPatchKeeps, CommitDeskKeeps,
     CommitReassignKeeps, GiveUpKeeps
<1>2. ASSUME UNCHANGED vars PROVE IInv'
  BY <1>2 DEF vars, IInv, NotOverbooked, OneVisitPerBooking, CapacityUnlessRaced,
     RepsNotDoubleBooked, TypeOK, RootsExist, Trusted, ByCustomer, Exists, Sure, RepFree,
     Standing
<1> QED BY <1>1, <1>2 DEF Next

\* The inductive invariant holds in every state the requests can reach.
THEOREM BookingInvariant == Spec => []IInv
BY InitKeeps, NextKeeps, PTL DEF Spec

\* No place, no person and no visit is promised twice, unless two requests
\* crossed or staff put the visit back: for any capacity, any slots and any
\* number of requests in flight.
THEOREM NotOverbookedHolds == Spec => []NotOverbooked
<1>1. IInv => NotOverbooked
  BY DEF IInv
<1> QED BY <1>1, BookingInvariant, PTL

\* What a customer does through a link is done to a visit that still stands,
\* through a link no later revocation has killed, unless another request
\* committed in between.
THEOREM LinksHonouredHolds == Spec => LinksHonoured
<1>1. ASSUME IInv
      PROVE  \A s \in Sessions :
                 call[s].op \in {"reschedule", "cancel"} /\ call[s].at = "commit"
                     /\ appt' # appt /\ call'[s] # call[s] /\ s \notin stale
                 => LET a == call[s].row IN
                    appt[a].status \in Live /\ (appt[a].revoked => call[s].arg = "fresh")
  BY <1>1 DEF IInv, Sure
<1> QED BY <1>1, BookingInvariant, PTL DEF LinksHonoured

\* Only a desk request that read the board before can bring back a lead that
\* the customer's cancellation closed.
THEOREM LostStaysHolds == Spec => LostStays
<1> DEFINE A == \A l \in Leads : board[l] = "lost" /\ board'[l] # "lost"
                  => \E s \in Sessions : call[s].op = "desk" /\ call[s].arg.column # "lost"
<1>1. ASSUME IInv, [Next]_vars PROVE A
  <2> SUFFICES ASSUME NEW l \in Leads, board[l] = "lost", board'[l] # "lost"
               PROVE  \E s \in Sessions : call[s].op = "desk" /\ call[s].arg.column # "lost"
    OBVIOUS
  <2>1. board \in [Leads -> {"unborn", "new_lead", "contacted", "lost"}]
    BY <1>1 DEF IInv, NotOverbooked, OneVisitPerBooking, TypeOK
  <2>2. PICK s \in Sessions : Promote(s) \/ Mirror(s) \/ CommitDesk(s)
    BY <1>1 DEF Next, vars, Begin, BeginStaff, Submit, CheckSlot, CommitCreate,
       FollowReschedule, FollowCancel, OpenLink, CommitReschedule, CommitCancel, StaffBook,
       CommitStaffBook, OpenPatch, CommitPatch, OpenDesk, Reassign, CommitReassign, GiveUp
  <2>3. CASE Promote(s)
    BY <2>1, <2>3 DEF Promote
  <2>4. CASE Mirror(s)
    BY <2>1, <2>4 DEF Mirror
  <2>5. CASE CommitDesk(s)
    <3>1. call[s].op = "desk" /\ Advance(s)
      BY <2>5 DEF CommitDesk, Step
    <3>2. CASE \E m \in Leads : board[m] = "unborn" /\ board' = [board EXCEPT ![m] = "contacted"]
      BY <2>1, <3>2
    <3>3. CASE Advances(call[s].arg.column)
      BY <3>1, <3>3 DEF Advances
    <3>4. board' = board \/ (\E m \in Leads : /\ board[m] = "unborn"
                                             /\ board' = [board EXCEPT ![m] = "contacted"])
                         \/ Advances(call[s].arg.column)
      BY <3>1 DEF Advance
    <3> QED BY <3>2, <3>3, <3>4
  <2> QED BY <2>2, <2>3, <2>4, <2>5
<1>2. IInv /\ [Next]_vars => [A]_vars
  BY <1>1
<1> QED BY <1>2, BookingInvariant, PTL DEF Spec, LostStays
=============================================================================
