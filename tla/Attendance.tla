------------------------------ MODULE Attendance ------------------------------
(***************************************************************************)
(* Clocking in and out (clock_in.py), the passes that close what was       *)
(* forgotten (attendance_close.py, no_show_cron.py,                        *)
(* missing_out_punch_cron.py), what a manager may correct                  *)
(* (attendance_review.py), and the published shift all of them stamp       *)
(* (staff_schedule.py).  One member of staff and one shift: rows of two    *)
(* people never meet.                                                      *)
(*                                                                         *)
(* Every request and every pass is a transaction at READ COMMITTED without *)
(* row locks: it loads and checks its rows in one step and writes them,    *)
(* with COMMIT, in a later one, or never.  Nothing but the checks keeps    *)
(* two punches of one direction apart.                                     *)
(***************************************************************************)
EXTENDS Integers, FiniteSets

CONSTANTS
    Tasks,        \* requests and passes under way
    MaxPunches,   \* bound on the rows of staff_punches
    LastTap,      \* bound on the time of a clock-in
    MaxTime,      \* bound on the clock
    MaxEdits,     \* bound on calls that rewrite the timeline
    Day,          \* length of a business day; the shift is on the first one
    LateAfter,    \* start of the shift with its late_grace_minutes
    CloseAt,      \* auto_session_close_time within a day
    MaxSession    \* max_session_hours

ASSUME AttendanceAssumption ==
    /\ IsFiniteSet(Tasks)
    /\ {MaxPunches, LastTap, MaxTime, MaxEdits, LateAfter, CloseAt} \subseteq Nat
    /\ {Day, MaxSession} \subseteq Nat \ {0}

VARIABLES
    punch,    \* staff_punches, by id
    shift,    \* the published staff_schedule_entries row
    now,      \* the clock
    txn,      \* the transaction of each task
    crossed,  \* auxiliary: a punch was written over another one's head
    stale,    \* auxiliary: a decision was written over a row that had changed
    edits     \* auxiliary: how often a manager rewrote the timeline

attendanceVars == <<punch, shift, now, txn, crossed, stale, edits>>

Punches == 1 .. MaxPunches

NoRow == [way |-> "none"]
PunchRows == {NoRow} \cup
    [way : {"in", "out"}, at : 0 .. now, live : BOOLEAN,
     hours : {"none", "review", "settled"}]
Shifts ==
    [status : {"scheduled", "present", "late", "no_show", "missing_out", "excused"},
     cin : {0} \cup Punches, cout : {0} \cup Punches]

NoCall == [op |-> "idle", step |-> "none"]

AttendanceInit ==
    /\ punch = [p \in Punches |-> NoRow]
    /\ shift = [status |-> "scheduled", cin |-> 0, cout |-> 0]
    /\ now = 0
    /\ txn = [s \in Tasks |-> NoCall]
    /\ crossed = FALSE /\ stale = FALSE /\ edits = 0

-----------------------------------------------------------------------------
(***************************************************************************)
(* The timeline                                                            *)
(***************************************************************************)
Stored == {p \in Punches : punch[p] # NoRow}
Live == {p \in Stored : punch[p].live}

\* ORDER BY punched_at, id.
Before(p, q) == punch[p].at < punch[q].at \/ (punch[p].at = punch[q].at /\ p < q)

\* The last punch that is not void; 0 when there is none.
Latest ==
    IF Live = {} THEN 0 ELSE CHOOSE p \in Live : \A q \in Live \ {p} : Before(q, p)

\* current_status
OnClock == Latest # 0 /\ punch[Latest].way = "in"

\* Where _decide_close and _past_date_decision end a session, when its time has
\* come.  A closing time need not be configured.
ClosingTime(at) ==
    LET today == (at \div Day) * Day + CloseAt
    IN  IF today <= at THEN today + Day ELSE today

Cutoffs(at) ==
    IF now - at >= MaxSession THEN {at + MaxSession}
    ELSE {t \in {ClosingTime(at)} : now >= t}

-----------------------------------------------------------------------------
(***************************************************************************)
(* Requests and passes begin: they load their rows and check them          *)
(***************************************************************************)
\* The calls that add a punch, and those that only touch one.
Inserts == {"in", "out", "force", "auto", "resolve"}
Reviews == {"adjust", "void", "confirm"}

\* Ids not taken by a row or a call under way; a clock-in takes that of its
\* clock-out with it.  Everything but the closing pass leaves one for it.
Pending(ops) == Cardinality({s \in Tasks : txn[s].op \in ops})
Free == MaxPunches - Cardinality(Stored) - 2 * Pending({"in"})
            - Pending({"out", "force", "auto", "resolve", "adjust", "void"})

\* The edits so far and those under way stay within the bound.
MayEdit == edits + Pending({"resolve", "adjust", "void"}) < MaxEdits

Load(s, op, step, target, at) ==
    /\ txn[s] = NoCall
    /\ txn' = [txn EXCEPT ![s] =
           [op |-> op, step |-> step, target |-> target, at |-> at,
            last |-> IF op \in Inserts THEN Latest ELSE 0,
            row |-> IF target = 0 THEN NoRow ELSE punch[target],
            shift |-> IF op \in Reviews THEN NoRow ELSE shift]]
    /\ UNCHANGED <<punch, shift, now, crossed, stale, edits>>

\* punch_in; a tap while on the clock is a repeated tap or refused, and changes
\* nothing either way.  The faulty form does not look.
BeginInAnyway(s) ==
    now <= LastTap /\ Free >= 2 /\ Load(s, "in", "write", 0, now)
BeginIn(s) ==
    now <= LastTap /\ Free >= 2 /\ ~OnClock /\ Load(s, "in", "write", 0, now)

\* punch_out, of the session the last punch opened.
BeginOut(s) == OnClock /\ Free >= 2 /\ Load(s, "out", "write", Latest, now)

\* admin_clock_out and admin_clock_out_all
BeginForce(s) == OnClock /\ Free >= 2 /\ Load(s, "force", "write", Latest, now)

\* run_auto_close_pass finds an open session past its cutoff.  The faulty form
\* only looks at the punches of today.
BeginAutoCloseToday(s) ==
    /\ OnClock /\ punch[Latest].at \div Day = now \div Day
    /\ Free >= 1
    /\ \E t \in Cutoffs(punch[Latest].at) : Load(s, "auto", "recheck", Latest, t)
BeginAutoClose(s) ==
    /\ OnClock
    /\ Free >= 1
    /\ \E t \in Cutoffs(punch[Latest].at) : Load(s, "auto", "recheck", Latest, t)

\* Its second look at the status, just before it writes.  The faulty form
\* trusts the first.
RecheckBlindly(s) ==
    /\ txn[s].op = "auto" /\ txn[s].step = "recheck"
    /\ txn' = [txn EXCEPT ![s].step = "write", ![s].last = Latest]
    /\ UNCHANGED <<punch, shift, now, crossed, stale, edits>>
Recheck(s) ==
    /\ txn[s].op = "auto" /\ txn[s].step = "recheck"
    /\ txn' = [txn EXCEPT ![s] =
           IF Latest = txn[s].target THEN [txn[s] EXCEPT !.step = "write"] ELSE NoCall]
    /\ UNCHANGED <<punch, shift, now, crossed, stale, edits>>

\* find_no_show_candidates
BeginNoShow(s) ==
    /\ shift.status = "scheduled" /\ shift.cin = 0
    /\ now > LateAfter
    /\ Load(s, "no_show", "write", 0, 0)

\* find_missing_out_candidates
BeginMissingOut(s) ==
    /\ shift.cin # 0 /\ shift.cout = 0
    /\ now >= Day
    /\ shift.status \notin {"missing_out", "excused"}
    /\ Load(s, "missing_out", "write", 0, 0)

\* resolve_missing_out_punch, with the time the manager names.  That the shift
\* may have its clock-out by now is not looked at.
BeginResolve(s) ==
    /\ shift.status = "missing_out" /\ shift.cin # 0
    /\ Free >= 2 /\ MayEdit
    /\ \E t \in punch[shift.cin].at + 1 .. now : Load(s, "resolve", "write", shift.cin, t)

\* mark_excused; the faulty form excuses whoever is marked late or absent.
BeginExcuseLate(s) ==
    shift.status \in {"no_show", "late"} /\ Load(s, "excuse", "write", 0, 0)
BeginExcuse(s) == shift.status = "no_show" /\ Load(s, "excuse", "write", 0, 0)

\* manual_adjust
BeginAdjust(s, p) ==
    /\ p \in Live /\ Free >= 2 /\ MayEdit
    /\ \E t \in 0 .. LastTap : t # punch[p].at /\ t <= now /\ Load(s, "adjust", "write", p, t)

\* void_punch
BeginVoid(s, p) ==
    p \in Live /\ Free >= 2 /\ MayEdit /\ Load(s, "void", "write", p, 0)

\* confirm_hours; settled hours are those adjusted or confirmed.
BeginConfirm(s, p) ==
    /\ p \in Stored /\ punch[p].hours = "review"
    /\ Load(s, "confirm", "write", p, 0)

-----------------------------------------------------------------------------
(***************************************************************************)
(* Flush and COMMIT                                                        *)
(***************************************************************************)
NewId == CHOOSE p \in Punches \ Stored : \A q \in Punches \ Stored : p <= q

Punctual(at) == IF at > LateAfter THEN "late" ELSE "present"

\* stamp_clock_in, on the row as the call loaded it; its columns go over the row
\* as committed by now.  The shift is that of the punch's business date.  The
\* faulty form forgets that a late arrival undoes a no-show.
StampInLateOnly(c, p) ==
    IF c.at < Day /\ c.shift.cin = 0
    THEN [shift EXCEPT !.cin = p,
              !.status = IF c.shift.status = "scheduled" THEN Punctual(c.at) ELSE @]
    ELSE shift
StampIn(c, p) ==
    IF c.at < Day /\ c.shift.cin = 0
    THEN [shift EXCEPT !.cin = p,
              !.status = IF c.shift.status \in {"scheduled", "no_show", "missing_out"}
                         THEN Punctual(c.at) ELSE @]
    ELSE shift

\* stamp_clock_out, on the shift the closed session was stamped on.
StampOut(c, p) ==
    IF c.shift.cin = c.target /\ c.shift.cout = 0 THEN [shift EXCEPT !.cout = p] ELSE shift

PunchRow(way, at, hours) == [way |-> way, at |-> at, live |-> TRUE, hours |-> hours]

\* Closing for somebody else puts both punches up for review, save hours that
\* were settled.  The faulty form asks for review whatever they are.
ReviewedAlways(c) == [punch[c.target] EXCEPT !.hours = "review"]
Reviewed(c) ==
    [punch[c.target] EXCEPT !.hours = IF c.row.hours = "none" THEN "review" ELSE @]

Written(c) ==
    CASE c.op = "in"  -> [punch EXCEPT ![NewId] = PunchRow("in", c.at, "none")]
      [] c.op = "out" -> [punch EXCEPT ![NewId] = PunchRow("out", c.at, "none")]
      [] c.op \in {"force", "auto"} ->
             [punch EXCEPT ![NewId] = PunchRow("out", c.at, "review"),
                           ![c.target] = Reviewed(c)]
      [] c.op = "resolve" -> [punch EXCEPT ![NewId] = PunchRow("out", c.at, "settled")]
      [] c.op = "adjust"  ->
             [punch EXCEPT ![c.target] = PunchRow(punch[c.target].way, c.at, "settled")]
      [] c.op = "void"    -> [punch EXCEPT ![c.target].live = FALSE]
      [] c.op = "confirm" -> [punch EXCEPT ![c.target].hours = "settled"]
      [] OTHER            -> punch

Stamped(c) ==
    CASE c.op = "in" -> StampIn(c, NewId)
      [] c.op \in {"out", "force", "auto"} -> StampOut(c, NewId)
      [] c.op = "resolve" ->
             [shift EXCEPT !.cout = NewId, !.status = Punctual(c.row.at)]
      [] c.op = "no_show"     -> [shift EXCEPT !.status = "no_show"]
      [] c.op = "missing_out" -> [shift EXCEPT !.status = "missing_out"]
      [] c.op = "excuse"      -> [shift EXCEPT !.status = "excused"]
      [] OTHER -> shift

\* The last punch is no longer the one the call has seen; the rows it decides
\* about are no longer what it loaded.
Crossed(c) == c.op \in Inserts /\ c.last # Latest
Stale(c) ==
    \/ c.target # 0 /\ punch[c.target] # c.row
    \/ c.op \notin Reviews /\ shift # c.shift

\* A manager moved or removed a punch, or closed a session that was not open.
Edits(c) == c.op \in {"adjust", "void"} \/ (c.op = "resolve" /\ Latest # c.target)

Flush(s) ==
    LET c == txn[s]
    IN  /\ c.step = "write"
        /\ punch' = Written(c)
        /\ shift' = Stamped(c)
        /\ crossed' = (crossed \/ Crossed(c))
        /\ stale' = (stale \/ Stale(c))
        /\ edits' = edits + IF Edits(c) THEN 1 ELSE 0
        /\ txn' = [txn EXCEPT ![s] = NoCall]
        /\ UNCHANGED now

Tick ==
    /\ now < MaxTime
    /\ now' = now + 1
    /\ UNCHANGED <<punch, shift, txn, crossed, stale, edits>>

-----------------------------------------------------------------------------
Request(s) ==
    \/ BeginIn(s) \/ BeginOut(s) \/ BeginForce(s) \/ BeginResolve(s) \/ BeginExcuse(s)
    \/ \E p \in Punches : BeginAdjust(s, p) \/ BeginVoid(s, p) \/ BeginConfirm(s, p)

Pass(s) == BeginAutoClose(s) \/ BeginNoShow(s) \/ BeginMissingOut(s)

AttendanceNext ==
    \/ \E s \in Tasks : Request(s) \/ Pass(s) \/ Recheck(s) \/ Flush(s)
    \/ Tick

\* Whatever users do, the system goes on as long as it can: time passes, the
\* daily closing pass runs, and what began commits.
Fairness ==
    WF_attendanceVars(Tick \/ \E s \in Tasks : BeginAutoClose(s) \/ Recheck(s) \/ Flush(s))

AttendanceSpec == AttendanceInit /\ [][AttendanceNext]_attendanceVars /\ Fairness

-----------------------------------------------------------------------------
(***************************************************************************)
(* Properties                                                              *)
(***************************************************************************)
\* Rows and bounds are what the columns allow, no punch is dated in the future
\* (the closing pass only writes a cutoff that has passed), and the ids the open
\* calls will need are there.
AttendanceTypes ==
    /\ punch \in [Punches -> PunchRows]
    /\ shift \in Shifts
    /\ now \in 0 .. MaxTime
    /\ {crossed, stale} \subseteq BOOLEAN
    /\ edits \in 0 .. MaxEdits
    /\ Free >= 0

\* The live punches strictly between two of them.
Between(p, q) == {r \in Live : Before(p, r) /\ Before(r, q)}

\* Unless two calls crossed or a manager rewrote the timeline, clock-ins and
\* clock-outs take turns, starting with a clock-in: the closing pass, whose
\* punches are dated back to the cutoff, never leaves two of a kind
\* (attendance_close.py:217).
PunchesAlternate ==
    ~crossed /\ edits = 0 =>
        /\ \A p, q \in Live : Before(p, q) /\ Between(p, q) = {} => punch[p].way # punch[q].way
        /\ \A p \in Live : (\A q \in Live \ {p} : Before(p, q)) => punch[p].way = "in"

\* Unless a decision was written over a changed row, a shift marked as not
\* attended has no clock-in, and one marked as attended has (no_show_cron.py:15:
\* a late arrival undoes what the pass had marked).
StatusMatchesPunches ==
    ~stale => /\ shift.status \in {"scheduled", "no_show"} => shift.cin = 0
              /\ shift.status \in {"present", "late", "missing_out"} => shift.cin # 0

\* Unless calls crossed or the timeline was rewritten, the two punches a shift
\* links are one session: the clock-out is the punch right after the clock-in
\* (stamp_clock_out finds the shift by its clock-in).
LinksOneSession ==
    ~crossed /\ ~stale /\ edits = 0 /\ shift.cout # 0 =>
        /\ shift.cin \in Live /\ shift.cout \in Live
        /\ punch[shift.cin].way = "in" /\ punch[shift.cout].way = "out"
        /\ Before(shift.cin, shift.cout) /\ Between(shift.cin, shift.cout) = {}

\* Payroll and schedule read one history: the punches take turns and the shift
\* tells what they tell.
ShiftMatchesPunches ==
    AttendanceTypes /\ PunchesAlternate /\ StatusMatchesPunches /\ LinksOneSession

\* Unless a decision was written over a changed row, hours a manager has settled
\* never return to the review queue (attendance_close.py:249), an excused
\* absence stays excused, and a shift keeps the clock-in it was first given.
DecisionsStay ==
    [][~stale' =>
          /\ \A p \in Stored :
                punch[p].hours = "settled" => punch'[p].hours = "settled"
          /\ shift.status = "excused" => shift'.status = "excused"
          /\ shift.cin # 0 => shift'.cin = shift.cin]_attendanceVars

\* Whoever is on the clock is off it in the end, even if no clock-out is ever
\* tapped (attendance_close.py:3).
SessionsEnd == OnClock ~> ~OnClock
=============================================================================
