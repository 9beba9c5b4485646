----------------------------- MODULE StaffSchedule -----------------------------
(***************************************************************************)
(* The weekly schedule (staff_schedule.py) against time off (time_off.py): *)
(* entries are drafted, published, moved, retracted and deleted while time *)
(* off is requested, amended and decided.                                  *)
(*                                                                         *)
(* Every request is a transaction at READ COMMITTED: it loads its rows     *)
(* without a lock and checks them, may take row locks with FOR UPDATE, and *)
(* writes the columns it assigned at its flush, which is one step with     *)
(* COMMIT.  A SELECT FOR UPDATE chooses its rows first (Look) and then     *)
(* waits for those others hold (Lock).  Two intervals overlap when they    *)
(* are the same slot.                                                      *)
(***************************************************************************)
EXTENDS Naturals, FiniteSets

CONSTANTS
    Sessions,   \* requests in flight
    Users,      \* sales staff
    Slots,      \* intervals of the week
    Entries,    \* staff_schedule_entries
    Requests    \* time_off_requests

\* A row is an entry or a request for time off, never both.
ASSUME ScheduleAssumption == Entries \cap Requests = {}

VARIABLES
    entry,      \* the committed shifts
    off,        \* the committed time off requests
    call,       \* the transaction of each session
    raced       \* auxiliary: some request committed on checks that no longer held

vars == <<entry, off, call, raced>>

None == [status |-> "none"]
Row(st, u, k) == [status |-> st, user |-> u, slot |-> k]
EntryRows == {None} \cup [status : {"draft", "published"}, user : Users, slot : Slots]
OffRows == {None} \cup
    [status : {"pending", "approved", "denied", "cancelled"}, user : Users, slot : Slots]

\* What a request knows of each of some rows.
Nothing == [x \in {} |-> None]
Only(x, row) == [y \in {x} |-> row]
Joined(f, g) == [x \in DOMAIN f \cup DOMAIN g |-> IF x \in DOMAIN f THEN f[x] ELSE g[x]]

\* loaded: the rows the request loaded.  write: the rows as it leaves them.
\* found: what it locked for each of them.  wanted: what it waits to lock.
Ready(op, loaded, write) ==
    [op |-> op, step |-> "flush", loaded |-> loaded, write |-> write,
     found |-> Nothing, wanted |-> Nothing]

Idle == [Ready("idle", Nothing, Nothing) EXCEPT !.step = "none"]

Init ==
    /\ entry = [e \in Entries |-> None]
    /\ off = [o \in Requests |-> None]
    /\ call = [s \in Sessions |-> Idle]
    /\ raced = FALSE

-----------------------------------------------------------------------------
(***************************************************************************)
(* What the checks find                                                    *)
(***************************************************************************)
Over(row, other) == row # None /\ other # None /\ row.user = other.user /\ row.slot = other.slot

\* _check_duplicate, for a row that is or becomes entry e.
Duplicates(e, row) == {d \in Entries \ {e} : Over(entry[d], row)}

\* _check_time_off_conflict; the FOR UPDATE variant wants the pending ones too.
OffOver(row, statuses) == {o \in Requests : off[o].status \in statuses /\ Over(off[o], row)}

LockedOff(row) == OffOver(row, {"pending", "approved"})

\* _published_schedule_conflicts_locked
PublishedOver(row) == {e \in Entries : entry[e].status = "published" /\ Over(entry[e], row)}

\* Nobody else holds these rows; held until the transaction ends.  The faulty
\* form does not wait.
Held(c) == UNION {c.found[x] : x \in DOMAIN c.found}
FreeAtOnce(s, rows) == TRUE
FreeFor(s, rows) == \A t \in Sessions \ {s} : Held(call[t]) \cap rows = {}

-----------------------------------------------------------------------------
(***************************************************************************)
(* Requests on the schedule begin                                          *)
(***************************************************************************)
Begin(s, c) ==
    /\ call[s] = Idle
    /\ call' = [call EXCEPT ![s] = c]
    /\ UNCHANGED <<entry, off, raced>>

\* An id no row has and no call under way knows.
Unused(e) == entry[e] = None /\ \A t \in Sessions : e \notin DOMAIN call[t].loaded

\* create_entry, as a draft or published at once.
BeginCreate(s, e) ==
    /\ Unused(e)
    /\ \E st \in {"draft", "published"}, u \in Users, k \in Slots :
          LET row == Row(st, u, k)
          IN  /\ Duplicates(e, row) = {}
              /\ st = "published" => OffOver(row, {"approved"}) = {}
              /\ Begin(s, Ready("create", Only(e, None), Only(e, row)))

\* generate_draft_week: drafts for whoever it picks among those who are neither
\* on the schedule that day nor on approved time off.
BeginGenerate(s, E) ==
    /\ E # {} /\ \A e \in E : Unused(e)
    /\ \E rows \in [E -> [status : {"draft"}, user : Users, slot : Slots]] :
          /\ \A e, f \in E : e # f => rows[e] # rows[f]
          /\ \A e \in E : Duplicates(e, rows[e]) = {} /\ OffOver(rows[e], {"approved"}) = {}
          /\ Begin(s, Ready("create", [e \in E |-> None], rows))

\* update_entry, of a draft; staff see nothing of it.  The faulty form moves
\* any entry that way.
BeginMoveAny(s, e) ==
    /\ entry[e] # None
    /\ \E k \in Slots \ {entry[e].slot} :
          LET row == [entry[e] EXCEPT !.slot = k]
          IN  /\ Duplicates(e, row) = {}
              /\ Begin(s, Ready("move", Only(e, entry[e]), Only(e, row)))
BeginMove(s, e) ==
    /\ entry[e].status = "draft"
    /\ \E k \in Slots \ {entry[e].slot} :
          LET row == [entry[e] EXCEPT !.slot = k]
          IN  /\ Duplicates(e, row) = {}
              /\ Begin(s, Ready("move", Only(e, entry[e]), Only(e, row)))

\* update_published_entry, which tells the staffer.
BeginMovePublished(s, e) ==
    /\ entry[e].status = "published"
    /\ \E k \in Slots \ {entry[e].slot} :
          LET row == [entry[e] EXCEPT !.slot = k]
          IN  /\ Duplicates(e, row) = {}
              /\ OffOver(row, {"approved"}) = {}
              /\ Begin(s, Ready("edit", Only(e, entry[e]), Only(e, row)))

\* delete_entry
BeginDelete(s, e) ==
    /\ entry[e].status = "draft"
    /\ Begin(s, Ready("delete", Only(e, entry[e]), Only(e, None)))

\* retract_published_entry
BeginRetract(s, e) ==
    /\ entry[e].status = "published"
    /\ Begin(s, Ready("retract", Only(e, entry[e]), Only(e, [entry[e] EXCEPT !.status = "draft"])))

\* publish_entry and publish_week differ in how many drafts they take on: one,
\* or those of some users.
BeginPublish(s, E) ==
    /\ \A e \in E : entry[e].status = "draft"
    /\ Begin(s, [Ready("publish", [e \in E |-> entry[e]], Nothing)
                     EXCEPT !.step = "look"])

WeekOf(U) == {e \in Entries : entry[e].status = "draft" /\ entry[e].user \in U}

-----------------------------------------------------------------------------
(***************************************************************************)
(* Time off                                                                *)
(***************************************************************************)
\* submit_request: one INSERT.
Submit(o) ==
    /\ off[o] = None
    /\ \E u \in Users, k \in Slots : off' = [off EXCEPT ![o] = Row("pending", u, k)]
    /\ UNCHANGED <<entry, call, raced>>

\* time_off.cancel_request and a denial.
BeginClose(s, o) ==
    /\ off[o].status = "pending"
    /\ \E st \in {"cancelled", "denied"} :
          Begin(s, Ready("close", Only(o, off[o]), Only(o, [off[o] EXCEPT !.status = st])))

\* amend_request
BeginAmend(s, o) ==
    /\ off[o].status = "pending"
    /\ \E k \in Slots \ {off[o].slot} :
          Begin(s, Ready("amend", Only(o, off[o]), Only(o, [off[o] EXCEPT !.slot = k])))

\* decide_request, approving: first the published shifts in the way.
BeginApprove(s, o) ==
    /\ off[o].status = "pending"
    /\ Begin(s, [Ready("approve", Only(o, off[o]), Only(o, [off[o] EXCEPT !.status = "approved"]))
                     EXCEPT !.step = "look"])

-----------------------------------------------------------------------------
(***************************************************************************)
(* SELECT ... FOR UPDATE                                                   *)
(***************************************************************************)
\* The drafts a publication has yet to look at.
Todo(c) == {e \in DOMAIN c.loaded : e \notin DOMAIN c.write}

\* The statement chooses its rows from what is committed now.
Look(s) ==
    LET c == call[s]
    IN  /\ c.step = "look"
        /\ \/ /\ c.op = "publish"
              /\ \E e \in Todo(c) :
                    call' = [call EXCEPT ![s] =
                       [c EXCEPT !.step = "lock", !.wanted = Only(e, LockedOff(c.loaded[e]))]]
           \/ /\ c.op = "approve"
              /\ \E o \in DOMAIN c.loaded :
                    call' = [call EXCEPT ![s] =
                       [c EXCEPT !.step = "lock", !.wanted = Only(o, PublishedOver(c.loaded[o]))]]
        /\ UNCHANGED <<entry, off, raced>>

Locked(c) == [c EXCEPT !.found = Joined(c.wanted, c.found), !.wanted = Nothing]

\* publish_week has its locks: a shift over approved time off is left a draft.
LockForPublish(s) ==
    \E e \in DOMAIN call[s].wanted :
        LET c == call[s]
            blocked == c.wanted[e] \cap OffOver(c.loaded[e], {"approved"}) # {}
            row == IF blocked THEN c.loaded[e]
                   ELSE [c.loaded[e] EXCEPT !.status = "published"]
            rest == Todo(c) \ {e}
        IN  /\ c.step = "lock" /\ c.op = "publish"
            /\ FreeFor(s, c.wanted[e])
            /\ call' = [call EXCEPT ![s] =
                   [Locked(c) EXCEPT !.write = Joined(Only(e, row), c.write),
                                     !.step = IF rest = {} THEN "flush" ELSE "look"]]
            /\ UNCHANGED <<entry, off, raced>>

\* decide_request has its locks: a published shift refuses the approval.
LockForApproval(s) ==
    \E o \in DOMAIN call[s].wanted :
        LET c == call[s]
        IN  /\ c.step = "lock" /\ c.op = "approve"
            /\ FreeFor(s, c.wanted[o])
            /\ call' = [call EXCEPT ![s] =
                   IF c.wanted[o] \cap PublishedOver(c.loaded[o]) # {} THEN Idle
                   ELSE [Locked(c) EXCEPT !.step = "flush"]]
            /\ UNCHANGED <<entry, off, raced>>

-----------------------------------------------------------------------------
(***************************************************************************)
(* Flush and COMMIT                                                        *)
(***************************************************************************)
\* The rows a request changes, and its columns laid over the row as committed
\* by now.
Changed(c) == {x \in DOMAIN c.write : c.write[x] # c.loaded[x]}
Laid(c, x, row) ==
    CASE c.write[x] = None -> None
      [] c.loaded[x] = None -> c.write[x]
      [] OTHER -> [status |-> IF c.write[x].status # c.loaded[x].status
                              THEN c.write[x].status ELSE row.status,
                   user   |-> row.user,
                   slot   |-> IF c.write[x].slot # c.loaded[x].slot
                              THEN c.write[x].slot ELSE row.slot]

\* An UPDATE that finds no row raises StaleDataError; a DELETE only warns.
RowsThere(c) ==
    \A x \in Changed(c) \cap Entries :
        c.op \in {"create", "delete"} \/ entry[x] # None

\* The rows found have changed, or the checks would fail now.  A publication
\* only knows of the time off it locked.
Outdated(c) ==
    \/ \E x \in Changed(c) : c.loaded[x] # IF x \in Entries THEN entry[x] ELSE off[x]
    \/ /\ c.op \in {"create", "move", "edit"}
       /\ \E e \in Changed(c) :
             \/ Duplicates(e, c.write[e]) # {}
             \/ c.write[e].status = "published" /\ OffOver(c.write[e], {"approved"}) # {}
    \/ c.op = "publish" /\ \E e \in Changed(c) : ~(LockedOff(c.write[e]) \subseteq c.found[e])
    \/ c.op = "approve" /\ \E o \in Changed(c) : PublishedOver(c.write[o]) # {}

Commit(s) ==
    LET c == call[s]
    IN  /\ c.step = "flush"
        /\ FreeFor(s, Changed(c))
        /\ RowsThere(c)
        /\ entry' = [e \in Entries |-> IF e \in Changed(c) THEN Laid(c, e, entry[e]) ELSE entry[e]]
        /\ off' = [o \in Requests |-> IF o \in Changed(c) THEN Laid(c, o, off[o]) ELSE off[o]]
        /\ raced' = (raced \/ Outdated(c))
        /\ call' = [call EXCEPT ![s] = Idle]

\* The flush failed, the process died, or the database broke a deadlock.
RollBack(s) ==
    /\ call[s] # Idle
    /\ call' = [call EXCEPT ![s] = Idle]
    /\ UNCHANGED <<entry, off, raced>>

-----------------------------------------------------------------------------
BeginCall(s) ==
    \/ \E e \in Entries :
          \/ BeginCreate(s, e) \/ BeginMove(s, e) \/ BeginMovePublished(s, e)
          \/ BeginDelete(s, e) \/ BeginRetract(s, e) \/ BeginPublish(s, {e})
    \/ \E E \in SUBSET Entries : BeginGenerate(s, E)
    \/ \E U \in SUBSET Users : WeekOf(U) # {} /\ BeginPublish(s, WeekOf(U))
    \/ \E o \in Requests : BeginClose(s, o) \/ BeginAmend(s, o) \/ BeginApprove(s, o)

Next ==
    \/ \E s \in Sessions :
          \/ BeginCall(s) \/ Look(s) \/ LockForPublish(s) \/ LockForApproval(s)
          \/ Commit(s) \/ RollBack(s)
    \/ \E o \in Requests : Submit(o)

Spec == Init /\ [][Next]_vars

-----------------------------------------------------------------------------
(***************************************************************************)
(* Properties                                                              *)
(***************************************************************************)
\* Rows are what the columns allow, and no two transactions hold the lock of one
\* row.
TypeOK ==
    /\ entry \in [Entries -> EntryRows]
    /\ off \in [Requests -> OffRows]
    /\ \A s, t \in Sessions : s # t => Held(call[s]) \cap Held(call[t]) = {}
    /\ raced \in BOOLEAN

\* Nobody is published to work while on approved time off, which both halves of
\* the FOR UPDATE scheme are there for (time_off.py:495).
NoShiftInTimeOff ==
    \A e \in Entries, o \in Requests :
        ~(entry[e].status = "published" /\ off[o].status = "approved" /\ Over(entry[e], off[o]))

\* As long as every request committed on checks that still held, nobody works in
\* approved time off and no shift is there twice.  For publications the row
\* locks see to it that time off approved meanwhile is never missed.
SoundUnlessRaced ==
    /\ TypeOK
    /\ ~raced => /\ NoShiftInTimeOff
                 /\ \A e \in Entries : entry[e] # None => Duplicates(e, entry[e]) = {}

\* Unless a request commits on a row that changed, a decision on time off is
\* final, and a published shift is never deleted and only moved by the request
\* that tells the staffer (staff_schedule.py:1014).
SettledUnlessRaced ==
    [][~raced' =>
          /\ \A o \in Requests :
                off[o].status \in {"approved", "denied", "cancelled"} => off'[o] = off[o]
          /\ \A e \in Entries :
                entry[e].status = "published" =>
                    /\ entry'[e] # None
                    /\ entry'[e].slot # entry[e].slot =>
                          \E s \in Sessions : call[s].op = "edit" /\ e \in DOMAIN call[s].loaded]_vars
=============================================================================
