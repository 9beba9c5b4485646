----------------------------- MODULE ShiftRequests -----------------------------
(***************************************************************************)
(* Cover, swap, drop and pickup requests for published shifts              *)
(* (staff_shift_requests.py), the posts of open shifts (open_shifts.py),   *)
(* what an approval does to the schedule (staff_schedule.py) and the       *)
(* expiry pass of the schedule monitor.                                    *)
(*                                                                         *)
(* Transactions are those of StaffSchedule: checks on rows loaded without  *)
(* a lock, flush and COMMIT in one step.  An approval of a cover, a drop   *)
(* or a swap has loaded the source shift before it locks it, and the ORM   *)
(* keeps the attributes of a loaded row (nothing asks for                  *)
(* populate_existing): the checks after the lock judge the row as loaded.  *)
(* The target of a swap and the post of a pickup are first read under      *)
(* their lock.                                                             *)
(***************************************************************************)
EXTENDS Integers, FiniteSets

CONSTANTS
    Sessions,   \* requests in flight
    Users,      \* sales staff
    Slots,      \* intervals; two shifts overlap when they have the same one
    Shifts,     \* staff_schedule_entries
    Requests,   \* staff_shift_requests
    Posts       \* open_shift_posts

VARIABLES
    shift,      \* the committed shifts
    request,    \* the committed requests
    post,       \* the committed posts
    phase,      \* of each slot: early, late (within the 12 hour cutoff), begun
    call,       \* the transaction of each session
    raced       \* auxiliary: some request committed on checks that no longer held

vars == <<shift, request, post, phase, call, raced>>

None == [status |-> "none"]
Idle == [op |-> "idle", step |-> "none", held |-> {}]
Nobody == "nobody"

ShiftRow(u, k, p) == [status |-> "published", user |-> u, slot |-> k, punched |-> FALSE, from |-> p]
RequestRow(type, u, src, tgt, cand) ==
    [type |-> type, status |-> "pending", by |-> u, source |-> src, target |-> tgt, candidate |-> cand]

\* The faulty form reopens what was approved.
NotClosed == {"pending", "accepted_by_staff", "approved"}
Active == {"pending", "accepted_by_staff"}
Terminal == {"approved", "closed", "expired"} \* closed: cancelled or denied

\* A week somebody published: nobody has two shifts at a time.
Init ==
    /\ shift \in [Shifts -> {None} \cup {ShiftRow(u, k, Nobody) : u \in Users, k \in Slots}]
    /\ \A e, f \in Shifts : e # f /\ shift[e] # None /\ shift[f] # None =>
          shift[e].user # shift[f].user \/ shift[e].slot # shift[f].slot
    /\ request = [r \in Requests |-> None]
    /\ post = [p \in Posts |-> None]
    /\ phase = [k \in Slots |-> "early"]
    /\ call = [s \in Sessions |-> Idle]
    /\ raced = FALSE

-----------------------------------------------------------------------------
(***************************************************************************)
(* What the checks find                                                    *)
(***************************************************************************)
Published(e) == shift[e].status = "published"

\* entry_has_started, of a row as loaded.
Started(row) == row.punched \/ phase[row.slot] = "begun"

\* validate_staff_can_work_interval, leaving out the shifts that are traded.
Conflicts(u, k, traded) ==
    \E e \in Shifts \ traded : Published(e) /\ shift[e].user = u /\ shift[e].slot = k

FreeFor(s, rows) == \A t \in Sessions \ {s} : call[t].held \cap rows = {}

-----------------------------------------------------------------------------
(***************************************************************************)
(* Filing.  Each of these is one INSERT whose checks may be old by then; a *)
(* request that was late is like one whose shift changed after it was      *)
(* filed.  Only a claim is looked for by others, so only a claim takes two *)
(* steps.                                                                  *)
(***************************************************************************)
\* An id no row has and no INSERT under way was given.
Unused(r) == /\ request[r] = None
             /\ \A t \in Sessions : call[t].op = "claim" => call[t].id # r

Requestable(u, e) ==
    /\ Published(e) /\ shift[e].user = u
    /\ ~Started(shift[e]) /\ phase[shift[e].slot] = "early"

CreateRequest(r, u, e) ==
    /\ Unused(r)
    /\ Requestable(u, e)
    /\ \/ \E cand \in (Users \ {u}) \cup {Nobody} :
             request' = [request EXCEPT ![r] = RequestRow("cover", u, e, Nobody, cand)]
       \/ request' = [request EXCEPT ![r] = RequestRow("drop", u, e, Nobody, Nobody)]
       \/ \E f \in Shifts :
             /\ Published(f) /\ shift[f].user # u /\ ~Started(shift[f])
             /\ request' = [request EXCEPT ![r] = RequestRow("swap", u, e, f, shift[f].user)]
    /\ UNCHANGED <<shift, post, phase, call, raced>>

CreatePost(p) ==
    /\ post[p] = None
    /\ \E k \in Slots : post' = [post EXCEPT ![p] = [status |-> "open", slot |-> k, by |-> Nobody]]
    /\ UNCHANGED <<shift, request, phase, call, raced>>

-----------------------------------------------------------------------------
Begin(s, c) ==
    /\ call[s] = Idle
    /\ call' = [call EXCEPT ![s] = c]
    /\ UNCHANGED <<shift, request, post, phase, raced>>

\* What a call on request r is about to write over it.  An approval also has
\* the source shift as loaded (src) and, of a pickup, the other claims it found
\* under the lock of the post (siblings).
Writing(op, r, row) ==
    [op |-> op, step |-> "flush", held |-> {}, id |-> r, loaded |-> request[r],
     write |-> row, src |-> None, siblings |-> {}]

\* claim_open_shift
BeginClaim(s, r, u, p) ==
    /\ Unused(r)
    /\ post[p].status = "open" /\ phase[post[p].slot] = "early"
    /\ \E e \in Shifts : shift[e] = None
    /\ \A q \in Requests : ~(/\ request[q].status \in Active /\ request[q].type = "pickup"
                             /\ request[q].by = u /\ request[q].target = p)
    /\ Begin(s, Writing("claim", r, RequestRow("pickup", u, Nobody, p, Nobody)))

\* cancel_request by the requester, decline_request by the candidate, and a
\* denial: all three may close a request that is not terminal.
BeginClose(s, r) ==
    /\ request[r].status \in Active
    /\ Begin(s, Writing("close", r, [request[r] EXCEPT !.status = "closed"]))

\* accept_request.
AcceptedBy(row, u) == [row EXCEPT !.status = "accepted_by_staff", !.candidate = u]
BeginAccept(s, r, u) ==
    /\ request[r].status = "pending" /\ request[r].type \in {"cover", "swap"}
    /\ u # request[r].by
    /\ request[r].candidate \in {u, Nobody}
    /\ Begin(s, Writing("accept", r, AcceptedBy(request[r], u)))

\* decide_request, approving.
BeginApprove(s, r) ==
    LET row == request[r]
    IN  /\ row.status \in Active
        /\ row.type \in {"cover", "swap"} => row.status = "accepted_by_staff"
        /\ Begin(s, [Writing("approve", r, [row EXCEPT !.status = "approved"])
                         EXCEPT !.step = "lock",
                                !.src = IF row.type = "pickup" THEN None
                                        ELSE shift[row.source]])

\* cancel_post
BeginCancelPost(s, p) ==
    /\ post[p].status = "open"
    /\ Begin(s, [op |-> "unpost", step |-> "flush", held |-> {}, id |-> p])

-----------------------------------------------------------------------------
(***************************************************************************)
(* An approval takes its row locks                                         *)
(***************************************************************************)
Proceed(s, rows, found) ==
    call' = [call EXCEPT ![s].step = "flush", ![s].held = rows, ![s].siblings = found]
Give(s) == call' = [call EXCEPT ![s] = Idle]

\* The checks of transfer_published_entry and retract_published_entry_to_draft
\* on the source shift as it was loaded.
SourceStands(c) ==
    /\ c.src.status = "published"
    /\ c.src.user = c.loaded.by
    /\ ~Started(c.src)

LockShifts(s) ==
    LET c == call[s]
        row == c.loaded
        rows == {row.source} \cup (IF row.type = "swap" THEN {row.target} ELSE {})
    IN  /\ c.op = "approve" /\ c.step = "lock" /\ row.type # "pickup"
        /\ FreeFor(s, rows)
        /\ IF /\ SourceStands(c)
              /\ row.type = "cover" => ~Conflicts(row.candidate, c.src.slot, rows)
              /\ row.type = "swap" =>
                    LET tgt == shift[row.target]
                    IN  /\ Published(row.target) /\ tgt.user = row.candidate /\ ~Started(tgt)
                        /\ ~Conflicts(row.by, tgt.slot, rows)
                        /\ ~Conflicts(row.candidate, c.src.slot, rows)
           THEN Proceed(s, rows, {})
           ELSE Give(s)
        /\ UNCHANGED <<shift, request, post, phase, raced>>

\* The other claims on post p that may still be decided.
Siblings(r, p) ==
    {q \in Requests \ {r} : /\ request[q].status \in Active /\ request[q].type = "pickup"
                            /\ request[q].target = p}

\* lock_open_post: the post must be open still.  The faulty form takes any post.
StillThere(p) == post[p] # None
StillOpen(p) == post[p].status = "open"

LockPost(s) ==
    LET c == call[s]
        p == c.loaded.target
    IN  /\ c.op = "approve" /\ c.step = "lock" /\ c.loaded.type = "pickup"
        /\ FreeFor(s, {p})
        /\ IF StillOpen(p) /\ ~Conflicts(c.loaded.by, post[p].slot, {})
           THEN Proceed(s, {p}, Siblings(c.id, p))
           ELSE Give(s)
        /\ UNCHANGED <<shift, request, post, phase, raced>>

-----------------------------------------------------------------------------
(***************************************************************************)
(* Flush and COMMIT                                                        *)
(***************************************************************************)
\* The columns that were assigned, over the row as committed by now.
Laid(c, row) ==
    IF c.loaded = None THEN c.write
    ELSE [row EXCEPT !.status = c.write.status,
                     !.candidate = IF c.write.candidate # c.loaded.candidate
                                   THEN c.write.candidate ELSE @]

Stale(c) == request[c.id] # c.loaded

\* cancel, decline, deny, accept, claim
CommitRequest(s) ==
    LET c == call[s]
    IN  /\ c.op \in {"claim", "close", "accept"}
        /\ request' = [request EXCEPT ![c.id] = Laid(c, @)]
        /\ raced' = (\/ raced \/ Stale(c)
                     \/ c.op = "claim" /\ post[c.write.target].status # "open")
        /\ Give(s)
        /\ UNCHANGED <<shift, post, phase>>

\* The shifts after an approved cover, swap or drop.  The faulty form forgets
\* the other half of a swap.
MovedOneWay(c) ==
    LET row == c.loaded
    IN  IF row.type = "drop" THEN [shift EXCEPT ![row.source].status = "draft"]
        ELSE [shift EXCEPT ![row.source].user = row.candidate]
Moved(c) ==
    LET row == c.loaded
    IN  CASE row.type = "cover" -> [shift EXCEPT ![row.source].user = row.candidate]
          [] row.type = "drop" -> [shift EXCEPT ![row.source].status = "draft"]
          [] row.type = "swap" -> [shift EXCEPT ![row.source].user = row.candidate,
                                                ![row.target].user = row.by]

CommitMove(s) ==
    LET c == call[s]
        row == c.loaded
    IN  /\ c.op = "approve" /\ c.step = "flush" /\ row.type # "pickup"
        /\ shift' = Moved(c)
        /\ request' = [request EXCEPT ![c.id] = Laid(c, @)]
        /\ raced' = (\/ raced \/ Stale(c)
                     \/ shift[row.source] # c.src
                     \/ row.type = "cover" /\ Conflicts(row.candidate, c.src.slot, c.held)
                     \/ row.type = "swap" /\ \/ Conflicts(row.by, shift[row.target].slot, c.held)
                                             \/ Conflicts(row.candidate, c.src.slot, c.held))
        /\ Give(s)
        /\ UNCHANGED <<post, phase>>

\* create_entry, mark_claimed, and the other claims expire.
CommitPickup(s, e) ==
    LET c == call[s]
        p == c.loaded.target
        u == c.loaded.by
    IN  /\ c.op = "approve" /\ c.step = "flush" /\ c.loaded.type = "pickup"
        /\ shift[e] = None
        /\ shift' = [shift EXCEPT ![e] = ShiftRow(u, post[p].slot, p)]
        /\ post' = [post EXCEPT ![p].status = "claimed", ![p].by = u]
        /\ request' = [q \in Requests |->
                          IF q = c.id THEN Laid(c, request[q])
                          ELSE IF q \in c.siblings THEN [request[q] EXCEPT !.status = "expired"]
                          ELSE request[q]]
        /\ raced' = (\/ raced \/ Stale(c)
                     \/ Siblings(c.id, p) # c.siblings
                     \/ Conflicts(u, post[p].slot, {}))
        /\ Give(s)
        /\ UNCHANGED phase

CommitUnpost(s) ==
    LET p == call[s].id
    IN  /\ call[s].op = "unpost"
        /\ FreeFor(s, {p})
        /\ post' = [post EXCEPT ![p].status = "cancelled"]
        /\ raced' = (raced \/ post[p].status # "open")
        /\ Give(s)
        /\ UNCHANGED <<shift, request, phase>>

\* The request was refused late, the process died or a deadlock was broken.
RollBack(s) ==
    /\ call[s] # Idle
    /\ Give(s)
    /\ UNCHANGED <<shift, request, post, phase, raced>>

-----------------------------------------------------------------------------
(***************************************************************************)
(* The expiry pass                                                         *)
(***************************************************************************)
\* _request_shift_started: nothing can be done for this request any more.
Overtaken(row) ==
    IF row.type = "pickup"
    THEN post[row.target].status # "open" \/ phase[post[row.target].slot] = "begun"
    ELSE \/ Started(shift[row.source])
         \/ row.type = "swap" /\ Started(shift[row.target])

Due == {r \in Requests : request[r].status \in Active /\ Overtaken(request[r])}
DuePosts == {p \in Posts : post[p].status = "open" /\ phase[post[p].slot] # "early"}

BeginExpiry(s) ==
    /\ Due \cup DuePosts # {}
    /\ Begin(s, [op |-> "expire", step |-> "flush", held |-> {},
                 rows |-> Due, posts |-> DuePosts])

CommitExpiry(s) ==
    LET c == call[s]
    IN  /\ c.op = "expire"
        /\ FreeFor(s, c.posts)
        /\ request' = [r \in Requests |->
               IF r \in c.rows THEN [request[r] EXCEPT !.status = "expired"] ELSE request[r]]
        /\ post' = [p \in Posts |->
               IF p \in c.posts THEN [post[p] EXCEPT !.status = "expired"] ELSE post[p]]
        /\ raced' = (raced \/ ~(c.rows \subseteq Due /\ c.posts \subseteq DuePosts))
        /\ Give(s)
        /\ UNCHANGED <<shift, phase>>

-----------------------------------------------------------------------------
(***************************************************************************)
(* Time passes, people clock in, managers act on the schedule              *)
(***************************************************************************)
Pass(k) ==
    /\ phase[k] # "begun"
    /\ phase' = [phase EXCEPT ![k] = IF @ = "early" THEN "late" ELSE "begun"]
    /\ UNCHANGED <<shift, request, post, call, raced>>

\* stamp_clock_in
ClockIn(e) ==
    /\ Published(e) /\ ~shift[e].punched
    /\ FreeFor(Nobody, {e})
    /\ shift' = [shift EXCEPT ![e].punched = TRUE]
    /\ UNCHANGED <<request, post, phase, call, raced>>

-----------------------------------------------------------------------------
BeginCall(s) ==
    \/ \E r \in Requests :
          \/ BeginClose(s, r) \/ BeginApprove(s, r)
          \/ \E u \in Users : BeginAccept(s, r, u) \/ \E p \in Posts : BeginClaim(s, r, u, p)
    \/ \E p \in Posts : BeginCancelPost(s, p)
    \/ BeginExpiry(s)

Advance(s) ==
    \/ LockShifts(s) \/ LockPost(s)
    \/ CommitRequest(s) \/ CommitMove(s) \/ CommitUnpost(s) \/ CommitExpiry(s)
    \/ \E e \in Shifts : CommitPickup(s, e)

Environment ==
    \/ \E k \in Slots : Pass(k)
    \/ \E e \in Shifts : ClockIn(e)

Next ==
    \/ \E r \in Requests, u \in Users, e \in Shifts : CreateRequest(r, u, e)
    \/ \E p \in Posts : CreatePost(p)
    \/ \E s \in Sessions : BeginCall(s) \/ Advance(s) \/ RollBack(s)
    \/ Environment

Spec == Init /\ [][Next]_vars

-----------------------------------------------------------------------------
(***************************************************************************)
(* Properties                                                              *)
(***************************************************************************)
\* Statuses are those of the columns, a claimed post names its taker, and a
\* request accepted by staff names who accepted it.
TypeOK ==
    /\ \A e \in Shifts : shift[e].status \in {"none", "draft", "published"}
    /\ \A r \in Requests : request[r].status \in {"none"} \cup Active \cup Terminal
    /\ \A p \in Posts : post[p].status \in {"none", "open", "claimed", "cancelled", "expired"}
    /\ \A p \in Posts : post[p].status = "claimed" => post[p].by \in Users
    /\ \A r \in Requests : request[r].status = "accepted_by_staff" => request[r].candidate \in Users

\* However many claims are approved at once, and whatever overwrites the status
\* of the post, it becomes one shift at most.
OneShiftPerPost ==
    /\ TypeOK
    /\ \A e, f \in Shifts :
          shift[e] # None /\ shift[f] # None /\ shift[e].from = shift[f].from =>
              e = f \/ shift[e].from = Nobody

\* As long as every request committed on checks that still held, nobody has two
\* shifts at a time, and a claimed post has its shift and no
\* claim that could still be approved.
HonouredUnlessRaced ==
    ~raced =>
        /\ \A e \in Shifts : Published(e) => ~Conflicts(shift[e].user, shift[e].slot, {e})
        /\ \A p \in Posts : post[p].status = "claimed" =>
              /\ \E e \in Shifts : shift[e] # None /\ shift[e].from = p
              /\ Siblings(Nobody, p) = {}

\* Unless a request commits on a row that changed, the end of a request or of a
\* post is final.
FinalUnlessRaced ==
    [][~raced' =>
          /\ \A r \in Requests : request[r].status \in Terminal =>
                                    request'[r].status = request[r].status
          /\ \A p \in Posts : post[p].status \in {"claimed", "cancelled", "expired"} =>
                                 post'[p].status = post[p].status]_vars

\* A request stays with the managers until its shift starts or its post is
\* taken (staff_shift_requests.py:1106).  A pickup leaves with its post, at the
\* 12 hour cutoff.
\* The code breaks it (README, Disagreements).
RescuableUntilStart ==
    [][\A r \in Requests :
          request[r].status \in Active /\ request'[r].status = "expired" /\ ~raced' =>
             IF request[r].type = "pickup"
             THEN \/ post'[request[r].target].status \in {"claimed", "cancelled"}
                  \/ phase[post[request[r].target].slot] = "begun"
             ELSE Overtaken(request[r])]_vars
=============================================================================
