-------------------------- MODULE ShiftRequestsProofs --------------------------
(***************************************************************************)
(* What the requests for shifts keep, for any staff, any shifts and posts  *)
(* and any number of calls in flight.                                      *)
(*                                                                         *)
(* A call writes what it decided from the row it loaded, over whatever row *)
(* is there by then.  What a call in flight can count on is little: who    *)
(* asked for what never changes (Follows), an INSERT under way has an id   *)
(* of its own, and the post of an approved pickup, locked and found open,  *)
(* stays open until that approval commits.  The last is why a post becomes *)
(* one shift at most even when every status is overwritten; the rest of    *)
(* the promises hold of the calls that found their rows unchanged.         *)
(***************************************************************************)
EXTENDS ShiftRequests, TLAPS

ShiftRec == [status : {"draft", "published"}, user : Users, slot : Slots,
             punched : BOOLEAN, from : Posts \cup {Nobody}]
RequestRec == [type : {"cover", "swap", "drop", "pickup"}, status : Active \cup Terminal,
               by : Users, source : Shifts \cup {Nobody},
               target : Shifts \cup Posts \cup {Nobody}, candidate : Users \cup {Nobody}]
PostRec == [status : {"open", "claimed", "cancelled", "expired"}, slot : Slots,
            by : Users \cup {Nobody}]

Tables ==
    /\ shift \in [Shifts -> {None} \cup ShiftRec]
    /\ request \in [Requests -> {None} \cup RequestRec]
    /\ post \in [Posts -> {None} \cup PostRec]

\* A request is about shifts or a post that exist, and a swap is between two
\* people and two shifts.
RowOK(row, sh) ==
    /\ row \in RequestRec
    /\ row.type = "pickup" => row.target \in Posts
    /\ row.type # "pickup" => row.source \in Shifts /\ sh[row.source].status # "none"
    /\ row.type = "swap" => /\ row.target \in Shifts /\ sh[row.target].status # "none"
                            /\ row.source # row.target /\ row.candidate # row.by
    /\ row.status = "accepted_by_staff" => row.candidate \in Users

\* What no call changes of a request, whatever it writes over it.
Follows(old, new) ==
    old.status # "none" =>
        /\ new.status # "none"
        /\ new.type = old.type /\ new.by = old.by
        /\ new.source = old.source /\ new.target = old.target
        /\ old.candidate \in Users => new.candidate \in Users

\* The shifts an approved trade takes.
Traded(row) == {row.source} \cup (IF row.type = "swap" THEN {row.target} ELSE {})

\* A call in flight, and the rows it is about as they are by now.
CallOK(c, sh, rq, po) ==
    /\ c.op \in {"idle", "claim", "close", "accept", "approve", "unpost", "expire"}
    /\ c.op # "approve" => c.held = {}
    /\ c.op = "claim" => /\ c.id \in Requests /\ rq[c.id] = None /\ c.loaded = None
                         /\ RowOK(c.write, sh) /\ c.write.type = "pickup"
                         /\ c.write.status = "pending"
    /\ c.op \in {"close", "accept", "approve"} =>
          /\ c.id \in Requests /\ rq[c.id].status # "none"
          /\ RowOK(c.loaded, sh) /\ c.loaded.status \in Active
          /\ Follows(c.loaded, rq[c.id])
    /\ c.op = "close" => c.write = [c.loaded EXCEPT !.status = "closed"]
    /\ c.op = "accept" => /\ c.loaded.type \in {"cover", "swap"}
                          /\ \E u \in Users \ {c.loaded.by} : c.write = AcceptedBy(c.loaded, u)
    /\ c.op = "approve" =>
          /\ c = [op |-> "approve", step |-> c.step, held |-> c.held, id |-> c.id,
                  loaded |-> c.loaded, write |-> c.write, src |-> c.src,
                  siblings |-> c.siblings]
          /\ c.write = [c.loaded EXCEPT !.status = "approved"]
          /\ c.loaded.type \in {"cover", "swap"} => c.loaded.status = "accepted_by_staff"
          /\ c.siblings \subseteq {q \in Requests : rq[q].status # "none"}
          /\ c.step \in {"lock", "flush"}
          /\ c.step = "lock" => c.held = {}
          /\ c.step = "flush" =>
                IF c.loaded.type = "pickup"
                THEN c.held = {c.loaded.target} /\ po[c.loaded.target].status = "open"
                ELSE c.held = Traded(c.loaded)
    /\ c.op = "unpost" => c.id \in Posts /\ po[c.id].status # "none"
    /\ c.op = "expire" => /\ c.rows \subseteq {q \in Requests : rq[q].status # "none"}
                          /\ c.posts \subseteq {p \in Posts : po[p].status # "none"}

Calls ==
    /\ call = [s \in Sessions |-> call[s]]
    /\ \A s \in Sessions : CallOK(call[s], shift, request, post)
    /\ \A s, t \in Sessions : s # t =>
          /\ call[s].held \cap call[t].held = {}
          /\ call[s].op = "claim" /\ call[t].op = "claim" => call[s].id # call[t].id

\* A shift made from a post is of a post that is not open any more.
FromPosts ==
    \A e \in Shifts : shift[e].status # "none" /\ shift[e].from # Nobody =>
        post[shift[e].from].status \notin {"none", "open"}

RowsOK == \A r \in Requests : request[r].status # "none" => RowOK(request[r], shift)
ClaimedNamed == \A p \in Posts : post[p].status = "claimed" => post[p].by \in Users

IInv ==
    /\ Tables /\ RowsOK /\ ClaimedNamed /\ FromPosts
    /\ Calls
    /\ OneShiftPerPost /\ HonouredUnlessRaced

-----------------------------------------------------------------------------
(***************************************************************************)
(* The tables                                                              *)
(***************************************************************************)

\* A row is there exactly when its status says so.
LEMMA Rows ==
    ASSUME Tables
    PROVE  /\ \A e \in Shifts : /\ shift[e] = None <=> shift[e].status = "none"
                                /\ shift[e].status # "none" => shift[e] \in ShiftRec
           /\ \A r \in Requests : /\ request[r] = None <=> request[r].status = "none"
                                  /\ request[r].status # "none" => request[r] \in RequestRec
           /\ \A p \in Posts : /\ post[p] = None <=> post[p].status = "none"
                               /\ post[p].status # "none" => post[p] \in PostRec
BY DEF Tables, None, ShiftRec, RequestRec, PostRec, Active, Terminal

\* The statuses are those of the columns.
LEMMA TypesFollow ==
    ASSUME Tables, RowsOK, ClaimedNamed
    PROVE  TypeOK
<1>1. \A e \in Shifts : shift[e].status \in {"none", "draft", "published"}
  BY DEF Tables, None, ShiftRec
<1>2. \A r \in Requests : request[r].status \in {"none"} \cup Active \cup Terminal
  BY DEF Tables, None, RequestRec
<1>3. \A p \in Posts : post[p].status \in {"none", "open", "claimed", "cancelled", "expired"}
  BY DEF Tables, None, PostRec
<1>4. \A r \in Requests : request[r].status = "accepted_by_staff" => request[r].candidate \in Users
  BY DEF RowsOK, RowOK
<1> QED BY <1>1, <1>2, <1>3, <1>4 DEF TypeOK, ClaimedNamed

-----------------------------------------------------------------------------
(***************************************************************************)
(* Steps that make no shift                                                *)
(***************************************************************************)

\* No shift appears, disappears or changes the post it was made from.
SameMade ==
    \A e \in Shifts : /\ shift'[e].status = "none" <=> shift[e].status = "none"
                      /\ shift[e].status # "none" => shift'[e].from = shift[e].from

ShiftsStay ==
    \A e \in Shifts : shift[e].status # "none" => shift'[e].status # "none"
RequestsFollow == \A r \in Requests : Follows(request[r], request'[r])
PostsOnward ==
    \A p \in Posts : /\ post[p].status # "none" => post'[p].status # "none"
                     /\ post[p].status \notin {"none", "open"} =>
                            post'[p].status \notin {"none", "open"}

\* Nobody has two shifts at a time.
NoOverlap == \A e \in Shifts : Published(e) => ~Conflicts(shift[e].user, shift[e].slot, {e})

\* A claim that may still be decided.
LiveClaim(row) == row.status \in Active /\ row.type = "pickup"

\* Without a new shift a post has as many as before.
LEMMA OneShiftStays ==
    ASSUME Tables, FromPosts, OneShiftPerPost, Tables', TypeOK', SameMade, PostsOnward
    PROVE  FromPosts' /\ OneShiftPerPost'
<1>1. \A e \in Shifts : /\ shift[e] = None <=> shift[e].status = "none"
                        /\ shift'[e] = None <=> shift'[e].status = "none"
                        /\ shift[e].status # "none" => shift[e].from \in Posts \cup {Nobody}
  BY DEF Tables, None, ShiftRec
<1>2. FromPosts'
  BY <1>1 DEF FromPosts, SameMade, PostsOnward
<1>3. \A e, f \in Shifts :
          shift'[e] # None /\ shift'[f] # None /\ shift'[e].from = shift'[f].from =>
              e = f \/ shift'[e].from = Nobody
  BY <1>1 DEF OneShiftPerPost, SameMade
<1> QED BY <1>2, <1>3 DEF OneShiftPerPost

\* What the uncontested promise takes from a step that makes no shift.
LEMMA HonouredStays ==
    ASSUME Tables, HonouredUnlessRaced, Tables', SameMade, raced => raced',
           ~raced' /\ NoOverlap => NoOverlap',
           ~raced' => \A p \in Posts : post'[p].status = "claimed" => post[p].status = "claimed",
           ~raced' => \A r \in Requests : LiveClaim(request'[r]) =>
                         \/ LiveClaim(request[r]) /\ request'[r].target = request[r].target
                         \/ post'[request'[r].target].status # "claimed"
    PROVE  HonouredUnlessRaced'
<1> SUFFICES ASSUME ~raced' PROVE HonouredUnlessRaced'
  BY DEF HonouredUnlessRaced
<1>1. NoOverlap'
  BY DEF HonouredUnlessRaced, NoOverlap
<1>2. ASSUME NEW p \in Posts, post'[p].status = "claimed"
      PROVE  /\ \E e \in Shifts : shift'[e] # None /\ shift'[e].from = p
             /\ Siblings(Nobody, p)' = {}
  <2>1. PICK e \in Shifts : shift[e] # None /\ shift[e].from = p
    BY <1>2 DEF HonouredUnlessRaced
  <2>2. shift'[e] # None /\ shift'[e].from = p
    BY <2>1 DEF SameMade, Tables, None, ShiftRec
  <2>3. Siblings(Nobody, p) = {}
    BY <1>2 DEF HonouredUnlessRaced
  <2>4. ASSUME NEW q \in Requests \ {Nobody}, LiveClaim(request'[q]), request'[q].target = p
        PROVE  FALSE
    BY <1>2, <2>3, <2>4 DEF Siblings, LiveClaim
  <2> QED BY <2>2, <2>4 DEF Siblings, LiveClaim
<1> QED BY <1>1, <1>2 DEF HonouredUnlessRaced, NoOverlap

\* A request that changes as the calls change it stays in order.
LEMMA RowsStay ==
    ASSUME RowsOK, ShiftsStay,
           \A r \in Requests : \/ request'[r] = request[r]
                               \/ request'[r].status # "none" => RowOK(request'[r], shift)
    PROVE  RowsOK'
<1>1. \A row : RowOK(row, shift) => RowOK(row, shift')
  BY DEF RowOK, ShiftsStay
<1>2. \A r \in Requests : request'[r].status # "none" => RowOK(request'[r], shift)
  BY DEF RowsOK
<1> QED BY <1>1, <1>2 DEF RowsOK

-----------------------------------------------------------------------------
(***************************************************************************)
(* The calls                                                               *)
(***************************************************************************)

\* A call is not disturbed by what others do, as long as the id of a claim
\* stays unused and a post under lock stays open.
LEMMA CallStays ==
    ASSUME NEW c, CallOK(c, shift, request, post), ShiftsStay, RequestsFollow, PostsOnward,
           c.op = "claim" => request'[c.id] = None,
           \A p \in Posts \cap c.held : post[p].status = "open" => post'[p].status = "open"
    PROVE  CallOK(c, shift', request', post')
<1>1. \A row : RowOK(row, shift) => RowOK(row, shift')
  BY DEF RowOK, ShiftsStay
<1>2. \A r \in Requests : request[r].status # "none" => request'[r].status # "none"
  BY DEF RequestsFollow, Follows
<1>3. \A p \in Posts : post[p].status # "none" => post'[p].status # "none"
  BY DEF PostsOnward
<1>4. c.op \in {"close", "accept", "approve"} => Follows(c.loaded, request'[c.id])
  BY DEF CallOK, RequestsFollow, Follows
<1>5. c.op = "approve" /\ c.step = "flush" /\ c.loaded.type = "pickup" =>
          post'[c.loaded.target].status = "open"
  BY DEF CallOK, RowOK
<1> QED BY <1>1, <1>2, <1>3, <1>4, <1>5 DEF CallOK

\* A step of the call of s, on rows and locks the other calls can live with.
LEMMA CallsStep ==
    ASSUME Calls, NEW s \in Sessions, NEW c, call' = [call EXCEPT ![s] = c],
           CallOK(c, shift', request', post'),
           ShiftsStay, RequestsFollow, PostsOnward,
           \A t \in Sessions \ {s} : c.held \cap call[t].held = {},
           c.op = "claim" => \A t \in Sessions \ {s} : call[t].op = "claim" => call[t].id # c.id,
           \A t \in Sessions \ {s} : call[t].op = "claim" => request'[call[t].id] = None,
           \A t \in Sessions \ {s} : \A p \in Posts \cap call[t].held :
               post[p].status = "open" => post'[p].status = "open"
    PROVE  Calls'
<1>1. call'[s] = c /\ \A t \in Sessions \ {s} : call'[t] = call[t]
  BY DEF Calls
<1>2. call' = [t \in Sessions |-> call'[t]]
  BY DEF Calls
<1>3. \A t \in Sessions \ {s} : CallOK(call[t], shift', request', post')
  BY CallStays DEF Calls
<1>4. \A t \in Sessions : CallOK(call'[t], shift', request', post')
  BY <1>1, <1>3
<1>5. \A t, u \in Sessions : t # u => call'[t].held \cap call'[u].held = {}
  BY <1>1 DEF Calls
<1>6. \A t, u \in Sessions :
          t # u /\ call'[t].op = "claim" /\ call'[u].op = "claim" => call'[t].id # call'[u].id
  BY <1>1 DEF Calls
<1> QED BY <1>2, <1>4, <1>5, <1>6 DEF Calls

\* The call of s ends.
LEMMA CallEnds ==
    ASSUME Calls, NEW s \in Sessions, Give(s),
           ShiftsStay, RequestsFollow, PostsOnward,
           \A t \in Sessions \ {s} : call[t].op = "claim" => request'[call[t].id] = None,
           \A t \in Sessions \ {s} : \A p \in Posts \cap call[t].held :
               post[p].status = "open" => post'[p].status = "open"
    PROVE  Calls'
<1>1. CallOK(Idle, shift', request', post')
  BY DEF CallOK, Idle
<1>2. Idle.held = {} /\ Idle.op # "claim"
  BY DEF Idle
<1> HIDE DEF Idle
<1> QED BY <1>1, <1>2, CallsStep DEF Give

\* Nothing but a call or nothing at all changes.
LEMMA NothingMoves ==
    ASSUME UNCHANGED <<shift, request, post>>
    PROVE  ShiftsStay /\ RequestsFollow /\ PostsOnward /\ SameMade
BY DEF ShiftsStay, RequestsFollow, PostsOnward, SameMade, Follows

\* Steps that change no row.
LEMMA OnlyCalls ==
    ASSUME IInv, UNCHANGED <<shift, request, post, raced>>, Calls'
    PROVE  IInv'
BY DEF IInv, Tables, RowsOK, ClaimedNamed, FromPosts, OneShiftPerPost, TypeOK,
       HonouredUnlessRaced, Published, Conflicts, Siblings
\* The id a claim under way was given stays unused when only rows that are
\* there are written.
LEMMA ClaimsUntouched ==
    ASSUME Tables, Calls,
           \A r \in Requests : request[r].status = "none" => request'[r] = request[r]
    PROVE  \A t \in Sessions : call[t].op = "claim" => request'[call[t].id] = None
<1>1. \A t \in Sessions : call[t].op = "claim" =>
                               call[t].id \in Requests /\ request[call[t].id] = None
  BY DEF Calls, CallOK
<1> QED BY <1>1 DEF None

\* Steps of nobody's call.
LEMMA CallsStay ==
    ASSUME Calls, UNCHANGED call, ShiftsStay, RequestsFollow, PostsOnward,
           \A t \in Sessions : call[t].op = "claim" => request'[call[t].id] = None,
           \A p \in Posts : post[p].status = "open" => post'[p].status = "open"
    PROVE  Calls'
<1>1. \A t \in Sessions : CallOK(call[t], shift', request', post')
  BY CallStays DEF Calls
<1> QED BY <1>1 DEF Calls

-----------------------------------------------------------------------------
(***************************************************************************)
(* What a call writes                                                      *)
(***************************************************************************)

\* A request row with a new status and candidate is a request row.
LEMMA Rewritten ==
    ASSUME NEW row \in RequestRec, NEW st \in Active \cup Terminal,
           NEW cand \in Users \cup {Nobody}
    PROVE  /\ [row EXCEPT !.status = st, !.candidate = cand] \in RequestRec
           /\ [row EXCEPT !.status = st] \in RequestRec
BY DEF RequestRec

\* What a decision writes over a request leaves it in order, whatever the row
\* has become since it was loaded.
LEMMA LaidRow ==
    ASSUME NEW c, NEW row, CallOK(c, shift, request, post),
           c.op \in {"close", "accept", "approve"}, row = request[c.id], RowOK(row, shift)
    PROVE  /\ RowOK(Laid(c, row), shift) /\ Follows(row, Laid(c, row))
           /\ Laid(c, row).status \in {"closed", "accepted_by_staff", "approved"}
           /\ c.op # "accept" => Laid(c, row).status \notin Active
           /\ c.op = "accept" => row.type \in {"cover", "swap"}
           /\ Laid(c, row).target = row.target /\ Laid(c, row).type = row.type
<1>1. /\ c.loaded \in RequestRec /\ c.loaded.status \in Active
      /\ row \in RequestRec /\ row.status # "none"
      /\ Follows(c.loaded, row)
  BY DEF CallOK, RowOK
<1>2. c.loaded # None
  BY <1>1 DEF None, Active
<1> DEFINE cand == IF c.write.candidate # c.loaded.candidate
                   THEN c.write.candidate ELSE row.candidate
           new == [row EXCEPT !.status = c.write.status, !.candidate = cand]
<1>3. Laid(c, row) = new
  BY <1>2 DEF Laid
<1>4. /\ new.status = c.write.status /\ new.candidate = cand
      /\ new.type = row.type /\ new.by = row.by
      /\ new.source = row.source /\ new.target = row.target
  BY <1>1 DEF RequestRec
<1>5. CASE c.op = "accept"
  <2>1. PICK u \in Users \ {c.loaded.by} : c.write = AcceptedBy(c.loaded, u)
    BY <1>5 DEF CallOK
  <2>2. c.write.status = "accepted_by_staff" /\ c.write.candidate = u
    BY <1>1, <2>1 DEF AcceptedBy, RequestRec
  <2>3. cand \in Users /\ (row.type = "swap" => cand # row.by)
    BY <1>1, <2>2 DEF Follows, Active, RowOK
  <2>4. new \in RequestRec
    <3> HIDE DEF cand
    <3> QED BY <1>1, <2>2, <2>3, Rewritten DEF Active
  <2>5. c.loaded.type \in {"cover", "swap"} /\ row.type = c.loaded.type
    BY <1>1, <1>5 DEF CallOK, Follows, Active
  <2> HIDE DEF new, cand
  <2>6. RowOK(new, shift) /\ Follows(row, new)
    BY <1>4, <2>2, <2>3, <2>4 DEF RowOK, Follows
  <2> QED BY <1>3, <1>4, <1>5, <2>2, <2>5, <2>6
<1>6. CASE c.op \in {"close", "approve"}
  <2>1. c.write.status \in {"closed", "approved"} /\ c.write.candidate = c.loaded.candidate
    BY <1>1, <1>6 DEF CallOK, RequestRec
  <2>2. cand = row.candidate
    BY <2>1
  <2>3. new \in RequestRec
    <3>1. cand \in Users \cup {Nobody}
      BY <1>1, <2>2 DEF RequestRec
    <3> HIDE DEF cand
    <3> QED BY <1>1, <2>1, <3>1, Rewritten DEF Terminal
  <2> HIDE DEF new, cand
  <2>4. RowOK(new, shift) /\ Follows(row, new)
    BY <1>4, <2>1, <2>2, <2>3 DEF RowOK, Follows
  <2> QED BY <1>3, <1>4, <1>6, <2>1, <2>4 DEF Active
<1> QED BY <1>5, <1>6

-----------------------------------------------------------------------------
(***************************************************************************)
(* Filing                                                                  *)
(***************************************************************************)

\* Filing a request takes an id nobody uses.
LEMMA CreateRequestKeeps ==
    ASSUME IInv, NEW r \in Requests, NEW u \in Users, NEW e \in Shifts, CreateRequest(r, u, e)
    PROVE  IInv'
<1>1. PICK row : request' = [request EXCEPT ![r] = row] /\ row \in RequestRec
                 /\ RowOK(row, shift) /\ row.status = "pending" /\ row.type # "pickup"
  <2> DEFINE Filed(row) == /\ row \in RequestRec /\ RowOK(row, shift)
                           /\ row.status = "pending" /\ row.type # "pickup"
  <2>1. shift[e].status = "published"
    BY DEF CreateRequest, Requestable, Published
  <2>2. CASE \E cand \in (Users \ {u}) \cup {Nobody} :
                 request' = [request EXCEPT ![r] = RequestRow("cover", u, e, Nobody, cand)]
    <3>1. PICK cand \in (Users \ {u}) \cup {Nobody} :
                 request' = [request EXCEPT ![r] = RequestRow("cover", u, e, Nobody, cand)]
      BY <2>2
    <3>2. RequestRow("cover", u, e, Nobody, cand) \in RequestRec
      BY DEF RequestRow, RequestRec, Active
    <3>3. Filed(RequestRow("cover", u, e, Nobody, cand))
      BY <2>1, <3>2 DEF RequestRow, RowOK
    <3> QED BY <3>1, <3>3
  <2>3. CASE request' = [request EXCEPT ![r] = RequestRow("drop", u, e, Nobody, Nobody)]
    <3>1. RequestRow("drop", u, e, Nobody, Nobody) \in RequestRec
      BY DEF RequestRow, RequestRec, Active
    <3>2. Filed(RequestRow("drop", u, e, Nobody, Nobody))
      BY <2>1, <3>1 DEF RequestRow, RowOK
    <3> QED BY <2>3, <3>2
  <2>4. CASE \E f \in Shifts :
                 /\ Published(f) /\ shift[f].user # u /\ ~Started(shift[f])
                 /\ request' = [request EXCEPT ![r] = RequestRow("swap", u, e, f, shift[f].user)]
    <3>1. PICK f \in Shifts :
                 /\ Published(f) /\ shift[f].user # u
                 /\ request' = [request EXCEPT ![r] = RequestRow("swap", u, e, f, shift[f].user)]
      BY <2>4
    <3>2. shift[f] \in ShiftRec
      BY <3>1, Rows DEF IInv, Published
    <3>3. RequestRow("swap", u, e, f, shift[f].user) \in RequestRec
      BY <3>2 DEF RequestRow, RequestRec, Active, ShiftRec
    <3>4. e # f
      BY <3>1 DEF CreateRequest, Requestable
    <3>5. Filed(RequestRow("swap", u, e, f, shift[f].user))
      BY <2>1, <3>1, <3>3, <3>4 DEF RequestRow, RowOK, Published
    <3> QED BY <3>1, <3>5
  <2> QED BY <2>2, <2>3, <2>4 DEF CreateRequest
<1>2. /\ request'[r] = row /\ \A q \in Requests \ {r} : request'[q] = request[q]
      /\ request[r] = None /\ request[r].status = "none"
      /\ UNCHANGED <<shift, post, phase, call, raced>>
  BY <1>1 DEF IInv, Tables, CreateRequest, Unused, None
<1>3. Tables'
  BY <1>1, <1>2 DEF IInv, Tables
<1>4. ShiftsStay /\ SameMade /\ PostsOnward
  BY <1>2 DEF ShiftsStay, SameMade, PostsOnward
<1>5. RequestsFollow
  BY <1>2 DEF RequestsFollow, Follows
<1>6. RowsOK'
  BY <1>1, <1>2, <1>4, RowsStay DEF IInv
<1>7. ClaimedNamed'
  BY <1>2 DEF IInv, ClaimedNamed
<1>8. TypeOK'
  <2>1. \A q \in Requests : /\ request'[q].status \in {"none"} \cup Active \cup Terminal
                            /\ request'[q].status = "accepted_by_staff" => request'[q].candidate \in Users
    BY <1>1, <1>2 DEF IInv, OneShiftPerPost, TypeOK, Active
  <2> QED BY <1>2, <2>1 DEF IInv, OneShiftPerPost, TypeOK
<1>9. FromPosts' /\ OneShiftPerPost'
  BY <1>3, <1>4, <1>8, OneShiftStays DEF IInv
<1>10. HonouredUnlessRaced'
  <2>1. NoOverlap => NoOverlap'
    BY <1>2 DEF NoOverlap, Published, Conflicts
  <2>2. \A q \in Requests : LiveClaim(request'[q]) => request'[q] = request[q]
    BY <1>1, <1>2 DEF LiveClaim
  <2> QED BY <1>2, <1>3, <1>4, <2>1, <2>2, HonouredStays DEF IInv
<1>11. Calls'
  <2>1. \A t \in Sessions : call[t].op = "claim" => call[t].id # r /\ request'[call[t].id] = None
    BY <1>2 DEF CreateRequest, Unused, IInv, Calls, CallOK
  <2> QED BY <1>2, <1>4, <1>5, <2>1, CallsStay DEF IInv
<1> QED BY <1>3, <1>6, <1>7, <1>9, <1>10, <1>11 DEF IInv
\* A new post is open and nobody has claimed it.
LEMMA CreatePostKeeps ==
    ASSUME IInv, NEW p \in Posts, CreatePost(p)
    PROVE  IInv'
<1>1. PICK k \in Slots : post' = [post EXCEPT ![p] = [status |-> "open", slot |-> k, by |-> Nobody]]
  BY DEF CreatePost
<1>2. /\ post'[p] = [status |-> "open", slot |-> k, by |-> Nobody]
      /\ \A q \in Posts \ {p} : post'[q] = post[q]
      /\ post[p].status = "none"
      /\ UNCHANGED <<shift, request, phase, call, raced>>
  BY <1>1 DEF IInv, Tables, CreatePost, None
<1>3. Tables'
  <2>1. post'[p] \in PostRec
    BY <1>2 DEF PostRec
  <2> QED BY <1>1, <1>2, <2>1 DEF IInv, Tables
<1>4. ShiftsStay /\ SameMade /\ PostsOnward /\ RequestsFollow
  BY <1>2 DEF ShiftsStay, SameMade, PostsOnward, RequestsFollow, Follows
<1>5. RowsOK' /\ ClaimedNamed'
  BY <1>2 DEF IInv, RowsOK, ClaimedNamed
<1>6. FromPosts' /\ OneShiftPerPost'
  <2>1. TypeOK'
    BY <1>2 DEF IInv, OneShiftPerPost, TypeOK
  <2> QED BY <1>3, <1>4, <2>1, OneShiftStays DEF IInv
<1>7. HonouredUnlessRaced'
  <2>1. NoOverlap => NoOverlap'
    BY <1>2 DEF NoOverlap, Published, Conflicts
  <2> QED BY <1>2, <1>3, <1>4, <2>1, HonouredStays DEF IInv
<1>8. Calls'
  <2>1. \A t \in Sessions : call[t].op = "claim" => request'[call[t].id] = None
    BY <1>2, ClaimsUntouched DEF IInv
  <2>2. \A q \in Posts : post[q].status = "open" => post'[q].status = "open"
    BY <1>2
  <2> QED BY <1>2, <1>4, <2>1, <2>2, CallsStay DEF IInv
<1> QED BY <1>3, <1>5, <1>6, <1>7, <1>8 DEF IInv

\* A punch changes neither who works a shift nor when.
LEMMA ClockInKeeps ==
    ASSUME IInv, NEW e \in Shifts, ClockIn(e)
    PROVE  IInv'
<1>1. shift[e] \in ShiftRec /\ shift[e].status = "published"
  BY Rows DEF IInv, ClockIn, Published
<1> DEFINE row == [shift[e] EXCEPT !.punched = TRUE]
<1>2. /\ row \in ShiftRec /\ row.status = shift[e].status /\ row.user = shift[e].user
      /\ row.slot = shift[e].slot /\ row.from = shift[e].from
  BY <1>1 DEF ShiftRec
<1>3. shift' = [shift EXCEPT ![e] = row] /\ UNCHANGED <<request, post, phase, call, raced>>
  BY DEF ClockIn
<1> HIDE DEF row
<1>4. shift'[e] = row /\ \A f \in Shifts \ {e} : shift'[f] = shift[f]
  BY <1>3 DEF IInv, Tables
<1>5. Tables'
  BY <1>2, <1>3 DEF IInv, Tables
<1>6. ShiftsStay /\ SameMade /\ PostsOnward /\ RequestsFollow
  BY <1>2, <1>3, <1>4 DEF ShiftsStay, SameMade, PostsOnward, RequestsFollow, Follows
<1>7. RowsOK'
  BY <1>3, <1>6, RowsStay DEF IInv
<1>8. ClaimedNamed'
  BY <1>3 DEF IInv, ClaimedNamed
<1>9. FromPosts' /\ OneShiftPerPost'
  <2>1. TypeOK'
    BY <1>2, <1>3, <1>4 DEF IInv, OneShiftPerPost, TypeOK
  <2> QED BY <1>5, <1>6, <2>1, OneShiftStays DEF IInv
<1>10. HonouredUnlessRaced'
  <2>1. \A f \in Shifts : /\ shift'[f].status = shift[f].status
                          /\ Published(f) => /\ shift'[f].user = shift[f].user
                                             /\ shift'[f].slot = shift[f].slot
    BY <1>2, <1>4
  <2>2. NoOverlap => NoOverlap'
    BY <2>1 DEF NoOverlap, Published, Conflicts
  <2> QED BY <1>3, <1>5, <1>6, <2>2, HonouredStays DEF IInv
<1>11. Calls'
  <2>1. \A t \in Sessions : call[t].op = "claim" => request'[call[t].id] = None
    BY <1>3, ClaimsUntouched DEF IInv
  <2> QED BY <1>3, <1>6, <2>1, CallsStay DEF IInv
<1> QED BY <1>5, <1>7, <1>8, <1>9, <1>10, <1>11 DEF IInv

-----------------------------------------------------------------------------
(***************************************************************************)
(* Calls begin, take their locks, end                                      *)
(***************************************************************************)

\* A step of the call of s that writes no row.
LEMMA QuietStep ==
    ASSUME IInv, NEW s \in Sessions, NEW c, call' = [call EXCEPT ![s] = c],
           UNCHANGED <<shift, request, post, phase, raced>>,
           CallOK(c, shift, request, post),
           \A t \in Sessions \ {s} : c.held \cap call[t].held = {},
           c.op = "claim" => \A t \in Sessions \ {s} : call[t].op = "claim" => call[t].id # c.id
    PROVE  IInv'
<1>1. ShiftsStay /\ RequestsFollow /\ PostsOnward
  BY NothingMoves
<1>2. \A t \in Sessions : call[t].op = "claim" => request'[call[t].id] = None
  BY ClaimsUntouched DEF IInv
<1>3. CallOK(c, shift', request', post')
  OBVIOUS
<1>4. Calls'
  BY <1>1, <1>2, <1>3, CallsStep DEF IInv
<1> QED BY <1>4, OnlyCalls

\* The record of an approval that gets as far as its flush.
LEMMA ApprovalRecord ==
    ASSUME NEW a, NEW rows, NEW found,
           a = [op |-> "approve", step |-> a.step, held |-> a.held, id |-> a.id,
                loaded |-> a.loaded, write |-> a.write, src |-> a.src, siblings |-> a.siblings]
    PROVE  [a EXCEPT !.step = "flush", !.held = rows, !.siblings = found] =
               [op |-> "approve", step |-> "flush", held |-> rows, id |-> a.id,
                loaded |-> a.loaded, write |-> a.write, src |-> a.src, siblings |-> found]
<1> DEFINE S == [op : {"approve"}, step : {a.step, "flush"}, held : {a.held, rows}, id : {a.id},
                 loaded : {a.loaded}, write : {a.write}, src : {a.src},
                 siblings : {a.siblings, found}]
           b == [a EXCEPT !.step = "flush", !.held = rows, !.siblings = found]
<1>1. a \in S
  OBVIOUS
<1>2. /\ b \in S /\ b.op = "approve" /\ b.step = "flush" /\ b.held = rows /\ b.id = a.id
      /\ b.loaded = a.loaded /\ b.write = a.write /\ b.src = a.src /\ b.siblings = found
  BY <1>1
<1> HIDE DEF b
<1>3. b = [op |-> b.op, step |-> b.step, held |-> b.held, id |-> b.id, loaded |-> b.loaded,
           write |-> b.write, src |-> b.src, siblings |-> b.siblings]
  BY <1>2
<1>4. b = [op |-> "approve", step |-> "flush", held |-> rows, id |-> a.id,
           loaded |-> a.loaded, write |-> a.write, src |-> a.src, siblings |-> found]
  BY <1>2, <1>3
<1> QED BY <1>4 DEF b

\* The record of an approval that begins.
LEMMA ApprovalBegun ==
    ASSUME NEW r, NEW new, NEW src
    PROVE  [Writing("approve", r, new) EXCEPT !.step = "lock", !.src = src] =
               [op |-> "approve", step |-> "lock", held |-> {}, id |-> r,
                loaded |-> request[r], write |-> new, src |-> src, siblings |-> {}]
<1> DEFINE a == Writing("approve", r, new)
           S == [op : {"approve"}, step : {"flush", "lock"}, held : {{}}, id : {r},
                 loaded : {request[r]}, write : {new}, src : {None, src}, siblings : {{}}]
           b == [a EXCEPT !.step = "lock", !.src = src]
<1>1. a \in S
  BY DEF Writing
<1>2. /\ a.op = "approve" /\ a.held = {} /\ a.id = r /\ a.loaded = request[r]
      /\ a.write = new /\ a.siblings = {}
  BY DEF Writing
<1> HIDE DEF a
<1>3. /\ b \in S /\ b.op = "approve" /\ b.step = "lock" /\ b.held = {} /\ b.id = r
      /\ b.loaded = request[r] /\ b.write = new /\ b.src = src /\ b.siblings = {}
  BY <1>1, <1>2
<1> HIDE DEF b
<1>4. b = [op |-> b.op, step |-> b.step, held |-> b.held, id |-> b.id, loaded |-> b.loaded,
           write |-> b.write, src |-> b.src, siblings |-> b.siblings]
  BY <1>3
<1>5. b = [op |-> "approve", step |-> "lock", held |-> {}, id |-> r,
           loaded |-> request[r], write |-> new, src |-> src, siblings |-> {}]
  BY <1>3, <1>4
<1> QED BY <1>5 DEF a, b

\* A call begins without a lock, on the rows as they are.
LEMMA BeginCallKeeps ==
    ASSUME IInv, NEW s \in Sessions, BeginCall(s)
    PROVE  IInv'
<1>1. ASSUME NEW c, Begin(s, c), c.held = {}, CallOK(c, shift, request, post),
             c.op = "claim" => \A t \in Sessions : call[t].op = "claim" => call[t].id # c.id
      PROVE  IInv'
  BY <1>1, QuietStep DEF Begin
<1>2. \A r \in Requests : request[r].status \in Active =>
                              RowOK(request[r], shift) /\ request[r].status # "none"
  BY DEF IInv, RowsOK, Active
<1>3. ASSUME NEW r \in Requests, BeginClose(s, r) PROVE IInv'
  <2> DEFINE c == Writing("close", r, [request[r] EXCEPT !.status = "closed"])
  <2>1. CallOK(c, shift, request, post)
    BY <1>2, <1>3 DEF BeginClose, Writing, CallOK, Follows
  <2>2. c.held = {} /\ c.op # "claim"
    BY DEF Writing
  <2> QED BY <1>1, <1>3, <2>1, <2>2 DEF BeginClose
<1>4. ASSUME NEW r \in Requests, BeginApprove(s, r) PROVE IInv'
  <2> DEFINE src == IF request[r].type = "pickup" THEN None ELSE shift[request[r].source]
             row == [request[r] EXCEPT !.status = "approved"]
             c == [op |-> "approve", step |-> "lock", held |-> {}, id |-> r,
                   loaded |-> request[r], write |-> row, src |-> src, siblings |-> {}]
  <2>1. [Writing("approve", r, row) EXCEPT !.step = "lock", !.src = src] = c
    <3> HIDE DEF row, src
    <3> QED BY ApprovalBegun
  <2>2. /\ Begin(s, c)
        /\ request[r].status \in Active
        /\ request[r].type \in {"cover", "swap"} => request[r].status = "accepted_by_staff"
    BY <1>4, <2>1 DEF BeginApprove
  <2>3. CallOK(c, shift, request, post)
    <3> HIDE DEF src
    <3> QED BY <1>2, <2>2 DEF CallOK, Follows
  <2> QED BY <1>1, <2>2, <2>3
<1>5. ASSUME NEW r \in Requests, NEW u \in Users, BeginAccept(s, r, u) PROVE IInv'
  <2> DEFINE c == Writing("accept", r, AcceptedBy(request[r], u))
  <2>1. CallOK(c, shift, request, post)
    BY <1>2, <1>5 DEF BeginAccept, Writing, CallOK, Follows, Active
  <2>2. c.held = {} /\ c.op # "claim"
    BY DEF Writing
  <2> QED BY <1>1, <1>5, <2>1, <2>2 DEF BeginAccept
<1>6. ASSUME NEW r \in Requests, NEW u \in Users, NEW p \in Posts, BeginClaim(s, r, u, p)
      PROVE  IInv'
  <2> DEFINE row == RequestRow("pickup", u, Nobody, p, Nobody)
             c == Writing("claim", r, row)
  <2>1. RowOK(row, shift) /\ row.type = "pickup" /\ row.status = "pending"
    <3>1. row \in RequestRec
      BY DEF RequestRow, RequestRec, Active
    <3> QED BY <3>1 DEF RequestRow, RowOK
  <2>2. CallOK(c, shift, request, post) /\ c.held = {} /\ c.id = r
    <3> HIDE DEF row
    <3> QED BY <1>6, <2>1 DEF BeginClaim, Unused, Writing, CallOK
  <2>3. Begin(s, c) /\ \A t \in Sessions : call[t].op = "claim" => call[t].id # r
    BY <1>6 DEF BeginClaim, Unused
  <2> HIDE DEF c
  <2> QED BY <1>1, <2>2, <2>3
<1>7. ASSUME NEW p \in Posts, BeginCancelPost(s, p) PROVE IInv'
  <2> DEFINE c == [op |-> "unpost", step |-> "flush", held |-> {}, id |-> p]
  <2>1. CallOK(c, shift, request, post)
    BY <1>7 DEF BeginCancelPost, CallOK
  <2> QED BY <1>1, <1>7, <2>1 DEF BeginCancelPost
<1>8. ASSUME BeginExpiry(s) PROVE IInv'
  <2> DEFINE c == [op |-> "expire", step |-> "flush", held |-> {},
                   rows |-> Due, posts |-> DuePosts]
  <2>1. CallOK(c, shift, request, post)
    BY DEF Due, DuePosts, CallOK, Active
  <2> QED BY <1>1, <1>8, <2>1 DEF BeginExpiry
<1> QED BY <1>3, <1>4, <1>5, <1>6, <1>7, <1>8 DEF BeginCall

\* An approval has its locks when nobody else has, and a post it took is open.
LEMMA LockKeeps ==
    ASSUME IInv, NEW s \in Sessions, LockShifts(s) \/ LockPost(s)
    PROVE  IInv'
<1> DEFINE c == call[s]
<1>1. /\ CallOK(c, shift, request, post) /\ c.op = "approve" /\ c.step = "lock"
      /\ c = [op |-> "approve", step |-> c.step, held |-> c.held, id |-> c.id,
              loaded |-> c.loaded, write |-> c.write, src |-> c.src,
              siblings |-> c.siblings]
  BY DEF LockShifts, LockPost, IInv, Calls, CallOK
<1>2. ASSUME NEW rows, NEW found \in SUBSET {q \in Requests : request[q].status # "none"},
             Proceed(s, rows, found), FreeFor(s, rows),
             UNCHANGED <<shift, request, post, phase, raced>>,
             IF c.loaded.type = "pickup"
             THEN rows = {c.loaded.target} /\ post[c.loaded.target].status = "open"
             ELSE rows = Traded(c.loaded)
      PROVE  IInv'
  <2> DEFINE d == [op |-> "approve", step |-> "flush", held |-> rows, id |-> c.id,
                   loaded |-> c.loaded, write |-> c.write, src |-> c.src, siblings |-> found]
  <2>1. call' = [call EXCEPT ![s] = d]
    <3>1. call' = [call EXCEPT ![s] = [c EXCEPT !.step = "flush", !.held = rows,
                                                !.siblings = found]]
      BY <1>2 DEF Proceed
    <3>2. [c EXCEPT !.step = "flush", !.held = rows, !.siblings = found] = d
      <4>1. c = [op |-> "approve", step |-> c.step, held |-> c.held, id |-> c.id,
                 loaded |-> c.loaded, write |-> c.write, src |-> c.src,
                 siblings |-> c.siblings]
        BY <1>1
      <4> HIDE DEF c
      <4> QED BY <4>1, ApprovalRecord, Zenon
    <3> QED BY <3>1, <3>2
  <2>2. CallOK(d, shift, request, post)
    <3> HIDE DEF c
    <3> QED BY <1>1, <1>2 DEF CallOK
  <2>3. \A t \in Sessions \ {s} : rows \cap call[t].held = {}
    BY <1>2 DEF FreeFor
  <2> HIDE DEF c
  <2> QED BY <1>2, <2>1, <2>2, <2>3, QuietStep
<1>3. ASSUME Give(s), UNCHANGED <<shift, request, post, phase, raced>>
      PROVE  IInv'
  <2>1. CallOK(Idle, shift, request, post) /\ Idle.held = {} /\ Idle.op # "claim"
    BY DEF CallOK, Idle
  <2> HIDE DEF c, Idle
  <2> QED BY <1>3, <2>1, QuietStep DEF Give
<1>4. CASE LockShifts(s)
  BY <1>2, <1>3, <1>4 DEF LockShifts, Traded
<1>5. CASE LockPost(s)
  <2>1. \A p \in Posts : Siblings(c.id, p) \subseteq {q \in Requests : request[q].status # "none"}
    BY DEF Siblings, Active
  <2>2. c.loaded.target \in Posts
    BY <1>1, <1>5 DEF LockPost, CallOK, RowOK
  <2> QED BY <1>2, <1>3, <1>5, <2>1, <2>2 DEF LockPost, StillOpen
<1> QED BY <1>4, <1>5

\* A call that ends without a COMMIT leaves everything as it was.
LEMMA RollBackKeeps ==
    ASSUME IInv, NEW s \in Sessions, RollBack(s)
    PROVE  IInv'
<1>1. CallOK(Idle, shift, request, post) /\ Idle.held = {} /\ Idle.op # "claim"
  BY DEF CallOK, Idle
<1> HIDE DEF Idle
<1> QED BY <1>1, QuietStep DEF RollBack, Give
-----------------------------------------------------------------------------
(***************************************************************************)
(* COMMIT                                                                  *)
(***************************************************************************)

\* The statuses after a step.
LEMMA TypesFollowAfter ==
    ASSUME Tables', RowsOK', ClaimedNamed'
    PROVE  TypeOK'
<1>1. \A e \in Shifts : shift'[e].status \in {"none", "draft", "published"}
  BY DEF Tables, None, ShiftRec
<1>2. \A r \in Requests : request'[r].status \in {"none"} \cup Active \cup Terminal
  BY DEF Tables, None, RequestRec
<1>3. \A p \in Posts : post'[p].status \in {"none", "open", "claimed", "cancelled", "expired"}
  BY DEF Tables, None, PostRec
<1>4. \A r \in Requests : request'[r].status = "accepted_by_staff" =>
                              request'[r].candidate \in Users
  BY DEF RowsOK, RowOK
<1> QED BY <1>1, <1>2, <1>3, <1>4 DEF TypeOK, ClaimedNamed

\* The request of call s as its COMMIT leaves it.
LEMMA WrittenRow ==
    ASSUME IInv, NEW s \in Sessions,
           call[s].op \in {"claim", "close", "accept", "approve"},
           request' = [request EXCEPT ![call[s].id] = Laid(call[s], @)]
    PROVE  LET c == call[s] IN
           /\ c.id \in Requests
           /\ request'[c.id] = Laid(c, request[c.id])
           /\ \A r \in Requests \ {c.id} : request'[r] = request[r]
           /\ RowOK(request'[c.id], shift) /\ RequestsFollow
           /\ request' \in [Requests -> {None} \cup RequestRec]
           /\ c.op = "claim" => /\ request'[c.id] = c.write /\ c.loaded = None
                                /\ request[c.id] = None
           /\ c.op # "claim" =>
                 /\ request[c.id].status # "none"
                 /\ c.loaded.status \in Active
                 /\ Follows(c.loaded, request[c.id])
                 /\ request'[c.id].target = request[c.id].target
                 /\ LiveClaim(request'[c.id]) => FALSE
           /\ \A t \in Sessions \ {s} : call[t].op = "claim" => request'[call[t].id] = None
<1> DEFINE c == call[s]
<1>1. CallOK(c, shift, request, post) /\ c.id \in Requests
  BY DEF IInv, Calls, CallOK
<1>2. /\ request'[c.id] = Laid(c, request[c.id])
      /\ \A r \in Requests \ {c.id} : request'[r] = request[r]
  BY <1>1 DEF IInv, Tables
<1>3. CASE c.op = "claim"
  <2>1. /\ c.loaded = None /\ request'[c.id] = c.write /\ request[c.id] = None
        /\ request[c.id].status = "none" /\ RowOK(c.write, shift)
    BY <1>1, <1>2, <1>3 DEF CallOK, Laid, None
  <2>2. RequestsFollow
    BY <1>2, <2>1 DEF RequestsFollow, Follows
  <2>3. \A t \in Sessions \ {s} : call[t].op = "claim" =>
            call[t].id \in Requests \ {c.id} /\ request[call[t].id] = None
    BY <1>3 DEF IInv, Calls, CallOK
  <2>4. request' \in [Requests -> {None} \cup RequestRec]
    BY <1>1, <1>2, <2>1 DEF IInv, Tables, RowOK
  <2> QED BY <1>1, <1>2, <1>3, <2>1, <2>2, <2>3, <2>4
<1>4. CASE c.op \in {"close", "accept", "approve"}
  <2>1. /\ request[c.id].status # "none" /\ c.loaded.status \in Active
        /\ Follows(c.loaded, request[c.id]) /\ RowOK(request[c.id], shift)
    BY <1>1, <1>4 DEF CallOK, IInv, RowsOK
  <2> DEFINE new == Laid(c, request[c.id])
  <2>2. /\ RowOK(new, shift) /\ Follows(request[c.id], new)
        /\ c.op # "accept" => new.status \notin Active
        /\ c.op = "accept" => new.type \in {"cover", "swap"}
        /\ new.target = request[c.id].target
    <3> HIDE DEF c
    <3> QED BY <1>1, <1>4, <2>1, LaidRow
  <2> HIDE DEF new
  <2>3. request'[c.id] = new
    BY <1>2 DEF new
  <2>4. RequestsFollow
    BY <1>2, <2>2, <2>3 DEF RequestsFollow, Follows
  <2>5. \A t \in Sessions : call[t].op = "claim" => request'[call[t].id] = None
    <3>1. \A r \in Requests : request[r].status = "none" => request'[r] = request[r]
      BY <1>2, <2>1
    <3> QED BY <3>1, ClaimsUntouched DEF IInv
  <2>6. request' \in [Requests -> {None} \cup RequestRec]
    BY <1>1, <1>2, <2>2, <2>3 DEF IInv, Tables, RowOK
  <2>7. ~LiveClaim(new)
    BY <1>4, <2>2 DEF LiveClaim
  <2> QED BY <1>1, <1>2, <1>4, <2>1, <2>2, <2>3, <2>4, <2>5, <2>6, <2>7
<1> QED BY <1>3, <1>4

\* A decision or a claim that writes one row.
LEMMA CommitRequestKeeps ==
    ASSUME IInv, NEW s \in Sessions, CommitRequest(s)
    PROVE  IInv'
<1> DEFINE c == call[s]
<1>1. /\ c.op \in {"claim", "close", "accept"} /\ Give(s)
      /\ request' = [request EXCEPT ![c.id] = Laid(c, @)]
      /\ UNCHANGED <<shift, post, phase>>
      /\ raced => raced'
      /\ ~raced' /\ c.op = "claim" => post[c.write.target].status = "open"
  BY DEF CommitRequest
<1>2. /\ c.id \in Requests /\ \A r \in Requests \ {c.id} : request'[r] = request[r]
      /\ RowOK(request'[c.id], shift) /\ RequestsFollow
      /\ request' \in [Requests -> {None} \cup RequestRec]
      /\ c.op = "claim" => request'[c.id] = c.write
      /\ c.op # "claim" => ~LiveClaim(request'[c.id])
      /\ \A t \in Sessions \ {s} : call[t].op = "claim" => request'[call[t].id] = None
  BY <1>1, WrittenRow
<1> HIDE DEF c
<1>3. Tables'
  BY <1>1, <1>2 DEF IInv, Tables
<1>4. ShiftsStay /\ SameMade /\ PostsOnward
  BY <1>1 DEF ShiftsStay, SameMade, PostsOnward
<1>5. RowsOK'
  BY <1>2, <1>4, RowsStay DEF IInv
<1>6. ClaimedNamed'
  BY <1>1 DEF IInv, ClaimedNamed
<1>7. FromPosts' /\ OneShiftPerPost'
  BY <1>3, <1>4, <1>5, <1>6, TypesFollowAfter, OneShiftStays DEF IInv
<1>8. HonouredUnlessRaced'
  <2>1. NoOverlap => NoOverlap'
    BY <1>1 DEF NoOverlap, Published, Conflicts
  <2>2. ~raced' => \A r \in Requests : LiveClaim(request'[r]) =>
            \/ LiveClaim(request[r]) /\ request'[r].target = request[r].target
            \/ post'[request'[r].target].status # "claimed"
    BY <1>1, <1>2
  <2> QED BY <1>1, <1>3, <1>4, <2>1, <2>2, HonouredStays DEF IInv
<1>9. Calls'
  BY <1>1, <1>2, <1>4, CallEnds DEF IInv
<1> QED BY <1>3, <1>5, <1>6, <1>7, <1>8, <1>9 DEF IInv

\* A post that is cancelled makes no shift, and one that is claimed by then is
\* not left claimed.
LEMMA CommitUnpostKeeps ==
    ASSUME IInv, NEW s \in Sessions, CommitUnpost(s)
    PROVE  IInv'
<1>1. PICK p \in Posts : /\ p = call[s].id /\ post[p].status # "none" /\ FreeFor(s, {p})
                         /\ post' = [post EXCEPT ![p].status = "cancelled"]
                         /\ raced => raced'
                         /\ Give(s)
                         /\ UNCHANGED <<shift, request, phase>>
  BY DEF CommitUnpost, IInv, Calls, CallOK
<1>2. post[p] \in PostRec
  BY <1>1, Rows DEF IInv
<1>3. /\ post'[p].status = "cancelled" /\ post'[p] \in PostRec
      /\ \A q \in Posts \ {p} : post'[q] = post[q]
  BY <1>1, <1>2 DEF IInv, Tables, PostRec
<1>4. post' \in [Posts -> {None} \cup PostRec]
  BY <1>1, <1>2, <1>3 DEF IInv, Tables
<1>5. Tables'
  BY <1>1, <1>4 DEF IInv, Tables
<1>6. ShiftsStay /\ SameMade /\ PostsOnward /\ RequestsFollow
  BY <1>1, <1>3 DEF ShiftsStay, SameMade, PostsOnward, RequestsFollow, Follows
<1>7. RowsOK' /\ ClaimedNamed'
  BY <1>1, <1>3 DEF IInv, RowsOK, ClaimedNamed
<1>8. FromPosts' /\ OneShiftPerPost'
  BY <1>5, <1>6, <1>7, TypesFollowAfter, OneShiftStays DEF IInv
<1>9. HonouredUnlessRaced'
  <2>1. NoOverlap => NoOverlap'
    BY <1>1 DEF NoOverlap, Published, Conflicts
  <2> QED BY <1>1, <1>3, <1>5, <1>6, <2>1, HonouredStays DEF IInv
<1>10. Calls'
  <2>1. \A t \in Sessions : call[t].op = "claim" => request'[call[t].id] = None
    BY <1>1, ClaimsUntouched DEF IInv
  <2>2. \A t \in Sessions \ {s} : p \notin call[t].held
    BY <1>1 DEF FreeFor
  <2> QED BY <1>1, <1>3, <1>6, <2>1, <2>2, CallEnds DEF IInv
<1> QED BY <1>5, <1>7, <1>8, <1>9, <1>10 DEF IInv

\* What the expiry pass ends is what was there when it looked.
LEMMA CommitExpiryKeeps ==
    ASSUME IInv, NEW s \in Sessions, CommitExpiry(s)
    PROVE  IInv'
<1> DEFINE c == call[s]
<1>1. /\ c.rows \subseteq {q \in Requests : request[q].status # "none"}
      /\ c.posts \subseteq {p \in Posts : post[p].status # "none"}
      /\ FreeFor(s, c.posts) /\ Give(s) /\ UNCHANGED <<shift, phase>>
      /\ raced => raced'
  BY DEF CommitExpiry, IInv, Calls, CallOK
<1>2. /\ request' = [r \in Requests |->
             IF r \in c.rows THEN [request[r] EXCEPT !.status = "expired"] ELSE request[r]]
      /\ post' = [p \in Posts |->
             IF p \in c.posts THEN [post[p] EXCEPT !.status = "expired"] ELSE post[p]]
  BY DEF CommitExpiry
<1> HIDE DEF c
<1>3. ASSUME NEW r \in Requests, r \in c.rows
      PROVE  /\ request'[r] \in RequestRec /\ request'[r].status = "expired"
             /\ RowOK(request'[r], shift) /\ Follows(request[r], request'[r])
  <2>1. request[r] \in RequestRec /\ RowOK(request[r], shift)
    BY <1>1, <1>3 DEF IInv, RowsOK, RowOK
  <2>2. request'[r] = [request[r] EXCEPT !.status = "expired"]
    BY <1>2, <1>3
  <2>3. /\ request'[r] \in RequestRec /\ request'[r].status = "expired"
        /\ request'[r].type = request[r].type /\ request'[r].by = request[r].by
        /\ request'[r].source = request[r].source /\ request'[r].target = request[r].target
        /\ request'[r].candidate = request[r].candidate
    BY <2>1, <2>2 DEF RequestRec, Terminal
  <2> QED BY <2>1, <2>3 DEF RowOK, Follows
<1>4. \A r \in Requests \ c.rows : request'[r] = request[r]
  BY <1>2
<1>5. ASSUME NEW p \in Posts, p \in c.posts
      PROVE  post'[p] \in PostRec /\ post'[p].status = "expired"
  <2>1. post[p] \in PostRec
    BY <1>1, <1>5, Rows DEF IInv
  <2>2. post'[p] = [post[p] EXCEPT !.status = "expired"]
    BY <1>2, <1>5
  <2> QED BY <2>1, <2>2 DEF PostRec
<1>6. \A p \in Posts \ c.posts : post'[p] = post[p]
  BY <1>2
<1>7. Tables'
  <2>1. \A r \in Requests : request'[r] \in {None} \cup RequestRec
    BY <1>3, <1>4 DEF IInv, Tables
  <2>2. \A p \in Posts : post'[p] \in {None} \cup PostRec
    BY <1>5, <1>6 DEF IInv, Tables
  <2>3. request' = [r \in Requests |-> request'[r]] /\ post' = [p \in Posts |-> post'[p]]
    BY <1>2
  <2> QED BY <1>1, <2>1, <2>2, <2>3 DEF IInv, Tables
<1>8. ShiftsStay /\ SameMade /\ PostsOnward /\ RequestsFollow
  <2>1. RequestsFollow
    BY <1>3, <1>4 DEF RequestsFollow, Follows
  <2> QED BY <1>1, <1>5, <1>6, <2>1 DEF ShiftsStay, SameMade, PostsOnward
<1>9. RowsOK'
  BY <1>3, <1>4, <1>8, RowsStay DEF IInv
<1>10. ClaimedNamed'
  <2>1. ASSUME NEW p \in Posts, post'[p].status = "claimed" PROVE post'[p].by \in Users
    BY <1>5, <1>6, <2>1 DEF IInv, ClaimedNamed
  <2> QED BY <2>1 DEF ClaimedNamed
<1>11. FromPosts' /\ OneShiftPerPost'
  BY <1>7, <1>8, <1>9, <1>10, TypesFollowAfter, OneShiftStays DEF IInv
<1>12. HonouredUnlessRaced'
  <2>1. NoOverlap => NoOverlap'
    BY <1>1 DEF NoOverlap, Published, Conflicts
  <2>2. \A p \in Posts : post'[p].status = "claimed" => post[p].status = "claimed"
    BY <1>5, <1>6
  <2>3. \A r \in Requests : LiveClaim(request'[r]) => request'[r] = request[r]
    BY <1>3, <1>4 DEF LiveClaim, Active
  <2> QED BY <1>1, <1>7, <1>8, <2>1, <2>2, <2>3, HonouredStays DEF IInv
<1>13. Calls'
  <2>1. \A r \in Requests : request[r].status = "none" => request'[r] = request[r]
    BY <1>1, <1>4
  <2>2. \A t \in Sessions : call[t].op = "claim" => request'[call[t].id] = None
    BY <2>1, ClaimsUntouched DEF IInv
  <2>3. \A t \in Sessions \ {s} : call[t].held \cap c.posts = {}
    BY <1>1 DEF FreeFor
  <2> QED BY <1>1, <1>6, <1>8, <2>2, <2>3, CallEnds DEF IInv
<1> QED BY <1>7, <1>9, <1>10, <1>11, <1>12, <1>13 DEF IInv
\* An approved trade takes a shift from one person to another, or two shifts
\* the two ways, or off the schedule.
LEMMA MovedShifts ==
    ASSUME IInv, NEW s \in Sessions, CommitMove(s)
    PROVE  LET c == call[s]
               row == call[s].loaded
           IN  /\ shift' \in [Shifts -> {None} \cup ShiftRec]
               /\ row.source \in Shifts
               /\ row.type = "swap" => row.target \in Shifts /\ row.source # row.target
                                       /\ row.candidate # row.by
               /\ c.held = Traded(row)
               /\ row.type \in {"cover", "swap", "drop"}
               /\ \A e \in Shifts \ Traded(row) : shift'[e] = shift[e]
               /\ \A e \in Shifts : /\ shift'[e].status = "none" <=> shift[e].status = "none"
                                    /\ shift[e].status # "none" =>
                                          /\ shift'[e].from = shift[e].from
                                          /\ shift'[e].slot = shift[e].slot
                                    /\ Published(e)' => Published(e)
               /\ row.type = "drop" => shift'[row.source].status # "published"
               /\ row.type \in {"cover", "swap"} => shift'[row.source].user = row.candidate
               /\ row.type = "swap" => shift'[row.target].user = row.by
<1> DEFINE c == call[s]
           row == call[s].loaded
<1>1. /\ c.op = "approve" /\ c.step = "flush" /\ row.type # "pickup"
      /\ CallOK(c, shift, request, post) /\ RowOK(row, shift)
      /\ shift' = Moved(c) /\ c.loaded = row
  BY DEF CommitMove, IInv, Calls, CallOK
<1>2. /\ row \in RequestRec /\ row.type \in {"cover", "swap", "drop"}
      /\ row.source \in Shifts /\ shift[row.source] \in ShiftRec
      /\ row.type = "swap" => /\ row.target \in Shifts /\ shift[row.target] \in ShiftRec
                              /\ row.source # row.target /\ row.candidate # row.by
      /\ row.type \in {"cover", "swap"} => row.candidate \in Users
      /\ row.by \in Users /\ c.held = Traded(row)
  <2>1. row \in RequestRec /\ row.type \in {"cover", "swap", "drop"}
    BY <1>1 DEF RowOK, RequestRec
  <2>2. row.type \in {"cover", "swap"} => row.status = "accepted_by_staff"
    BY <1>1 DEF CallOK
  <2> HIDE DEF c, row
  <2> QED BY <1>1, <2>1, <2>2, Rows DEF RowOK, CallOK, RequestRec, IInv
<1> HIDE DEF c, row
<1>3. shift \in [Shifts -> {None} \cup ShiftRec]
  BY DEF IInv, Tables
<1>4. CASE row.type = "drop"
  <2> DEFINE new == [shift[row.source] EXCEPT !.status = "draft"]
  <2>1. /\ new \in ShiftRec /\ new.status = "draft" /\ new.user = shift[row.source].user
        /\ new.slot = shift[row.source].slot /\ new.from = shift[row.source].from
    BY <1>2 DEF ShiftRec
  <2>2. shift' = [shift EXCEPT ![row.source] = new]
    BY <1>1, <1>4 DEF Moved
  <2> HIDE DEF new
  <2>3. shift'[row.source] = new /\ \A e \in Shifts \ {row.source} : shift'[e] = shift[e]
    BY <1>2, <1>3, <2>2
  <2>4. shift' \in [Shifts -> {None} \cup ShiftRec]
    BY <1>2, <1>3, <2>1, <2>2
  <2> QED BY <1>2, <1>4, <2>1, <2>3, <2>4 DEF Traded, Published, ShiftRec, c, row
<1>5. CASE row.type = "cover"
  <2> DEFINE new == [shift[row.source] EXCEPT !.user = row.candidate]
  <2>1. /\ new \in ShiftRec /\ new.status = shift[row.source].status /\ new.user = row.candidate
        /\ new.slot = shift[row.source].slot /\ new.from = shift[row.source].from
    BY <1>2, <1>5 DEF ShiftRec
  <2>2. shift' = [shift EXCEPT ![row.source] = new]
    BY <1>1, <1>5 DEF Moved
  <2> HIDE DEF new
  <2>3. shift'[row.source] = new /\ \A e \in Shifts \ {row.source} : shift'[e] = shift[e]
    BY <1>2, <1>3, <2>2
  <2>4. shift' \in [Shifts -> {None} \cup ShiftRec]
    BY <1>2, <1>3, <2>1, <2>2
  <2> QED BY <1>2, <1>5, <2>1, <2>3, <2>4 DEF Traded, Published, ShiftRec, c, row
<1>6. CASE row.type = "swap"
  <2> DEFINE new == [shift[row.source] EXCEPT !.user = row.candidate]
             tgt == [shift[row.target] EXCEPT !.user = row.by]
  <2>1. /\ new \in ShiftRec /\ new.status = shift[row.source].status /\ new.user = row.candidate
        /\ new.slot = shift[row.source].slot /\ new.from = shift[row.source].from
    BY <1>2, <1>6 DEF ShiftRec
  <2>2. /\ tgt \in ShiftRec /\ tgt.status = shift[row.target].status /\ tgt.user = row.by
        /\ tgt.slot = shift[row.target].slot /\ tgt.from = shift[row.target].from
    BY <1>2, <1>6 DEF ShiftRec
  <2>3. shift' = [shift EXCEPT ![row.source] = new, ![row.target] = tgt]
    <3>1. shift' = [shift EXCEPT ![row.source].user = row.candidate,
                                 ![row.target].user = row.by]
      BY <1>1, <1>6 DEF Moved
    <3> QED BY <1>2, <1>3, <1>6, <3>1
  <2> HIDE DEF new, tgt
  <2>4. /\ shift'[row.source] = new /\ shift'[row.target] = tgt
        /\ \A e \in Shifts \ {row.source, row.target} : shift'[e] = shift[e]
    BY <1>2, <1>3, <1>6, <2>3
  <2>5. shift' \in [Shifts -> {None} \cup ShiftRec]
    BY <1>2, <1>3, <1>6, <2>1, <2>2, <2>3
  <2> QED BY <1>2, <1>6, <2>1, <2>2, <2>4, <2>5 DEF Traded, Published, ShiftRec, c, row
<1> QED BY <1>2, <1>4, <1>5, <1>6

\* An approved trade leaves nobody with two shifts when nothing it checked has
\* changed.
LEMMA CommitMoveKeeps ==
    ASSUME IInv, NEW s \in Sessions, CommitMove(s)
    PROVE  IInv'
<1> DEFINE c == call[s]
           row == call[s].loaded
<1>1. /\ c.op = "approve" /\ Give(s)
      /\ request' = [request EXCEPT ![c.id] = Laid(c, @)]
      /\ UNCHANGED <<post, phase>>
      /\ raced => raced'
      /\ ~raced' => /\ shift[row.source] = c.src
                    /\ row.type = "cover" => ~Conflicts(row.candidate, c.src.slot, c.held)
                    /\ row.type = "swap" => /\ ~Conflicts(row.by, shift[row.target].slot, c.held)
                                            /\ ~Conflicts(row.candidate, c.src.slot, c.held)
  BY DEF CommitMove
<1>2. /\ c.id \in Requests /\ \A r \in Requests \ {c.id} : request'[r] = request[r]
      /\ RowOK(request'[c.id], shift) /\ RequestsFollow
      /\ request' \in [Requests -> {None} \cup RequestRec]
      /\ ~LiveClaim(request'[c.id])
      /\ \A t \in Sessions \ {s} : call[t].op = "claim" => request'[call[t].id] = None
  BY <1>1, WrittenRow
<1>3. /\ shift' \in [Shifts -> {None} \cup ShiftRec]
      /\ row.source \in Shifts
      /\ row.type = "swap" => row.target \in Shifts /\ row.source # row.target
                              /\ row.candidate # row.by
      /\ c.held = Traded(row)
      /\ row.type \in {"cover", "swap", "drop"}
      /\ \A e \in Shifts \ Traded(row) : shift'[e] = shift[e]
      /\ \A e \in Shifts : /\ shift'[e].status = "none" <=> shift[e].status = "none"
                           /\ shift[e].status # "none" => /\ shift'[e].from = shift[e].from
                                                          /\ shift'[e].slot = shift[e].slot
                           /\ Published(e)' => Published(e)
      /\ row.type = "drop" => shift'[row.source].status # "published"
      /\ row.type \in {"cover", "swap"} => shift'[row.source].user = row.candidate
      /\ row.type = "swap" => shift'[row.target].user = row.by
  BY MovedShifts
<1> HIDE DEF c, row
<1>4. Tables'
  BY <1>1, <1>2, <1>3 DEF IInv, Tables
<1>5. ShiftsStay /\ SameMade /\ PostsOnward
  BY <1>1, <1>3 DEF ShiftsStay, SameMade, PostsOnward
<1>6. RowsOK'
  BY <1>2, <1>5, RowsStay DEF IInv
<1>7. ClaimedNamed'
  BY <1>1 DEF IInv, ClaimedNamed
<1>8. FromPosts' /\ OneShiftPerPost'
  BY <1>4, <1>5, <1>6, <1>7, TypesFollowAfter, OneShiftStays DEF IInv
<1>9. ASSUME ~raced', NoOverlap PROVE NoOverlap'
  <2> DEFINE same(e, f) == /\ Published(e)' /\ Published(f)' /\ e # f
                           /\ shift'[e].user = shift'[f].user
                           /\ shift'[e].slot = shift'[f].slot
  <2>1. ASSUME NEW e \in Shifts, NEW f \in Shifts, same(e, f), f \notin Traded(row)
        PROVE  FALSE
    <3>1. Published(e) /\ Published(f) /\ shift'[f] = shift[f] /\ shift'[e].slot = shift[e].slot
      BY <1>3, <2>1 DEF Published
    <3>2. e \in Traded(row)
      <4>1. e \notin Traded(row) => shift'[e] = shift[e]
        BY <1>3
      <4> QED BY <1>9, <2>1, <3>1, <4>1 DEF NoOverlap, Conflicts, Published
    <3>3. CASE e = row.source
      <4>1. row.type \in {"cover", "swap"} /\ shift'[e].user = row.candidate
        BY <1>3, <2>1, <3>3 DEF Published
      <4>2. ~Conflicts(row.candidate, shift[e].slot, Traded(row))
        BY <1>1, <1>3, <1>9, <3>3, <4>1
      <4> QED BY <2>1, <3>1, <4>1, <4>2 DEF Conflicts
    <3>4. CASE e # row.source
      <4>1. row.type = "swap" /\ e = row.target /\ shift'[e].user = row.by
        BY <1>3, <3>2, <3>4 DEF Traded
      <4>2. ~Conflicts(row.by, shift[e].slot, Traded(row))
        BY <1>1, <1>3, <1>9, <4>1
      <4> QED BY <2>1, <3>1, <4>1, <4>2 DEF Conflicts
    <3> QED BY <3>3, <3>4
  <2>2. ASSUME NEW e \in Shifts, NEW f \in Shifts, same(e, f) PROVE FALSE
    <3>1. same(f, e)
      BY <2>2
    <3>2. e \in Traded(row) /\ f \in Traded(row)
      BY <2>1, <2>2, <3>1
    <3>3. row.type = "swap" /\ {e, f} = {row.source, row.target}
      BY <2>2, <3>2 DEF Traded
    <3> QED BY <1>3, <2>2, <3>3
  <2> QED BY <2>2 DEF NoOverlap, Conflicts, Published
<1>10. HonouredUnlessRaced'
  <2>1. \A r \in Requests : LiveClaim(request'[r]) => request'[r] = request[r]
    BY <1>2
  <2> QED BY <1>1, <1>4, <1>5, <1>9, <2>1, HonouredStays DEF IInv
<1>11. Calls'
  BY <1>1, <1>2, <1>5, CallEnds DEF IInv
<1> QED BY <1>4, <1>6, <1>7, <1>8, <1>10, <1>11 DEF IInv

\* An approved pickup commits on a post that is open still, so no shift was made
\* of it before.
LEMMA CommitPickupKeeps ==
    ASSUME IInv, NEW s \in Sessions, NEW e \in Shifts, CommitPickup(s, e)
    PROVE  IInv'
<1> DEFINE c == call[s]
           p == call[s].loaded.target
           u == call[s].loaded.by
           new == ShiftRow(u, post[p].slot, p)
<1>1. /\ c.op = "approve" /\ c.step = "flush" /\ c.loaded.type = "pickup"
      /\ CallOK(c, shift, request, post) /\ shift[e] = None
      /\ shift' = [shift EXCEPT ![e] = new]
      /\ post' = [post EXCEPT ![p].status = "claimed", ![p].by = u]
      /\ request' = [q \in Requests |->
                        IF q = c.id THEN Laid(c, request[q])
                        ELSE IF q \in c.siblings THEN [request[q] EXCEPT !.status = "expired"]
                        ELSE request[q]]
      /\ raced => raced'
      /\ ~raced' => Siblings(c.id, p) = c.siblings /\ ~Conflicts(u, post[p].slot, {})
      /\ Give(s)
  BY DEF CommitPickup, IInv, Calls
<1>2. /\ p \in Posts /\ u \in Users /\ c.held = {p} /\ post[p].status = "open"
      /\ c.id \in Requests /\ c.siblings \subseteq {q \in Requests : request[q].status # "none"}
      /\ request[c.id].status # "none" /\ request[c.id].target = p
  BY <1>1 DEF CallOK, RowOK, RequestRec, Follows, Active
<1>3. post[p] \in PostRec
  BY <1>2, Rows DEF IInv
<1>4. /\ new \in ShiftRec /\ new.from = p /\ new.user = u /\ new.slot = post[p].slot
      /\ new.status = "published"
  BY <1>2, <1>3 DEF ShiftRow, ShiftRec, PostRec
<1>5. /\ RowOK(Laid(c, request[c.id]), shift) /\ Follows(request[c.id], Laid(c, request[c.id]))
      /\ ~LiveClaim(Laid(c, request[c.id]))
  <2>1. RowOK(request[c.id], shift)
    BY <1>2 DEF IInv, RowsOK
  <2> HIDE DEF c
  <2> QED BY <1>1, <2>1, LaidRow DEF LiveClaim
<1> DEFINE laid == Laid(c, request[c.id])
<1>6. /\ request'[c.id] = laid
      /\ \A q \in c.siblings \ {c.id} : request'[q] = [request[q] EXCEPT !.status = "expired"]
      /\ \A q \in Requests \ (c.siblings \cup {c.id}) : request'[q] = request[q]
  BY <1>1, <1>2
<1> HIDE DEF new, laid, c, p, u
<1>7. shift'[e] = new /\ \A f \in Shifts \ {e} : shift'[f] = shift[f]
  BY <1>1 DEF IInv, Tables
<1> DEFINE taken == [post[p] EXCEPT !.status = "claimed", !.by = u]
<1>8. taken \in PostRec /\ taken.status = "claimed" /\ taken.by = u
  BY <1>2, <1>3 DEF PostRec
<1>9. post' = [post EXCEPT ![p] = taken]
  BY <1>1, <1>2 DEF IInv, Tables
<1> HIDE DEF taken
<1>10. post'[p] = taken /\ \A q \in Posts \ {p} : post'[q] = post[q]
  BY <1>2, <1>9 DEF IInv, Tables
<1>11. ASSUME NEW q \in c.siblings, q # c.id
       PROVE  /\ request'[q] \in RequestRec /\ request'[q].status = "expired"
              /\ RowOK(request'[q], shift) /\ Follows(request[q], request'[q])
  <2>1. request[q] \in RequestRec /\ RowOK(request[q], shift)
    BY <1>2 DEF IInv, RowsOK, RowOK
  <2>2. request'[q] = [request[q] EXCEPT !.status = "expired"]
    BY <1>6, <1>11
  <2>3. /\ request'[q] \in RequestRec /\ request'[q].status = "expired"
        /\ request'[q].type = request[q].type /\ request'[q].by = request[q].by
        /\ request'[q].source = request[q].source /\ request'[q].target = request[q].target
        /\ request'[q].candidate = request[q].candidate
    BY <2>1, <2>2 DEF RequestRec, Terminal
  <2> QED BY <2>1, <2>3 DEF RowOK, Follows
<1>12. Tables'
  <2>1. \A q \in Requests : request'[q] \in {None} \cup RequestRec
    BY <1>5, <1>6, <1>11 DEF IInv, Tables, RowOK, laid
  <2>2. request' = [q \in Requests |-> request'[q]]
    BY <1>1
  <2>3. shift' \in [Shifts -> {None} \cup ShiftRec]
    <3>1. shift' = [shift EXCEPT ![e] = new] /\ shift \in [Shifts -> {None} \cup ShiftRec]
      BY <1>1 DEF IInv, Tables
    <3> QED BY <1>4, <3>1
  <2>4. post' \in [Posts -> {None} \cup PostRec]
    BY <1>8, <1>9 DEF IInv, Tables
  <2> QED BY <2>1, <2>2, <2>3, <2>4 DEF Tables
<1>13. shift[e].status = "none"
  BY <1>1 DEF None
<1>14. ShiftsStay /\ PostsOnward /\ RequestsFollow
  <2>1. RequestsFollow
    BY <1>5, <1>6, <1>11 DEF RequestsFollow, Follows, laid
  <2> QED BY <1>7, <1>8, <1>10, <1>13, <2>1 DEF ShiftsStay, PostsOnward
<1>15. RowsOK'
  <2>1. \A r \in Requests : \/ request'[r] = request[r]
                            \/ request'[r].status # "none" => RowOK(request'[r], shift)
    BY <1>5, <1>6, <1>11 DEF laid
  <2> QED BY <1>14, <2>1, RowsStay DEF IInv
<1>16. ClaimedNamed'
  <2>1. ASSUME NEW q \in Posts, post'[q].status = "claimed" PROVE post'[q].by \in Users
    BY <1>2, <1>8, <1>10, <2>1 DEF IInv, ClaimedNamed
  <2> QED BY <2>1 DEF ClaimedNamed
<1>17. FromPosts'
  <2>1. ASSUME NEW f \in Shifts, shift'[f].status # "none", shift'[f].from # Nobody
        PROVE  post'[shift'[f].from].status \notin {"none", "open"}
    <3>1. CASE f = e
      BY <1>4, <1>7, <1>8, <1>10, <3>1
    <3>2. CASE f # e
      <4>1. shift'[f] = shift[f] /\ post[shift[f].from].status \notin {"none", "open"}
        BY <1>7, <2>1, <3>2 DEF IInv, FromPosts
      <4>2. shift[f].from \in Posts
        BY <2>1, <4>1, Rows DEF IInv, ShiftRec
      <4> QED BY <1>14, <4>1, <4>2 DEF PostsOnward
    <3> QED BY <3>1, <3>2
  <2> QED BY <2>1 DEF FromPosts
<1>18. OneShiftPerPost'
  <2>1. TypeOK'
    BY <1>12, <1>15, <1>16, TypesFollowAfter
  <2>2. ASSUME NEW f \in Shifts \ {e}, shift[f] # None, shift[f].from = p
        PROVE  p = Nobody
    BY <1>2, <2>2, Rows DEF IInv, FromPosts
  <2>3. ASSUME NEW f \in Shifts, NEW g \in Shifts, shift'[f] # None, shift'[g] # None,
               shift'[f].from = shift'[g].from, f # g
        PROVE  shift'[f].from = Nobody
    <3>1. CASE f # e /\ g # e
      BY <1>7, <2>3, <3>1 DEF IInv, OneShiftPerPost
    <3>2. CASE f = e \/ g = e
      BY <1>4, <1>7, <2>2, <2>3, <3>2
    <3> QED BY <3>1, <3>2
  <2> QED BY <2>1, <2>3 DEF OneShiftPerPost
<1>19. HonouredUnlessRaced'
  <2> SUFFICES ASSUME ~raced' PROVE HonouredUnlessRaced'
    BY DEF HonouredUnlessRaced
  <2>1. ASSUME NEW f \in Shifts, NEW g \in Shifts, f # g, Published(f)', Published(g)',
               shift'[f].user = shift'[g].user, shift'[f].slot = shift'[g].slot
        PROVE  FALSE
    <3>1. \A h \in Shifts \ {e} : ~(/\ Published(h) /\ shift[h].user = u
                                    /\ shift[h].slot = post[p].slot)
      BY <1>1 DEF Conflicts
    <3>2. CASE f # e /\ g # e
      BY <1>1, <1>7, <2>1, <3>2 DEF IInv, HonouredUnlessRaced, Conflicts, Published
    <3>3. CASE f = e \/ g = e
      BY <1>4, <1>7, <2>1, <3>1, <3>3 DEF Published
    <3> QED BY <3>2, <3>3
  <2>2. ASSUME NEW q \in Requests, LiveClaim(request'[q])
        PROVE  request'[q] = request[q] /\ request[q].target # p
    <3>1. q # c.id
      BY <1>5, <1>6, <2>2 DEF laid
    <3>2. q \notin c.siblings
      BY <1>11, <2>2, <3>1 DEF LiveClaim, Active
    <3>3. request'[q] = request[q]
      BY <1>6, <3>1, <3>2
    <3>4. q \notin Siblings(c.id, p)
      BY <1>1, <3>2
    <3> QED BY <2>2, <3>1, <3>3, <3>4 DEF Siblings, LiveClaim
  <2>3. ASSUME NEW q \in Posts, post'[q].status = "claimed"
        PROVE  /\ \E f \in Shifts : shift'[f] # None /\ shift'[f].from = q
               /\ Siblings(Nobody, q)' = {}
    <3>1. CASE q = p
      <4>1. shift'[e] # None /\ shift'[e].from = p
        BY <1>4, <1>7 DEF None
      <4>2. Siblings(Nobody, q)' = {}
        BY <2>2, <3>1 DEF Siblings, LiveClaim
      <4> QED BY <3>1, <4>1, <4>2
    <3>2. CASE q # p
      <4>1. post[q].status = "claimed"
        BY <1>10, <2>3, <3>2
      <4>2. PICK f \in Shifts : shift[f] # None /\ shift[f].from = q
        BY <1>1, <4>1 DEF IInv, HonouredUnlessRaced
      <4>3. shift'[f] # None /\ shift'[f].from = q
        BY <1>1, <1>7, <4>2
      <4>4. Siblings(Nobody, q) = {}
        BY <1>1, <4>1 DEF IInv, HonouredUnlessRaced
      <4>5. Siblings(Nobody, q)' = {}
        <5>1. ASSUME NEW x \in Requests \ {Nobody}, LiveClaim(request'[x]), request'[x].target = q
              PROVE  FALSE
          BY <2>2, <4>4, <5>1 DEF Siblings, LiveClaim
        <5> QED BY <5>1 DEF Siblings, LiveClaim
      <4> QED BY <4>3, <4>5
    <3> QED BY <3>1, <3>2
  <2> QED BY <2>1, <2>3 DEF HonouredUnlessRaced, Conflicts, Published
<1>20. Calls'
  <2>1. \A r \in Requests : request[r].status = "none" => request'[r] = request[r]
    BY <1>2, <1>6
  <2>2. \A t \in Sessions : call[t].op = "claim" => request'[call[t].id] = None
    BY <2>1, ClaimsUntouched DEF IInv
  <2>3. \A t \in Sessions \ {s} : p \notin call[t].held
    BY <1>2 DEF IInv, Calls, c
  <2> QED BY <1>1, <1>10, <1>14, <2>2, <2>3, CallEnds DEF IInv
<1> QED BY <1>12, <1>15, <1>16, <1>17, <1>18, <1>19, <1>20 DEF IInv
-----------------------------------------------------------------------------
(***************************************************************************)
(* Every step                                                              *)
(***************************************************************************)

\* A published week, and no request yet.
LEMMA InitIInv ==
    ASSUME Init
    PROVE  IInv
<1>1. \A u \in Users, k \in Slots : ShiftRow(u, k, Nobody) \in ShiftRec
                                    /\ ShiftRow(u, k, Nobody).from = Nobody
  BY DEF ShiftRow, ShiftRec
<1>2. Tables
  BY <1>1 DEF Init, Tables
<1>3. /\ \A r \in Requests : request[r].status = "none"
      /\ \A p \in Posts : post[p].status = "none"
      /\ \A s \in Sessions : call[s].op = "idle" /\ call[s].held = {}
  BY DEF Init, None, Idle
<1>4. \A e \in Shifts : shift[e].status # "none" => shift[e].from = Nobody
  BY <1>1 DEF Init, None
<1>5. RowsOK /\ ClaimedNamed /\ FromPosts
  BY <1>3, <1>4 DEF RowsOK, ClaimedNamed, FromPosts
<1>6. Calls
  BY <1>3 DEF Init, Calls, CallOK
<1>7. OneShiftPerPost
  BY <1>2, <1>4, <1>5, TypesFollow, Rows DEF OneShiftPerPost
<1>8. NoOverlap
  BY <1>2, Rows DEF Init, NoOverlap, Conflicts, Published
<1>9. HonouredUnlessRaced
  BY <1>3, <1>8 DEF HonouredUnlessRaced, NoOverlap
<1> QED BY <1>2, <1>5, <1>6, <1>7, <1>9 DEF IInv

\* Every step keeps the invariant.
LEMMA NextIInv ==
    ASSUME IInv, [Next]_vars
    PROVE  IInv'
<1>1. CASE Next
  <2>1. ASSUME NEW r \in Requests, NEW u \in Users, NEW e \in Shifts, CreateRequest(r, u, e)
        PROVE  IInv'
    BY <2>1, CreateRequestKeeps
  <2>2. ASSUME NEW p \in Posts, CreatePost(p) PROVE IInv'
    BY <2>2, CreatePostKeeps
  <2>3. ASSUME NEW s \in Sessions, BeginCall(s) PROVE IInv'
    BY <2>3, BeginCallKeeps
  <2>4. ASSUME NEW s \in Sessions, Advance(s) PROVE IInv'
    BY <2>4, LockKeeps, CommitRequestKeeps, CommitMoveKeeps, CommitUnpostKeeps,
       CommitExpiryKeeps, CommitPickupKeeps DEF Advance
  <2>5. ASSUME NEW s \in Sessions, RollBack(s) PROVE IInv'
    BY <2>5, RollBackKeeps
  <2>6. ASSUME NEW k \in Slots, Pass(k) PROVE IInv'
    <3>1. UNCHANGED <<shift, request, post, call, raced>>
      BY <2>6 DEF Pass
    <3>2. Calls'
      BY <3>1 DEF IInv, Calls
    <3> QED BY <3>1, <3>2, OnlyCalls
  <2>7. ASSUME NEW e \in Shifts, ClockIn(e) PROVE IInv'
    BY <2>7, ClockInKeeps
  <2> QED BY <1>1, <2>1, <2>2, <2>3, <2>4, <2>5, <2>6, <2>7 DEF Next, Environment
<1>2. CASE UNCHANGED vars
  <2>1. Calls'
    BY <1>2 DEF vars, IInv, Calls
  <2> QED BY <1>2, <2>1, OnlyCalls DEF vars
<1> QED BY <1>1, <1>2

\* A step that found its rows as it had loaded them writes over nothing that
\* had ended.
LEMMA EndsStay ==
    ASSUME IInv, [Next]_vars
    PROVE  ~raced' =>
               /\ \A r \in Requests : request[r].status \in Terminal =>
                                         request'[r].status = request[r].status
               /\ \A p \in Posts : post[p].status \in {"claimed", "cancelled", "expired"} =>
                                      post'[p].status = post[p].status
<1> DEFINE Requests1 == \A r \in Requests : request[r].status \in Terminal =>
                                                request'[r].status = request[r].status
           Posts1 == \A p \in Posts : post[p].status \in {"claimed", "cancelled", "expired"} =>
                                          post'[p].status = post[p].status
<1> SUFFICES ASSUME ~raced' PROVE Requests1 /\ Posts1
  OBVIOUS
<1>1. ASSUME UNCHANGED <<request, post>> PROVE Requests1 /\ Posts1
  BY <1>1
<1>2. UNCHANGED vars => UNCHANGED <<request, post>>
  BY DEF vars
<1>3. ASSUME NEW r \in Requests, NEW u \in Users, NEW e \in Shifts, CreateRequest(r, u, e)
      PROVE  Requests1 /\ Posts1
  <2>1. request[r].status = "none" /\ UNCHANGED post
    BY <1>3 DEF CreateRequest, Unused, None
  <2>2. \A q \in Requests \ {r} : request'[q] = request[q]
    BY <1>3 DEF CreateRequest, IInv, Tables
  <2> QED BY <2>1, <2>2 DEF Terminal
<1>4. ASSUME NEW p \in Posts, CreatePost(p) PROVE Requests1 /\ Posts1
  <2>1. post[p].status = "none" /\ UNCHANGED request
    BY <1>4 DEF CreatePost, None
  <2>2. \A q \in Posts \ {p} : post'[q] = post[q]
    BY <1>4 DEF CreatePost, IInv, Tables
  <2> QED BY <2>1, <2>2
<1>5. ASSUME NEW s \in Sessions, BeginCall(s) PROVE UNCHANGED <<request, post>>
  BY <1>5 DEF BeginCall, BeginClose, BeginApprove, BeginAccept, BeginClaim, BeginCancelPost,
              BeginExpiry, Begin
<1>6. ASSUME NEW s \in Sessions, LockShifts(s) \/ LockPost(s) \/ RollBack(s)
      PROVE  UNCHANGED <<request, post>>
  BY <1>6 DEF LockShifts, LockPost, RollBack
<1>7. ASSUME NEW s \in Sessions, CommitRequest(s) \/ CommitMove(s) PROVE Requests1 /\ Posts1
  <2> DEFINE c == call[s]
  <2>1. /\ c.op \in {"claim", "close", "accept", "approve"}
        /\ request' = [request EXCEPT ![c.id] = Laid(c, @)]
        /\ request[c.id] = c.loaded /\ UNCHANGED post
    BY <1>7 DEF CommitRequest, CommitMove, Stale
  <2>2. /\ \A r \in Requests \ {c.id} : request'[r] = request[r]
        /\ c.op = "claim" => request[c.id] = None
        /\ c.op # "claim" => c.loaded.status \in Active
    BY <2>1, WrittenRow
  <2>3. request[c.id].status \notin Terminal
    BY <2>1, <2>2 DEF None, Active, Terminal
  <2> QED BY <2>1, <2>2, <2>3
<1>8. ASSUME NEW s \in Sessions, NEW e \in Shifts, CommitPickup(s, e) PROVE Requests1 /\ Posts1
  <2> DEFINE c == call[s]
             p == c.loaded.target
  <2>1. /\ post[p].status = "open" /\ request[c.id] = c.loaded /\ c.loaded.status \in Active
        /\ c.siblings = Siblings(c.id, p)
    BY <1>8 DEF CommitPickup, Stale, IInv, Calls, CallOK
  <2>2. \A r \in Requests : r # c.id /\ r \notin c.siblings => request'[r] = request[r]
    BY <1>8 DEF CommitPickup
  <2>3. \A q \in Posts \ {p} : post'[q] = post[q]
    BY <1>8 DEF CommitPickup, IInv, Tables
  <2>4. \A r \in c.siblings \cup {c.id} : request[r].status \notin Terminal
    BY <2>1 DEF Siblings, Active, Terminal
  <2> QED BY <2>1, <2>2, <2>3, <2>4
<1>9. ASSUME NEW s \in Sessions, CommitUnpost(s) PROVE Requests1 /\ Posts1
  <2>1. post[call[s].id].status = "open" /\ UNCHANGED request
    BY <1>9 DEF CommitUnpost
  <2>2. \A q \in Posts \ {call[s].id} : post'[q] = post[q]
    BY <1>9 DEF CommitUnpost, IInv, Tables
  <2> QED BY <2>1, <2>2
<1>10. ASSUME NEW s \in Sessions, CommitExpiry(s) PROVE Requests1 /\ Posts1
  <2>1. call[s].rows \subseteq Due /\ call[s].posts \subseteq DuePosts
    BY <1>10 DEF CommitExpiry
  <2>2. /\ \A r \in Requests \ call[s].rows : request'[r] = request[r]
        /\ \A p \in Posts \ call[s].posts : post'[p] = post[p]
    BY <1>10 DEF CommitExpiry
  <2> QED BY <2>1, <2>2 DEF Due, DuePosts, Active, Terminal
<1>11. ASSUME NEW s \in Sessions, Advance(s) PROVE Requests1 /\ Posts1
  <2> HIDE DEF Requests1, Posts1
  <2>1. CASE LockShifts(s) \/ LockPost(s)
    BY <1>1, <1>6, <2>1
  <2>2. CASE \E e \in Shifts : CommitPickup(s, e)
    BY <1>8, <2>2
  <2> QED BY <1>7, <1>9, <1>10, <1>11, <2>1, <2>2 DEF Advance
<1>12. (\E k \in Slots : Pass(k)) \/ (\E e \in Shifts : ClockIn(e)) => UNCHANGED <<request, post>>
  BY DEF Pass, ClockIn
<1> HIDE DEF Requests1, Posts1
<1>13. CASE Next
  BY <1>1, <1>3, <1>4, <1>5, <1>6, <1>11, <1>12, <1>13 DEF Next, Environment
<1> QED BY <1>1, <1>2, <1>13

-----------------------------------------------------------------------------
(***************************************************************************)
(* Theorems                                                                *)
(***************************************************************************)

\* The invariant: rows in order, calls that know whose request they decide, and
\* a locked post that stays open (staff_shift_requests.py, open_shifts.py).
THEOREM ShiftRequestsInvariant == Spec => []IInv
<1>1. Init => IInv
  BY InitIInv
<1>2. IInv /\ [Next]_vars => IInv'
  BY NextIInv
<1> QED BY <1>1, <1>2, PTL DEF Spec

\* However many claims are approved at once, and whatever overwrites its status,
\* a post becomes one shift at most: lock_open_post holds it from the check to
\* the COMMIT.
THEOREM OneShiftPerPostHolds == Spec => []OneShiftPerPost
<1>1. IInv => OneShiftPerPost
  BY DEF IInv
<1> QED BY <1>1, ShiftRequestsInvariant, PTL

\* While every request committed on checks that still held, nobody has two shifts
\* at a time and a claimed post has its shift and no claim left.
THEOREM HonouredUnlessRacedHolds == Spec => []HonouredUnlessRaced
<1>1. IInv => HonouredUnlessRaced
  BY DEF IInv
<1> QED BY <1>1, ShiftRequestsInvariant, PTL

\* A request or a post that ended is only ever reopened or ended otherwise by a
\* call that wrote over a row it had loaded before.
THEOREM FinalUnlessRacedHolds == Spec => FinalUnlessRaced
<1> DEFINE Ends == ~raced' =>
               /\ \A r \in Requests : request[r].status \in Terminal =>
                                         request'[r].status = request[r].status
               /\ \A p \in Posts : post[p].status \in {"claimed", "cancelled", "expired"} =>
                                      post'[p].status = post[p].status
<1>1. IInv /\ [Next]_vars => [Ends]_vars
  BY EndsStay
<1> HIDE DEF Ends
<1>2. Spec => [][Ends]_vars
  BY <1>1, ShiftRequestsInvariant, PTL DEF Spec
<1> QED BY <1>2 DEF FinalUnlessRaced, Ends
=============================================================================
