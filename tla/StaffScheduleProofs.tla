-------------------------- MODULE StaffScheduleProofs --------------------------
(***************************************************************************)
(* What the weekly schedule, time off and the time clock keep, for any     *)
(* staff, any shifts and any number of requests in flight.  The two        *)
(* specifications are independent and share no name.                       *)
(*                                                                         *)
(* The schedule: a request carries what it loaded and what it will write   *)
(* (CallOK), and that is all it knows of the entries: they may change      *)
(* under it.  What it knows of time off is what it locked.  A publication  *)
(* found no approval among the rows it locked, and while it holds them     *)
(* none is approved: this is the part of CallOK that other transactions    *)
(* could break, and the reason a publication needs no second look at its   *)
(* commit.                                                                 *)
(*                                                                         *)
(* The clock (second part): a punch added by a call whose last punch is    *)
(* still the last one ends the timeline, so the rest of it stands.         *)
(***************************************************************************)
EXTENDS StaffSchedule, Attendance, FiniteSetTheorems, WellFoundedInduction, TLAPS

EntryRec == [status : {"draft", "published"}, user : Users, slot : Slots]
OffRec == [status : {"pending", "approved", "denied", "cancelled"}, user : Users, slot : Slots]

OnEntries == {"create", "move", "edit", "delete", "retract", "publish"}
OnOff == {"close", "amend", "approve"}

\* Two shifts that are not of the same person at the same time.
Apart(row, other) == row.user # other.user \/ row.slot # other.slot

\* What a request makes of a row it loaded.
Rewrite(op, old, new) ==
    CASE op = "create" -> old = None /\ new \in EntryRec
      [] op = "move" -> /\ {old, new} \subseteq EntryRec
                        /\ old.status = "draft" /\ new.status = "draft"
                        /\ new.user = old.user
      [] op = "edit" -> /\ {old, new} \subseteq EntryRec
                        /\ old.status = "published" /\ new.status = "published"
                        /\ new.user = old.user
      [] op = "delete" -> old \in EntryRec /\ old.status = "draft" /\ new = None
      [] op = "retract" -> /\ {old, new} \subseteq EntryRec
                           /\ old.status = "published" /\ new.status = "draft"
                           /\ new.user = old.user /\ new.slot = old.slot
      [] op = "publish" -> /\ {old, new} \subseteq EntryRec
                           /\ old.status = "draft"
                           /\ new.user = old.user /\ new.slot = old.slot
      [] op = "close" -> /\ {old, new} \subseteq OffRec
                         /\ old.status = "pending" /\ new.status \in {"cancelled", "denied"}
                         /\ new.user = old.user /\ new.slot = old.slot
      [] op = "amend" -> /\ {old, new} \subseteq OffRec
                         /\ old.status = "pending" /\ new.status = "pending"
                         /\ new.user = old.user
      [] op = "approve" -> /\ {old, new} \subseteq OffRec
                           /\ old.status = "pending" /\ new.status = "approved"
                           /\ new.user = old.user /\ new.slot = old.slot
      [] OTHER -> FALSE

IsCall(c) == c = [op |-> c.op, step |-> c.step, loaded |-> c.loaded, write |-> c.write,
                  found |-> c.found, wanted |-> c.wanted]

\* A request, with time off as it is by now.
CallOK(c, absence) ==
    /\ IsCall(c)
    /\ c.step \in {"look", "lock", "flush"} => c.op \in OnEntries \cup OnOff
    /\ c.step \in {"look", "lock"} => c.op \in {"publish", "approve"}
    /\ c.op \in OnEntries => DOMAIN c.loaded \subseteq Entries
    /\ c.op \in OnOff => DOMAIN c.loaded \subseteq Requests
    /\ DOMAIN c.write \subseteq DOMAIN c.loaded
    /\ \A x \in DOMAIN c.write : Rewrite(c.op, c.loaded[x], c.write[x])
    /\ c.op \in {"create", "move", "edit"} =>
          \A x, y \in DOMAIN c.write : x # y => Apart(c.write[x], c.write[y])
    /\ c.op = "publish" =>
          /\ \A x \in DOMAIN c.loaded : c.loaded[x] \in EntryRec /\ c.loaded[x].status = "draft"
          /\ DOMAIN c.write \subseteq DOMAIN c.found
          /\ \A x \in DOMAIN c.write : c.write[x].status = "published" =>
                \A o \in c.found[x] \cap Requests :
                    absence[o].status = "approved" => Apart(c.loaded[x], absence[o])
    /\ c.op \in OnOff => \A o \in DOMAIN c.loaded : absence[o].status # "none"
    /\ c.step = "lock" => \E x \in DOMAIN c.loaded : DOMAIN c.wanted = {x}

NoTwins == \A e, d \in Entries :
    e # d /\ entry[e].status # "none" /\ entry[d].status # "none" => Apart(entry[e], entry[d])

Clear == \A e \in Entries, o \in Requests :
    entry[e].status = "published" /\ off[o].status = "approved" => Apart(entry[e], off[o])

IInv ==
    /\ TypeOK
    /\ call = [s \in Sessions |-> call[s]]
    /\ \A s \in Sessions : CallOK(call[s], off)
    /\ ~raced => NoTwins /\ Clear

-----------------------------------------------------------------------------
(***************************************************************************)
(* Rows and calls                                                          *)
(***************************************************************************)
LEMMA Rows ==
    ASSUME TypeOK
    PROVE  /\ \A e \in Entries : \/ entry[e] = None /\ entry[e].status = "none"
                                 \/ entry[e] \in EntryRec /\ entry[e].status # "none"
                                    /\ entry[e] # None
           /\ \A o \in Requests : \/ off[o] = None /\ off[o].status = "none"
                                  \/ off[o] \in OffRec /\ off[o].status # "none"
                                     /\ off[o] # None
BY DEF TypeOK, EntryRows, OffRows, EntryRec, OffRec, None

\* A row of a table: it overlaps another when they are not apart.
LEMMA Overlaps ==
    ASSUME NEW row, NEW other, row.status # "none", other.status # "none"
    PROVE  Over(row, other) <=> ~Apart(row, other)
BY DEF Over, Apart, None

\* The calls of the other sessions keep what they know when time off changes
\* outside what they hold.
LEMMA CallStays ==
    ASSUME NEW c, NEW a, NEW b, CallOK(c, a),
           \A o \in Requests : /\ a[o].status # "none" => b[o].status # "none"
                               /\ b[o] = a[o] \/ b[o].status # "approved" \/ o \notin Held(c)
    PROVE  CallOK(c, b)
<1>1. ASSUME c.op = "publish", NEW x \in DOMAIN c.write, c.write[x].status = "published",
             NEW o \in c.found[x] \cap Requests, b[o].status = "approved"
      PROVE  Apart(c.loaded[x], b[o])
  <2>1. x \in DOMAIN c.found /\ o \in Held(c)
    BY <1>1 DEF CallOK, Held
  <2> QED BY <1>1, <2>1 DEF CallOK
<1>2. ASSUME c.op \in OnOff, NEW o \in DOMAIN c.loaded PROVE b[o].status # "none"
  BY <1>2 DEF CallOK
<1> QED BY <1>1, <1>2 DEF CallOK

\* No two transactions hold a lock as long as one takes none or waits for it.
LEMMA LocksApart ==
    ASSUME IInv, NEW s \in Sessions, NEW c, call' = [call EXCEPT ![s] = c],
           \A t \in Sessions \ {s} : Held(call[t]) \cap (Held(c) \ Held(call[s])) = {}
    PROVE  \A t, u \in Sessions : t # u => Held(call'[t]) \cap Held(call'[u]) = {}
<1>1. \A t \in Sessions : call'[t] = IF t = s THEN c ELSE call[t]
  BY DEF IInv
<1>2. \A t, u \in Sessions : t # u => Held(call[t]) \cap Held(call[u]) = {}
  BY DEF IInv, TypeOK
<1> QED BY <1>1, <1>2

\* Steps that only move one call.
LEMMA OneCall ==
    ASSUME IInv, NEW s \in Sessions, NEW c, call' = [call EXCEPT ![s] = c],
           UNCHANGED <<entry, off, raced>>, CallOK(c, off),
           \A t \in Sessions \ {s} : Held(call[t]) \cap (Held(c) \ Held(call[s])) = {}
    PROVE  IInv'
<1>1. TypeOK'
  BY LocksApart DEF IInv, TypeOK
<1>2. \A t \in Sessions : call'[t] = IF t = s THEN c ELSE call[t]
  BY DEF IInv
<1>3. call' = [t \in Sessions |-> call'[t]]
  BY DEF IInv
<1>4. \A t \in Sessions : CallOK(call'[t], off')
  BY <1>2 DEF IInv
<1>5. (~raced => NoTwins /\ Clear)'
  BY DEF IInv, NoTwins, Clear
<1> QED BY <1>1, <1>3, <1>4, <1>5 DEF IInv

\* An idle session is well formed and holds no lock.
LEMMA IdleOK ==
    ASSUME NEW a
    PROVE  CallOK(Idle, a) /\ Held(Idle) = {}
<1>1. Idle = [op |-> "idle", step |-> "none", loaded |-> Nothing, write |-> Nothing,
              found |-> Nothing, wanted |-> Nothing]
  BY DEF Idle, Ready
<1>2. DOMAIN Nothing = {}
  BY DEF Nothing
<1> HIDE DEF Idle
<1> QED BY <1>1, <1>2 DEF CallOK, IsCall, Held, OnEntries, OnOff
-----------------------------------------------------------------------------
(***************************************************************************)
(* A request begins                                                        *)
(***************************************************************************)
LEMMA ReadyShape ==
    ASSUME NEW op, NEW loaded, NEW write
    PROVE  /\ Ready(op, loaded, write).op = op /\ Ready(op, loaded, write).step = "flush"
           /\ Ready(op, loaded, write).loaded = loaded /\ Ready(op, loaded, write).write = write
           /\ Ready(op, loaded, write).found = Nothing
           /\ Ready(op, loaded, write).wanted = Nothing
           /\ Held(Ready(op, loaded, write)) = {}
           /\ Ready(op, loaded, write) = [op |-> op, step |-> "flush", loaded |-> loaded,
                 write |-> write, found |-> Nothing, wanted |-> Nothing]
<1>1. DOMAIN Nothing = {}
  BY DEF Nothing
<1> QED BY <1>1 DEF Ready, Held

\* A request about one row.
LEMMA OneRow ==
    ASSUME NEW op \in {"create", "move", "edit", "delete", "retract", "close", "amend", "approve"},
           NEW x, op \in OnEntries => x \in Entries, op \in OnOff => x \in Requests,
           NEW a, op \in OnOff => a[x].status # "none",
           NEW old, NEW new, Rewrite(op, old, new)
    PROVE  /\ CallOK(Ready(op, Only(x, old), Only(x, new)), a)
           /\ op = "approve" =>
                 /\ CallOK([Ready(op, Only(x, old), Only(x, new)) EXCEPT !.step = "look"], a)
                 /\ Held([Ready(op, Only(x, old), Only(x, new)) EXCEPT !.step = "look"]) = {}
<1> DEFINE c == Ready(op, Only(x, old), Only(x, new))
           d == [c EXCEPT !.step = "look"]
<1>1. /\ DOMAIN Only(x, old) = {x} /\ DOMAIN Only(x, new) = {x}
      /\ Only(x, old)[x] = old /\ Only(x, new)[x] = new
  BY DEF Only
<1>2. c = [op |-> op, step |-> "flush", loaded |-> Only(x, old), write |-> Only(x, new),
           found |-> Nothing, wanted |-> Nothing]
  BY ReadyShape
<1>3. d = [op |-> op, step |-> "look", loaded |-> Only(x, old), write |-> Only(x, new),
           found |-> Nothing, wanted |-> Nothing]
  BY <1>2
<1>4. DOMAIN Nothing = {}
  BY DEF Nothing
<1> HIDE DEF c, d
<1>5. CallOK(c, a)
  BY <1>1, <1>2 DEF CallOK, IsCall, OnEntries, OnOff
<1>6. op = "approve" => CallOK(d, a)
  BY <1>1, <1>3 DEF CallOK, IsCall, OnEntries, OnOff
<1>7. Held(d) = {}
  BY <1>3, <1>4 DEF Held
<1> QED BY <1>5, <1>6, <1>7 DEF c, d

\* A request that begins with no lock held keeps the invariant.
LEMMA Begins ==
    ASSUME IInv, NEW s \in Sessions, NEW c, Begin(s, c), CallOK(c, off), Held(c) = {}
    PROVE  IInv'
BY OneCall DEF Begin

\* A request on one entry begins by loading that entry.
LEMMA BeginEntry ==
    ASSUME IInv, NEW s \in Sessions, NEW e \in Entries,
           \/ BeginCreate(s, e) \/ BeginMove(s, e) \/ BeginMovePublished(s, e)
           \/ BeginDelete(s, e) \/ BeginRetract(s, e)
    PROVE  IInv'
<1>1. \/ entry[e] = None /\ entry[e].status = "none"
      \/ entry[e] \in EntryRec /\ entry[e].status # "none"
  BY Rows DEF IInv
<1> DEFINE Begun(op, new) == Begin(s, Ready(op, Only(e, entry[e]), Only(e, new)))
<1>2. ASSUME NEW op \in {"create", "move", "edit", "delete", "retract"}, NEW new,
             Rewrite(op, entry[e], new), Begun(op, new)
      PROVE  IInv'
  <2>1. CallOK(Ready(op, Only(e, entry[e]), Only(e, new)), off)
    BY <1>2, OneRow DEF OnEntries, OnOff
  <2> QED BY <1>2, <2>1, Begins, ReadyShape
<1>3. CASE BeginCreate(s, e)
  <2>1. PICK st \in {"draft", "published"}, u \in Users, k \in Slots :
            entry[e] = None /\ Begun("create", Row(st, u, k))
    BY <1>3 DEF BeginCreate, Unused
  <2>2. Rewrite("create", entry[e], Row(st, u, k))
    BY <2>1 DEF Rewrite, EntryRec, Row
  <2> QED BY <2>1, <2>2, <1>2
<1>4. CASE BeginMove(s, e)
  <2>1. PICK k \in Slots : entry[e].status = "draft" /\ Begun("move", [entry[e] EXCEPT !.slot = k])
    BY <1>4 DEF BeginMove
  <2>2. Rewrite("move", entry[e], [entry[e] EXCEPT !.slot = k])
    BY <2>1, <1>1 DEF Rewrite, EntryRec
  <2> QED BY <2>1, <2>2, <1>2
<1>5. CASE BeginMovePublished(s, e)
  <2>1. PICK k \in Slots :
            entry[e].status = "published" /\ Begun("edit", [entry[e] EXCEPT !.slot = k])
    BY <1>5 DEF BeginMovePublished
  <2>2. Rewrite("edit", entry[e], [entry[e] EXCEPT !.slot = k])
    BY <2>1, <1>1 DEF Rewrite, EntryRec
  <2> QED BY <2>1, <2>2, <1>2
<1>6. CASE BeginDelete(s, e)
  <2>1. entry[e].status = "draft" /\ Begun("delete", None)
    BY <1>6 DEF BeginDelete
  <2>2. Rewrite("delete", entry[e], None)
    BY <2>1, <1>1 DEF Rewrite, EntryRec
  <2> QED BY <2>1, <2>2, <1>2
<1>7. CASE BeginRetract(s, e)
  <2>1. entry[e].status = "published" /\ Begun("retract", [entry[e] EXCEPT !.status = "draft"])
    BY <1>7 DEF BeginRetract
  <2>2. Rewrite("retract", entry[e], [entry[e] EXCEPT !.status = "draft"])
    BY <2>1, <1>1 DEF Rewrite, EntryRec
  <2> QED BY <2>1, <2>2, <1>2
<1> QED BY <1>3, <1>4, <1>5, <1>6, <1>7

\* A request on a time-off request begins by loading it.
LEMMA BeginOff ==
    ASSUME IInv, NEW s \in Sessions, NEW o \in Requests,
           BeginClose(s, o) \/ BeginAmend(s, o) \/ BeginApprove(s, o)
    PROVE  IInv'
<1>1. off[o].status = "pending" /\ off[o] \in OffRec
  BY Rows DEF IInv, BeginClose, BeginAmend, BeginApprove, None
<1>2. CASE BeginClose(s, o) \/ BeginAmend(s, o)
  <2>1. PICK op, new :
            /\ op \in {"close", "amend"}
            /\ Begin(s, Ready(op, Only(o, off[o]), Only(o, new)))
            /\ Rewrite(op, off[o], new)
    <3>1. CASE BeginClose(s, o)
      <4>1. PICK st \in {"cancelled", "denied"} :
                Begin(s, Ready("close", Only(o, off[o]), Only(o, [off[o] EXCEPT !.status = st])))
        BY <3>1 DEF BeginClose
      <4>2. Rewrite("close", off[o], [off[o] EXCEPT !.status = st])
        BY <1>1 DEF Rewrite, OffRec
      <4> QED BY <4>1, <4>2
    <3>2. CASE BeginAmend(s, o)
      <4>1. PICK k \in Slots :
                Begin(s, Ready("amend", Only(o, off[o]), Only(o, [off[o] EXCEPT !.slot = k])))
        BY <3>2 DEF BeginAmend
      <4>2. Rewrite("amend", off[o], [off[o] EXCEPT !.slot = k])
        BY <1>1 DEF Rewrite, OffRec
      <4> QED BY <4>1, <4>2
    <3> QED BY <1>2, <3>1, <3>2
  <2>2. CallOK(Ready(op, Only(o, off[o]), Only(o, new)), off)
    BY <2>1, <1>1, OneRow DEF OnEntries, OnOff
  <2> QED BY <2>1, <2>2, Begins, ReadyShape
<1>3. CASE BeginApprove(s, o)
  <2> DEFINE new == [off[o] EXCEPT !.status = "approved"]
  <2>1. Begin(s, [Ready("approve", Only(o, off[o]), Only(o, new)) EXCEPT !.step = "look"])
    BY <1>3 DEF BeginApprove
  <2>2. Rewrite("approve", off[o], new)
    BY <1>1 DEF Rewrite, OffRec
  <2> HIDE DEF new
  <2>3. /\ CallOK([Ready("approve", Only(o, off[o]), Only(o, new)) EXCEPT !.step = "look"], off)
        /\ Held([Ready("approve", Only(o, off[o]), Only(o, new)) EXCEPT !.step = "look"]) = {}
    BY <2>2, <1>1, OneRow DEF OnEntries, OnOff
  <2> QED BY <2>1, <2>3, Begins
<1> QED BY <1>2, <1>3

\* The drafts of a generated week are all different.
LEMMA BeginGenerateInv ==
    ASSUME IInv, NEW s \in Sessions, NEW E \in SUBSET Entries, BeginGenerate(s, E)
    PROVE  IInv'
<1>1. PICK rows \in [E -> [status : {"draft"}, user : Users, slot : Slots]] :
          /\ \A e, f \in E : e # f => rows[e] # rows[f]
          /\ Begin(s, Ready("create", [e \in E |-> None], rows))
  BY DEF BeginGenerate
<1> DEFINE old == [e \in E |-> None]
           c == Ready("create", old, rows)
<1>2. DOMAIN old = E /\ DOMAIN rows = E /\ \A e \in E : old[e] = None
  BY <1>1
<1>3. \A e, f \in E : e # f => Apart(rows[e], rows[f])
  BY <1>1 DEF Apart
<1>4. \A e \in E : rows[e] \in EntryRec
  BY <1>1 DEF EntryRec
<1>5. c = [op |-> "create", step |-> "flush", loaded |-> old, write |-> rows,
           found |-> Nothing, wanted |-> Nothing] /\ Held(c) = {}
  BY ReadyShape
<1> HIDE DEF old, c
<1>6. \A e \in E : Rewrite("create", old[e], rows[e])
  BY <1>2, <1>4 DEF Rewrite
<1>7. CallOK(c, off)
  BY <1>2, <1>3, <1>5, <1>6 DEF CallOK, IsCall, OnEntries, OnOff
<1>8. Begin(s, c)
  BY <1>1 DEF c, old
<1> QED BY <1>5, <1>7, <1>8, Begins

\* A publication begins by loading the rows of the week, unlocked.
LEMMA BeginPublishInv ==
    ASSUME IInv, NEW s \in Sessions, NEW E \in SUBSET Entries, BeginPublish(s, E)
    PROVE  IInv'
<1> DEFINE old == [e \in E |-> entry[e]]
           c == [Ready("publish", old, Nothing) EXCEPT !.step = "look"]
<1>1. \A e \in E : entry[e].status = "draft" /\ entry[e] \in EntryRec
  BY Rows DEF IInv, BeginPublish, None
<1>2. DOMAIN old = E /\ \A e \in E : old[e] = entry[e]
  OBVIOUS
<1>3. Begin(s, c)
  BY DEF BeginPublish
<1>4. c = [op |-> "publish", step |-> "look", loaded |-> old, write |-> Nothing,
           found |-> Nothing, wanted |-> Nothing]
  BY ReadyShape
<1>5. DOMAIN Nothing = {}
  BY DEF Nothing
<1> HIDE DEF old, c
<1>6. CallOK(c, off)
  BY <1>1, <1>2, <1>4, <1>5 DEF CallOK, IsCall, OnEntries, OnOff
<1>7. Held(c) = {}
  BY <1>4, <1>5 DEF Held
<1> QED BY <1>3, <1>6, <1>7, Begins

-----------------------------------------------------------------------------
(***************************************************************************)
(* Row locks                                                               *)
(***************************************************************************)
\* What a request holds once it has its locks for row x.
LEMMA HeldAfter ==
    ASSUME NEW c, NEW x, DOMAIN c.wanted = {x}, NEW d,
           d.found = Joined(c.wanted, c.found)
    PROVE  /\ Held(d) \ Held(c) \subseteq c.wanted[x]
           /\ DOMAIN d.found = DOMAIN c.found \cup {x}
           /\ d.found[x] = c.wanted[x]
           /\ \A y \in DOMAIN c.found : y # x => d.found[y] = c.found[y]
<1>1. /\ DOMAIN d.found = DOMAIN c.found \cup {x}
      /\ d.found[x] = c.wanted[x]
      /\ \A y \in DOMAIN c.found : y # x => d.found[y] = c.found[y]
  BY DEF Joined
<1> QED BY <1>1 DEF Held

\* A call assigned a step and what it wants, field by field.
LEMMA AssignWanted ==
    ASSUME NEW c, IsCall(c), NEW v, NEW w
    PROVE  [c EXCEPT !.step = v, !.wanted = w] =
              [op |-> c.op, step |-> v, loaded |-> c.loaded, write |-> c.write,
               found |-> c.found, wanted |-> w]
<1>1. c \in [op : {c.op}, step : {c.step}, loaded : {c.loaded}, write : {c.write},
             found : {c.found}, wanted : {c.wanted}]
  BY Zenon DEF IsCall
<1>2. ASSUME NEW b, b = [c EXCEPT !.step = v, !.wanted = w]
      PROVE  b = [op |-> c.op, step |-> v, loaded |-> c.loaded, write |-> c.write,
                  found |-> c.found, wanted |-> w]
  <2>1. b \in [op : {c.op}, step : {v}, loaded : {c.loaded}, write : {c.write},
               found : {c.found}, wanted : {w}]
    BY <1>1, <1>2
  <2> QED BY <2>1
<1> QED BY <1>2, Zenon

\* A call assigned what it found and what it wants, field by field.
LEMMA AssignFound ==
    ASSUME NEW c, IsCall(c), NEW f, NEW w
    PROVE  [c EXCEPT !.found = f, !.wanted = w] =
              [op |-> c.op, step |-> c.step, loaded |-> c.loaded, write |-> c.write,
               found |-> f, wanted |-> w]
<1>1. c \in [op : {c.op}, step : {c.step}, loaded : {c.loaded}, write : {c.write},
             found : {c.found}, wanted : {c.wanted}]
  BY Zenon DEF IsCall
<1>2. ASSUME NEW b, b = [c EXCEPT !.found = f, !.wanted = w]
      PROVE  b = [op |-> c.op, step |-> c.step, loaded |-> c.loaded, write |-> c.write,
                  found |-> f, wanted |-> w]
  <2>1. b \in [op : {c.op}, step : {c.step}, loaded : {c.loaded}, write : {c.write},
               found : {f}, wanted : {w}]
    BY <1>1, <1>2
  <2> QED BY <2>1
<1> QED BY <1>2, Zenon

\* A call assigned a step, field by field.
LEMMA AssignStep ==
    ASSUME NEW c, IsCall(c), NEW v
    PROVE  [c EXCEPT !.step = v] =
              [op |-> c.op, step |-> v, loaded |-> c.loaded, write |-> c.write,
               found |-> c.found, wanted |-> c.wanted]
<1>1. c \in [op : {c.op}, step : {c.step}, loaded : {c.loaded}, write : {c.write},
             found : {c.found}, wanted : {c.wanted}]
  BY Zenon DEF IsCall
<1>2. ASSUME NEW b, b = [c EXCEPT !.step = v]
      PROVE  b = [op |-> c.op, step |-> v, loaded |-> c.loaded, write |-> c.write,
                  found |-> c.found, wanted |-> c.wanted]
  <2>1. b \in [op : {c.op}, step : {v}, loaded : {c.loaded}, write : {c.write},
               found : {c.found}, wanted : {c.wanted}]
    BY <1>1, <1>2
  <2> QED BY <2>1
<1> QED BY <1>2, Zenon

\* A call assigned its write and a step, field by field.
LEMMA AssignWrite ==
    ASSUME NEW c, IsCall(c), NEW w, NEW v
    PROVE  [c EXCEPT !.write = w, !.step = v] =
              [op |-> c.op, step |-> v, loaded |-> c.loaded, write |-> w,
               found |-> c.found, wanted |-> c.wanted]
<1>1. c \in [op : {c.op}, step : {c.step}, loaded : {c.loaded}, write : {c.write},
             found : {c.found}, wanted : {c.wanted}]
  BY Zenon DEF IsCall
<1>2. ASSUME NEW b, b = [c EXCEPT !.write = w, !.step = v]
      PROVE  b = [op |-> c.op, step |-> v, loaded |-> c.loaded, write |-> w,
                  found |-> c.found, wanted |-> c.wanted]
  <2>1. b \in [op : {c.op}, step : {v}, loaded : {c.loaded}, write : {w},
               found : {c.found}, wanted : {c.wanted}]
    BY <1>1, <1>2
  <2> QED BY <2>1
<1> QED BY <1>2, Zenon

\* The look for conflicts fills in the call and moves no row.
LEMMA LookInv ==
    ASSUME IInv, NEW s \in Sessions, Look(s)
    PROVE  IInv'
<1> DEFINE c == call[s]
<1>1. CallOK(c, off) /\ c.step = "look"
  BY DEF IInv, Look
<1>2. PICK x, rows :
          /\ x \in DOMAIN c.loaded
          /\ call' = [call EXCEPT ![s] = [c EXCEPT !.step = "lock", !.wanted = Only(x, rows)]]
  BY DEF Look, Todo
<1> DEFINE d == [c EXCEPT !.step = "lock", !.wanted = Only(x, rows)]
<1> IsCall(c)
  BY <1>1 DEF CallOK
<1>3. d = [op |-> c.op, step |-> "lock", loaded |-> c.loaded, write |-> c.write,
           found |-> c.found, wanted |-> Only(x, rows)]
  <2> DEFINE w == Only(x, rows)
  <2> HIDE DEF c, w
  <2>1. [c EXCEPT !.step = "lock", !.wanted = w] =
           [op |-> c.op, step |-> "lock", loaded |-> c.loaded, write |-> c.write,
            found |-> c.found, wanted |-> w]
    BY AssignWanted, Zenon
  <2> QED BY <2>1, Zenon DEF w
<1>4. DOMAIN Only(x, rows) = {x}
  BY DEF Only
<1>5. call' = [call EXCEPT ![s] = d] /\ UNCHANGED <<entry, off, raced>>
  BY <1>2 DEF Look
<1> HIDE DEF c, d
<1>6. CallOK(d, off)
  BY <1>1, <1>2, <1>3, <1>4 DEF CallOK, IsCall
<1>7. Held(d) = Held(c)
  BY <1>3 DEF Held
<1> QED BY <1>5, <1>6, <1>7, OneCall DEF c

\* A publication takes its locks only where nobody else holds one.
LEMMA LockForPublishInv ==
    ASSUME IInv, NEW s \in Sessions, LockForPublish(s)
    PROVE  IInv'
<1> DEFINE c == call[s]
<1>1. PICK e \in DOMAIN c.wanted :
          LET blocked == c.wanted[e] \cap OffOver(c.loaded[e], {"approved"}) # {}
              row == IF blocked THEN c.loaded[e]
                     ELSE [c.loaded[e] EXCEPT !.status = "published"]
              rest == Todo(c) \ {e}
          IN  /\ c.step = "lock" /\ c.op = "publish"
              /\ FreeFor(s, c.wanted[e])
              /\ call' = [call EXCEPT ![s] =
                     [Locked(c) EXCEPT !.write = Joined(Only(e, row), c.write),
                                       !.step = IF rest = {} THEN "flush" ELSE "look"]]
              /\ UNCHANGED <<entry, off, raced>>
  BY DEF LockForPublish
<1> DEFINE blocked == c.wanted[e] \cap OffOver(c.loaded[e], {"approved"}) # {}
           row == IF blocked THEN c.loaded[e] ELSE [c.loaded[e] EXCEPT !.status = "published"]
           step == IF Todo(c) \ {e} = {} THEN "flush" ELSE "look"
           d == [Locked(c) EXCEPT !.write = Joined(Only(e, row), c.write), !.step = step]
<1>2. CallOK(c, off) /\ c.step = "lock" /\ c.op = "publish"
  BY <1>1 DEF IInv
<1>3. e \in DOMAIN c.loaded /\ DOMAIN c.wanted = {e} /\ e \in Entries
  BY <1>1, <1>2 DEF CallOK, OnEntries
<1>4. d = [op |-> "publish", step |-> step, loaded |-> c.loaded,
           write |-> Joined(Only(e, row), c.write),
           found |-> Joined(c.wanted, c.found), wanted |-> Nothing]
  <2> DEFINE f == Joined(c.wanted, c.found)
             b == [op |-> "publish", step |-> "lock", loaded |-> c.loaded, write |-> c.write,
                   found |-> f, wanted |-> Nothing]
  <2>1. Locked(c) = b
    <3>1. Locked(c) = [op |-> c.op, step |-> c.step, loaded |-> c.loaded, write |-> c.write,
                       found |-> f, wanted |-> Nothing]
      <4>1. IsCall(c)
        BY <1>2 DEF CallOK
      <4> QED BY <4>1, AssignFound, Zenon DEF Locked
    <3> QED BY <3>1, <1>2
  <2>2. [b EXCEPT !.write = Joined(Only(e, row), c.write), !.step = step] =
           [op |-> "publish", step |-> step, loaded |-> c.loaded,
            write |-> Joined(Only(e, row), c.write), found |-> f, wanted |-> Nothing]
    <3> HIDE DEF f, step, row
    <3>1. IsCall(b)
          /\ b.op = "publish" /\ b.loaded = c.loaded /\ b.found = f /\ b.wanted = Nothing
      BY DEF IsCall
    <3> HIDE DEF b
    <3>2. [b EXCEPT !.write = Joined(Only(e, row), c.write), !.step = step] =
             [op |-> b.op, step |-> step, loaded |-> b.loaded,
              write |-> Joined(Only(e, row), c.write), found |-> b.found, wanted |-> b.wanted]
      BY <3>1, AssignWrite, Zenon
    <3> QED BY <3>1, <3>2
  <2> QED BY <2>1, <2>2
<1>5. c.loaded[e] \in EntryRec /\ c.loaded[e].status = "draft"
  BY <1>2, <1>3 DEF CallOK
<1>6. /\ row \in EntryRec /\ row.user = c.loaded[e].user /\ row.slot = c.loaded[e].slot
      /\ row.status = "published" => ~blocked
  BY <1>5 DEF EntryRec
<1>7. step \in {"flush", "look"}
  OBVIOUS
<1>8. /\ call' = [call EXCEPT ![s] = d] /\ UNCHANGED <<entry, off, raced>>
      /\ FreeFor(s, c.wanted[e])
  BY <1>1
<1>9. ~blocked => \A o \in c.wanted[e] \cap Requests :
                     off[o].status = "approved" => Apart(c.loaded[e], off[o])
  BY <1>5, Overlaps DEF OffOver, Apart
<1> HIDE DEF c, d, row, step, blocked
<1>10. /\ Held(d) \ Held(c) \subseteq c.wanted[e]
       /\ DOMAIN d.found = DOMAIN c.found \cup {e}
       /\ d.found[e] = c.wanted[e]
       /\ \A y \in DOMAIN c.found : y # e => d.found[y] = c.found[y]
  <2>1. d.found = Joined(c.wanted, c.found)
    BY <1>4
  <2>2. Held(d) \ Held(c) \subseteq c.wanted[e]
    BY <2>1, <1>3, HeldAfter
  <2>3. /\ DOMAIN d.found = DOMAIN c.found \cup {e}
        /\ d.found[e] = c.wanted[e]
        /\ \A y \in DOMAIN c.found : y # e => d.found[y] = c.found[y]
    BY <2>1, <1>3 DEF Joined
  <2> QED BY <2>2, <2>3
<1>11. /\ DOMAIN d.write = DOMAIN c.write \cup {e}
       /\ d.write[e] = row
       /\ \A y \in DOMAIN c.write : y # e => d.write[y] = c.write[y]
  BY <1>4 DEF Joined, Only
<1>12. \A x \in DOMAIN d.write : Rewrite("publish", d.loaded[x], d.write[x])
  BY <1>2, <1>4, <1>5, <1>6, <1>11 DEF CallOK, Rewrite
<1>13. ASSUME NEW x \in DOMAIN d.write, d.write[x].status = "published",
              NEW o \in d.found[x] \cap Requests, off[o].status = "approved"
       PROVE  Apart(d.loaded[x], off[o])
  <2>1. CASE x = e
    BY <2>1, <1>13, <1>4, <1>6, <1>9, <1>10, <1>11
  <2>2. CASE x # e
    <3>1. x \in DOMAIN c.write /\ x \in DOMAIN c.found /\ c.write[x].status = "published"
          /\ o \in c.found[x]
      BY <2>2, <1>2, <1>13, <1>10, <1>11 DEF CallOK
    <3> QED BY <3>1, <1>2, <1>4, <1>13 DEF CallOK
  <2> QED BY <2>1, <2>2
<1>14. /\ DOMAIN d.write \subseteq DOMAIN d.loaded /\ DOMAIN d.write \subseteq DOMAIN d.found
       /\ d.loaded = c.loaded
  BY <1>2, <1>3, <1>4, <1>10, <1>11 DEF CallOK
<1>15. CallOK(d, off)
  BY <1>2, <1>4, <1>7, <1>12, <1>13, <1>14 DEF CallOK, IsCall, OnEntries, OnOff
<1>16. \A t \in Sessions \ {s} : Held(call[t]) \cap (Held(d) \ Held(call[s])) = {}
  BY <1>8, <1>10 DEF FreeFor, c
<1> QED BY <1>8, <1>15, <1>16, OneCall

\* An approval takes its lock only where nobody else holds one.
LEMMA LockForApprovalInv ==
    ASSUME IInv, NEW s \in Sessions, LockForApproval(s)
    PROVE  IInv'
<1> DEFINE c == call[s]
           d == [Locked(c) EXCEPT !.step = "flush"]
<1>1. PICK o \in DOMAIN c.wanted :
          /\ c.step = "lock" /\ c.op = "approve"
          /\ FreeFor(s, c.wanted[o])
          /\ call' = [call EXCEPT ![s] =
                IF c.wanted[o] \cap PublishedOver(c.loaded[o]) # {} THEN Idle ELSE d]
          /\ UNCHANGED <<entry, off, raced>>
  BY DEF LockForApproval
<1>2. CallOK(c, off) /\ c.step = "lock" /\ c.op = "approve"
  BY <1>1 DEF IInv
<1>3. DOMAIN c.wanted = {o}
  BY <1>1, <1>2 DEF CallOK
<1>4. d = [op |-> "approve", step |-> "flush", loaded |-> c.loaded, write |-> c.write,
           found |-> Joined(c.wanted, c.found), wanted |-> Nothing]
  <2> DEFINE f == Joined(c.wanted, c.found)
             b == [op |-> "approve", step |-> "lock", loaded |-> c.loaded, write |-> c.write,
                   found |-> f, wanted |-> Nothing]
  <2>1. Locked(c) = b
    <3>1. Locked(c) = [op |-> c.op, step |-> c.step, loaded |-> c.loaded, write |-> c.write,
                       found |-> f, wanted |-> Nothing]
      <4>1. IsCall(c)
        BY <1>2 DEF CallOK
      <4> QED BY <4>1, AssignFound, Zenon DEF Locked
    <3> QED BY <3>1, <1>2
  <2>2. [b EXCEPT !.step = "flush"] =
           [op |-> "approve", step |-> "flush", loaded |-> c.loaded, write |-> c.write,
            found |-> f, wanted |-> Nothing]
    <3> HIDE DEF f
    <3>1. IsCall(b)
          /\ b.op = "approve" /\ b.loaded = c.loaded /\ b.write = c.write
          /\ b.found = f /\ b.wanted = Nothing
      BY DEF IsCall
    <3> HIDE DEF b
    <3>2. [b EXCEPT !.step = "flush"] =
             [op |-> b.op, step |-> "flush", loaded |-> b.loaded,
              write |-> b.write, found |-> b.found, wanted |-> b.wanted]
      BY <3>1, AssignStep, Zenon
    <3> QED BY <3>1, <3>2
  <2> QED BY <2>1, <2>2
<1>5. CASE call' = [call EXCEPT ![s] = Idle]
  BY <1>1, <1>5, IdleOK, OneCall
<1>6. CASE call' = [call EXCEPT ![s] = d]
  <2> HIDE DEF c, d
  <2>1. CallOK(d, off)
    BY <1>2, <1>4 DEF CallOK, IsCall, OnEntries, OnOff
  <2>2. Held(d) \ Held(c) \subseteq c.wanted[o]
    BY <1>3, <1>4, HeldAfter
  <2>3. \A t \in Sessions \ {s} : Held(call[t]) \cap (Held(d) \ Held(call[s])) = {}
    BY <1>1, <2>2 DEF FreeFor, c
  <2> QED BY <1>1, <1>6, <2>1, <2>3, OneCall
<1> QED BY <1>1, <1>5, <1>6
-----------------------------------------------------------------------------
(***************************************************************************)
(* Commits                                                                 *)
(***************************************************************************)
LEMMA SubmitInv ==
    ASSUME IInv, NEW o \in Requests, Submit(o)
    PROVE  IInv'
<1>1. PICK u \in Users, k \in Slots : off' = [off EXCEPT ![o] = Row("pending", u, k)]
  BY DEF Submit
<1>2. off[o] = None /\ UNCHANGED <<entry, call, raced>>
  BY DEF Submit
<1>3. Row("pending", u, k) \in OffRec /\ Row("pending", u, k).status = "pending"
  BY DEF Row, OffRec
<1> DEFINE new == Row("pending", u, k)
<1> HIDE DEF new
<1>4. \A a \in Requests : off'[a] = IF a = o THEN new ELSE off[a]
  BY <1>1 DEF IInv, TypeOK, new
<1>5. TypeOK'
  <2>1. off' \in [Requests -> OffRows]
    BY <1>1, <1>3 DEF IInv, TypeOK, OffRows, OffRec, new
  <2> QED BY <2>1, <1>2 DEF IInv, TypeOK
<1>6. \A s \in Sessions : CallOK(call[s], off')
  <2> TAKE s \in Sessions
  <2>1. \A a \in Requests : /\ off[a].status # "none" => off'[a].status # "none"
                            /\ off'[a] = off[a] \/ off'[a].status # "approved"
    BY <1>3, <1>4 DEF new
  <2>2. CallOK(call[s], off)
    BY DEF IInv
  <2> HIDE DEF IInv
  <2> QED BY <2>1, <2>2, CallStays
<1>7. (~raced => NoTwins /\ Clear)'
  BY <1>2, <1>3, <1>4 DEF IInv, NoTwins, Clear, new
<1> QED BY <1>2, <1>5, <1>6, <1>7 DEF IInv

\* A rollback lets go of every lock and changes no row.
LEMMA RollBackInv ==
    ASSUME IInv, NEW s \in Sessions, RollBack(s)
    PROVE  IInv'
BY IdleOK, OneCall DEF RollBack

\* The row a commit leaves is of the same table.
LEMMA LaidTyped ==
    ASSUME NEW c, NEW x, NEW row, Rewrite(c.op, c.loaded[x], c.write[x])
    PROVE  /\ c.op \in OnEntries /\ (row \in EntryRec \/ row = None)
                 /\ (c.op \in {"create", "delete"} \/ row # None)
              => Laid(c, x, row) \in EntryRec \cup {None}
           /\ c.op \in OnOff /\ row \in OffRec => Laid(c, x, row) \in OffRec
           /\ row = c.loaded[x] => Laid(c, x, row) = c.write[x]
<1> DEFINE old == c.loaded[x]
           new == c.write[x]
           laid == Laid(c, x, row)
<1>1. /\ new = None => laid = None
      /\ new # None /\ old = None => laid = new
      /\ new # None /\ old # None =>
            laid = [status |-> IF new.status # old.status THEN new.status ELSE row.status,
                    user |-> row.user,
                    slot |-> IF new.slot # old.slot THEN new.slot ELSE row.slot]
  BY DEF Laid
<1>2. Rewrite(c.op, old, new)
  OBVIOUS
<1>3. \A r \in EntryRec \cup OffRec : r # None
  BY DEF EntryRec, OffRec, None
<1> HIDE DEF old, new, laid
<1>4. ASSUME c.op \in OnEntries, row \in EntryRec \/ row = None,
             c.op \in {"create", "delete"} \/ row # None
      PROVE  laid \in EntryRec \cup {None}
  <2>1. CASE c.op \in {"create", "delete"}
    BY <2>1, <1>1, <1>2 DEF Rewrite
  <2>2. CASE c.op \notin {"create", "delete"}
    <3>1. {old, new} \subseteq EntryRec /\ row \in EntryRec
      BY <2>2, <1>2, <1>4 DEF Rewrite, OnEntries
    <3> QED BY <3>1, <1>1, <1>3 DEF EntryRec
  <2> QED BY <2>1, <2>2
<1>5. ASSUME c.op \in OnOff, row \in OffRec PROVE laid \in OffRec
  <2>1. {old, new} \subseteq OffRec
    BY <1>5, <1>2 DEF Rewrite, OnOff
  <2> QED BY <2>1, <1>1, <1>3, <1>5 DEF OffRec
<1>6. ASSUME row = old PROVE laid = new
  <2>1. CASE c.op \in {"create", "delete"}
    BY <2>1, <1>1, <1>2 DEF Rewrite
  <2>2. CASE c.op \notin {"create", "delete"}
    <3>1. \/ {old, new} \subseteq EntryRec
          \/ {old, new} \subseteq OffRec
      BY <2>2, <1>2 DEF Rewrite
    <3>2. new.user = old.user
      BY <2>2, <1>2 DEF Rewrite
    <3> QED BY <3>1, <3>2, <1>1, <1>3, <1>6 DEF EntryRec, OffRec
  <2> QED BY <2>1, <2>2
<1> QED BY <1>4, <1>5, <1>6 DEF laid, old, new

\* What a commit is: the request, the rows it changes, the tables after it.
LEMMA CommitShape ==
    ASSUME IInv, NEW s \in Sessions, Commit(s)
    PROVE  /\ CallOK(call[s], off) /\ call[s].step = "flush"
           /\ call[s].op \in OnEntries \cup OnOff
           /\ \A x \in Changed(call[s]) :
                 /\ x \in DOMAIN call[s].write /\ x \in DOMAIN call[s].loaded
                 /\ call[s].write[x] # call[s].loaded[x]
                 /\ call[s].op \in OnEntries => x \in Entries
                 /\ call[s].op \in OnOff => x \in Requests
                 /\ Rewrite(call[s].op, call[s].loaded[x], call[s].write[x])
           /\ call[s].op \in OnEntries => off' = off
           /\ call[s].op \in OnOff => entry' = entry
           /\ \A e \in Entries : entry'[e] = IF e \in Changed(call[s])
                                             THEN Laid(call[s], e, entry[e]) ELSE entry[e]
           /\ \A o \in Requests : off'[o] = IF o \in Changed(call[s])
                                            THEN Laid(call[s], o, off[o]) ELSE off[o]
           /\ entry' = [e \in Entries |-> entry'[e]] /\ off' = [o \in Requests |-> off'[o]]
           /\ raced' = (raced \/ Outdated(call[s]))
           /\ \A t \in Sessions : call'[t] = IF t = s THEN Idle ELSE call[t]
           /\ call' = [t \in Sessions |-> call'[t]]
<1> DEFINE c == call[s]
<1> USE ScheduleAssumption
<1>1. CallOK(c, off) /\ c.step = "flush"
  BY DEF IInv, Commit
<1>2. c.op \in OnEntries \cup OnOff
  BY <1>1 DEF CallOK
<1>3. \A x \in Changed(c) :
         /\ x \in DOMAIN c.write /\ x \in DOMAIN c.loaded /\ c.write[x] # c.loaded[x]
         /\ c.op \in OnEntries => x \in Entries
         /\ c.op \in OnOff => x \in Requests
         /\ Rewrite(c.op, c.loaded[x], c.write[x])
  BY <1>1 DEF CallOK, Changed
<1>4. /\ entry' = [e \in Entries |-> IF e \in Changed(c) THEN Laid(c, e, entry[e]) ELSE entry[e]]
      /\ off' = [o \in Requests |-> IF o \in Changed(c) THEN Laid(c, o, off[o]) ELSE off[o]]
      /\ raced' = (raced \/ Outdated(c))
      /\ call' = [call EXCEPT ![s] = Idle]
  BY DEF Commit
<1>5. \A t \in Sessions : call'[t] = IF t = s THEN Idle ELSE call[t]
  BY <1>4 DEF IInv
<1>6. call' = [t \in Sessions |-> call'[t]]
  BY <1>4 DEF IInv
<1>7. entry = [e \in Entries |-> entry[e]] /\ off = [o \in Requests |-> off[o]]
  BY DEF IInv, TypeOK
<1> HIDE DEF c, IInv
<1>8. c.op \in OnEntries => off' = off
  BY <1>3, <1>4, <1>7
<1>9. c.op \in OnOff => entry' = entry
  BY <1>3, <1>4, <1>7
<1> QED BY <1>1, <1>2, <1>3, <1>4, <1>5, <1>6, <1>8, <1>9 DEF c

\* A commit keeps the typing of the rows and of every other call.
LEMMA CommitTypes ==
    ASSUME IInv, NEW s \in Sessions, Commit(s)
    PROVE  TypeOK' /\ \A t \in Sessions : CallOK(call'[t], off')
<1> DEFINE c == call[s]
<1>1. \A e \in Entries : \/ entry[e] = None \/ entry[e] \in EntryRec
  BY Rows DEF IInv
<1>2. \A o \in Requests : \/ off[o] = None /\ off[o].status = "none"
                          \/ off[o] \in OffRec /\ off[o].status # "none"
  BY Rows DEF IInv
<1>3. ASSUME NEW e \in Entries PROVE entry'[e] \in EntryRec \cup {None}
  <2>1. CASE e \in Changed(c)
    <3>1. c.op \in OnEntries
      BY <2>1, CommitShape, ScheduleAssumption
    <3>2. c.op \in {"create", "delete"} \/ entry[e] # None
      BY <2>1 DEF Commit, RowsThere
    <3>3. Rewrite(c.op, c.loaded[e], c.write[e]) /\ entry'[e] = Laid(c, e, entry[e])
      BY <2>1, CommitShape
    <3> QED BY <3>1, <3>2, <3>3, <1>1, LaidTyped
  <2>2. CASE e \notin Changed(c)
    BY <2>2, <1>1, CommitShape
  <2> QED BY <2>1, <2>2
<1>4. ASSUME NEW o \in Requests
      PROVE  /\ off'[o] \in OffRec \cup {None}
             /\ off[o].status # "none" => off'[o].status # "none"
  <2>1. CASE o \in Changed(c)
    <3>1. c.op \in OnOff
      BY <2>1, CommitShape, ScheduleAssumption
    <3>2. off[o] \in OffRec
      <4>1. o \in DOMAIN c.loaded /\ CallOK(c, off)
        BY <2>1, CommitShape
      <4> QED BY <4>1, <3>1, <1>2 DEF CallOK
    <3>3. Rewrite(c.op, c.loaded[o], c.write[o]) /\ off'[o] = Laid(c, o, off[o])
      BY <2>1, CommitShape
    <3>4. off'[o] \in OffRec
      BY <3>1, <3>2, <3>3, LaidTyped
    <3> QED BY <3>4 DEF OffRec
  <2>2. CASE o \notin Changed(c)
    BY <2>2, <1>2, CommitShape
  <2> QED BY <2>1, <2>2
<1>5. \A t \in Sessions : CallOK(call'[t], off')
  <2> TAKE t \in Sessions
  <2>1. CASE t = s
    BY <2>1, IdleOK, CommitShape
  <2>2. CASE t # s
    <3>1. CallOK(call[t], off) /\ call'[t] = call[t]
      BY <2>2, CommitShape DEF IInv
    <3>2. Held(call[t]) \cap Changed(c) = {}
      BY <2>2 DEF Commit, FreeFor
    <3>3. \A o \in Requests : off'[o] = off[o] \/ o \notin Held(call[t])
      BY <3>2, CommitShape
    <3> QED BY <3>1, <3>3, <1>4, CallStays
  <2> QED BY <2>1, <2>2
<1>6. \A t, u \in Sessions : t # u => Held(call'[t]) \cap Held(call'[u]) = {}
  <2>1. Held(Idle) = {}
    BY IdleOK
  <2>2. \A t \in Sessions : call'[t] = Idle \/ call'[t] = call[t]
    BY CommitShape
  <2> QED BY <2>1, <2>2 DEF IInv, TypeOK
<1>7. entry' \in [Entries -> EntryRows] /\ off' \in [Requests -> OffRows]
  <2>1. entry' = [e \in Entries |-> entry'[e]] /\ off' = [o \in Requests |-> off'[o]]
    BY CommitShape
  <2>2. EntryRows = EntryRec \cup {None} /\ OffRows = OffRec \cup {None}
    BY DEF EntryRows, OffRows, EntryRec, OffRec
  <2> QED BY <2>1, <2>2, <1>3, <1>4
<1>8. raced' \in BOOLEAN
  BY CommitShape DEF IInv, TypeOK
<1> QED BY <1>5, <1>6, <1>7, <1>8 DEF TypeOK
\* A commit whose checks still hold leaves the rows as the request wrote them.
LEMMA Unraced ==
    ASSUME IInv, NEW s \in Sessions, Commit(s), ~raced'
    PROVE  /\ ~raced /\ ~Outdated(call[s])
           /\ \A e \in Entries : e \in Changed(call[s]) =>
                 entry[e] = call[s].loaded[e] /\ entry'[e] = call[s].write[e]
           /\ \A o \in Requests : o \in Changed(call[s]) =>
                 off[o] = call[s].loaded[o] /\ off'[o] = call[s].write[o]
<1> DEFINE c == call[s]
<1>1. ~raced /\ ~Outdated(c)
  BY CommitShape DEF IInv, TypeOK
<1>2. \A x \in Changed(c) : c.loaded[x] = IF x \in Entries THEN entry[x] ELSE off[x]
  BY <1>1 DEF Outdated
<1>3. ASSUME NEW e \in Entries, e \in Changed(c)
      PROVE  entry[e] = c.loaded[e] /\ entry'[e] = c.write[e]
  <2>1. entry[e] = c.loaded[e]
    BY <1>2, <1>3
  <2>2. Rewrite(c.op, c.loaded[e], c.write[e]) /\ entry'[e] = Laid(c, e, entry[e])
    BY <1>3, CommitShape
  <2> HIDE DEF c
  <2> QED BY <2>1, <2>2, LaidTyped
<1>4. ASSUME NEW o \in Requests, o \in Changed(c)
      PROVE  off[o] = c.loaded[o] /\ off'[o] = c.write[o]
  <2>1. off[o] = c.loaded[o]
    BY <1>2, <1>4, ScheduleAssumption
  <2>2. Rewrite(c.op, c.loaded[o], c.write[o]) /\ off'[o] = Laid(c, o, off[o])
    BY <1>4, CommitShape
  <2> HIDE DEF c
  <2> QED BY <2>1, <2>2, LaidTyped
<1> QED BY <1>1, <1>3, <1>4 DEF c

\* Nobody gets the same shift twice.
LEMMA CommitNoTwins ==
    ASSUME IInv, NEW s \in Sessions, Commit(s), ~raced'
    PROVE  NoTwins'
<1> DEFINE c == call[s]
<1>1. NoTwins
  BY Unraced DEF IInv
<1>2. CallOK(c, off)
  BY CommitShape
<1>3. ASSUME NEW e \in Entries, NEW d \in Entries, e # d, e \in Changed(c),
             entry'[e].status # "none", entry'[d].status # "none"
      PROVE  Apart(entry'[e], entry'[d])
  <2>1. /\ Rewrite(c.op, c.loaded[e], c.write[e]) /\ entry[e] = c.loaded[e]
        /\ entry'[e] = c.write[e] /\ e \in DOMAIN c.write /\ c.op \in OnEntries
    BY <1>3, CommitShape, Unraced, ScheduleAssumption
  <2>2. d \in Changed(c) =>
           /\ Rewrite(c.op, c.loaded[d], c.write[d]) /\ entry[d] = c.loaded[d]
           /\ entry'[d] = c.write[d] /\ d \in DOMAIN c.write
    BY CommitShape, Unraced
  <2>3. d \notin Changed(c) => entry'[d] = entry[d]
    BY CommitShape
  <2>4. CASE c.op \in {"create", "move", "edit"}
    <3>1. CASE d \in Changed(c)
      BY <3>1, <2>1, <2>2, <2>4, <1>2, <1>3 DEF CallOK
    <3>2. CASE d \notin Changed(c)
      <4>1. d \notin Duplicates(e, c.write[e])
        BY <1>3, <2>4, Unraced DEF Outdated
      <4>2. ~Over(entry[d], c.write[e])
        BY <4>1, <1>3 DEF Duplicates
      <4>3. c.write[e].status # "none" /\ entry[d].status # "none"
        BY <2>1, <2>3, <3>2, <1>3
      <4>4. Apart(entry[d], c.write[e])
        BY <4>2, <4>3, Overlaps
      <4> QED BY <4>4, <2>1, <2>3, <3>2 DEF Apart
    <3> QED BY <3>1, <3>2
  <2>5. CASE c.op = "delete"
    BY <2>1, <2>5, <1>3 DEF Rewrite, None
  <2>6. CASE c.op \in {"retract", "publish"}
    <3>1. entry[e].status # "none" /\ entry'[e].user = entry[e].user
          /\ entry'[e].slot = entry[e].slot
      BY <2>1, <2>6 DEF Rewrite, EntryRec
    <3>2. entry[d].status # "none" /\ entry'[d].user = entry[d].user
          /\ entry'[d].slot = entry[d].slot
      BY <2>2, <2>3, <2>6, <1>3 DEF Rewrite, EntryRec
    <3>3. Apart(entry[e], entry[d])
      BY <3>1, <3>2, <1>1, <1>3 DEF NoTwins
    <3> QED BY <3>1, <3>2, <3>3 DEF Apart
  <2> QED BY <2>1, <2>4, <2>5, <2>6 DEF OnEntries
<1>4. ASSUME NEW e \in Entries, NEW d \in Entries, e # d,
             e \notin Changed(c), d \notin Changed(c),
             entry'[e].status # "none", entry'[d].status # "none"
      PROVE  Apart(entry'[e], entry'[d])
  <2>1. entry'[e] = entry[e] /\ entry'[d] = entry[d]
    BY <1>4, CommitShape
  <2> QED BY <2>1, <1>1, <1>4 DEF NoTwins
<1>5. \A e, d \in Entries :
         e # d /\ entry'[e].status # "none" /\ entry'[d].status # "none" =>
            Apart(entry'[e], entry'[d])
  BY <1>3, <1>4 DEF Apart
<1> QED BY <1>5 DEF NoTwins

\* Nobody is published to work in approved time off: a publication holds the
\* time off it found, an approval looks again.
LEMMA CommitClear ==
    ASSUME IInv, NEW s \in Sessions, Commit(s), ~raced'
    PROVE  Clear'
<1> DEFINE c == call[s]
<1>1. Clear
  BY Unraced DEF IInv
<1>2. CallOK(c, off)
  BY CommitShape
<1> SUFFICES ASSUME NEW e \in Entries, NEW o \in Requests,
                    entry'[e].status = "published", off'[o].status = "approved"
             PROVE  Apart(entry'[e], off'[o])
  BY DEF Clear
<1>3. CASE e \in Changed(c)
  <2>1. /\ Rewrite(c.op, c.loaded[e], c.write[e]) /\ entry[e] = c.loaded[e]
        /\ entry'[e] = c.write[e] /\ e \in DOMAIN c.write /\ c.op \in OnEntries
        /\ c.write[e] # c.loaded[e]
    BY <1>3, CommitShape, Unraced, ScheduleAssumption
  <2>2. off' = off
    BY <2>1, CommitShape
  <2>3. CASE c.op \in {"create", "move", "edit"}
    <3>1. o \notin OffOver(c.write[e], {"approved"})
      BY <1>3, <2>1, <2>3, Unraced DEF Outdated
    <3>2. ~Over(off[o], c.write[e])
      BY <3>1, <2>2 DEF OffOver
    <3>3. Apart(off[o], c.write[e])
      BY <3>2, <2>1, <2>2, Overlaps
    <3> QED BY <3>3, <2>1, <2>2 DEF Apart
  <2>4. CASE c.op \in {"delete", "retract"}
    BY <2>1, <2>4 DEF Rewrite, None
  <2>5. CASE c.op = "publish"
    <3>1. LockedOff(c.write[e]) \subseteq c.found[e]
      BY <1>3, <2>5, Unraced DEF Outdated
    <3>2. c.write[e].user = c.loaded[e].user /\ c.write[e].slot = c.loaded[e].slot
      BY <2>1, <2>5 DEF Rewrite
    <3>3. ASSUME ~Apart(c.write[e], off[o]) PROVE FALSE
      <4>1. Over(off[o], c.write[e])
        BY <3>3, <2>1, <2>2, Overlaps DEF Apart
      <4>2. o \in c.found[e]
        BY <4>1, <3>1, <2>2 DEF LockedOff, OffOver
      <4>3. Apart(c.loaded[e], off[o])
        BY <4>2, <2>1, <2>2, <2>5, <1>2 DEF CallOK
      <4> QED BY <4>3, <3>2, <3>3 DEF Apart
    <3> QED BY <3>3, <2>1, <2>2
  <2> QED BY <2>1, <2>3, <2>4, <2>5 DEF OnEntries
<1>4. CASE e \notin Changed(c) /\ o \in Changed(c)
  <2>1. /\ Rewrite(c.op, c.loaded[o], c.write[o])
        /\ off'[o] = c.write[o] /\ c.op \in OnOff
    BY <1>4, CommitShape, Unraced, ScheduleAssumption
  <2>2. entry'[e] = entry[e]
    BY <1>4, CommitShape
  <2>3. c.op = "approve"
    BY <2>1 DEF Rewrite, OnOff
  <2>4. e \notin PublishedOver(c.write[o])
    BY <1>4, <2>3, Unraced DEF Outdated
  <2>5. ~Over(entry[e], c.write[o])
    BY <2>2, <2>4 DEF PublishedOver
  <2> QED BY <2>1, <2>2, <2>5, Overlaps
<1>5. CASE e \notin Changed(c) /\ o \notin Changed(c)
  <2>1. entry'[e] = entry[e] /\ off'[o] = off[o]
    BY <1>5, CommitShape
  <2> QED BY <2>1, <1>1 DEF Clear
<1> QED BY <1>3, <1>4, <1>5

\* A commit keeps the invariant.
LEMMA CommitInv ==
    ASSUME IInv, NEW s \in Sessions, Commit(s)
    PROVE  IInv'
<1>1. call' = [t \in Sessions |-> call'[t]]
  BY CommitShape
<1>2. ASSUME ~raced' PROVE NoTwins' /\ Clear'
  BY <1>2, CommitNoTwins, CommitClear
<1> QED BY <1>1, <1>2, CommitTypes DEF IInv

-----------------------------------------------------------------------------
(***************************************************************************)
(* The invariant                                                           *)
(***************************************************************************)
LEMMA InitInv == Init => IInv
<1> SUFFICES ASSUME Init PROVE IInv
  OBVIOUS
<1>1. /\ \A e \in Entries : entry[e] = None /\ entry[e].status = "none"
      /\ \A o \in Requests : off[o] = None
      /\ \A s \in Sessions : call[s] = Idle
  BY DEF Init, None
<1>2. TypeOK
  BY <1>1, IdleOK DEF Init, TypeOK, EntryRows, OffRows
<1>3. \A s \in Sessions : CallOK(call[s], off)
  BY <1>1, IdleOK
<1>4. NoTwins /\ Clear
  BY <1>1 DEF NoTwins, Clear
<1>5. call = [s \in Sessions |-> call[s]]
  BY DEF Init
<1> QED BY <1>2, <1>3, <1>4, <1>5 DEF IInv

\* Every step keeps the invariant, action by action.
LEMMA NextInv == IInv /\ [Next]_vars => IInv'
<1> SUFFICES ASSUME IInv, [Next]_vars PROVE IInv'
  OBVIOUS
<1>1. ASSUME NEW s \in Sessions, BeginCall(s) PROVE IInv'
  <2>1. CASE \E e \in Entries :
                \/ BeginCreate(s, e) \/ BeginMove(s, e) \/ BeginMovePublished(s, e)
                \/ BeginDelete(s, e) \/ BeginRetract(s, e)
    BY <2>1, BeginEntry
  <2>2. CASE \E E \in SUBSET Entries : BeginPublish(s, E)
    BY <2>2, BeginPublishInv
  <2>3. CASE \E E \in SUBSET Entries : BeginGenerate(s, E)
    BY <2>3, BeginGenerateInv
  <2>4. CASE \E o \in Requests : BeginClose(s, o) \/ BeginAmend(s, o) \/ BeginApprove(s, o)
    BY <2>4, BeginOff
  <2>5. \A U : WeekOf(U) \in SUBSET Entries
    BY DEF WeekOf
  <2>6. \A e \in Entries : {e} \in SUBSET Entries
    OBVIOUS
  <2> QED BY <1>1, <2>1, <2>2, <2>3, <2>4, <2>5, <2>6, Zenon DEF BeginCall
<1>2. ASSUME NEW s \in Sessions,
             Look(s) \/ LockForPublish(s) \/ LockForApproval(s) \/ Commit(s) \/ RollBack(s)
      PROVE  IInv'
  BY <1>2, LookInv, LockForPublishInv, LockForApprovalInv, CommitInv, RollBackInv
<1>3. ASSUME NEW o \in Requests, Submit(o) PROVE IInv'
  BY <1>3, SubmitInv
<1>4. CASE UNCHANGED vars
  <2>1. UNCHANGED <<entry, off, call, raced>>
    BY <1>4 DEF vars
  <2> QED BY <2>1 DEF IInv, TypeOK, NoTwins, Clear, Held
<1> QED BY <1>1, <1>2, <1>3, <1>4 DEF Next

\* The rows of the schedule and of time off stay what the columns allow, every
\* request knows what it has to, and unless one raced no shift is there twice or
\* in approved time off.
THEOREM ScheduleInvariant == Spec => []IInv
<1>1. Init => IInv
  BY InitInv
<1>2. IInv /\ [Next]_vars => IInv'
  BY NextInv
<1> QED BY <1>1, <1>2, PTL DEF Spec

\* staff_schedule.py, time_off.py: nobody is published to work in time off he was
\* granted, and has no shift twice, unless a request committed on checks that did
\* not hold any more; no two requests hold the lock of one row.
THEOREM SoundUnlessRacedHolds == Spec => []SoundUnlessRaced
<1>1. IInv => SoundUnlessRaced
  <2> SUFFICES ASSUME IInv PROVE SoundUnlessRaced
    OBVIOUS
  <2>1. ASSUME ~raced PROVE NoShiftInTimeOff
    <3> SUFFICES ASSUME NEW e \in Entries, NEW o \in Requests,
                        entry[e].status = "published", off[o].status = "approved",
                        Over(entry[e], off[o])
                 PROVE  FALSE
      BY DEF NoShiftInTimeOff
    <3> QED BY <2>1, Overlaps DEF IInv, Clear
  <2>2. ASSUME ~raced, NEW e \in Entries, entry[e] # None, NEW d \in Duplicates(e, entry[e])
        PROVE  FALSE
    <3>1. d \in Entries \ {e} /\ Over(entry[d], entry[e])
      BY <2>2 DEF Duplicates
    <3>2. entry[e].status # "none" /\ entry[d].status # "none"
      BY <3>1, <2>2, Rows DEF IInv, Over
    <3>3. Apart(entry[d], entry[e])
      BY <3>1, <3>2, <2>2 DEF IInv, NoTwins
    <3> QED BY <3>1, <3>2, <3>3, Overlaps
  <2> QED BY <2>1, <2>2 DEF IInv, SoundUnlessRaced
<1> QED BY <1>1, ScheduleInvariant, PTL

\* Unless a request commits on a row that changed, a decision on time off is
\* final, and a published shift is never deleted and only moved by the request
\* that tells the staffer.
THEOREM SettledUnlessRacedHolds == Spec => SettledUnlessRaced
<1> DEFINE Settled == ~raced' =>
              /\ \A o \in Requests :
                    off[o].status \in {"approved", "denied", "cancelled"} => off'[o] = off[o]
              /\ \A e \in Entries :
                    entry[e].status = "published" =>
                        /\ entry'[e] # None
                        /\ entry'[e].slot # entry[e].slot =>
                              \E s \in Sessions : call[s].op = "edit"
                                                  /\ e \in DOMAIN call[s].loaded
<1>1. IInv /\ [Next]_vars => [Settled]_vars
  <2> SUFFICES ASSUME IInv, Next PROVE Settled
    OBVIOUS
  <2>1. ASSUME entry' = entry, \A o \in Requests : off[o].status # "none" => off'[o] = off[o]
        PROVE  Settled
    BY <2>1 DEF None
  <2>2. CASE \E o \in Requests : Submit(o)
    <3>1. PICK o \in Requests : Submit(o)
      BY <2>2
    <3>2. \A a \in Requests : a # o => off'[a] = off[a]
      BY <3>1 DEF Submit, IInv, TypeOK
    <3> QED BY <3>1, <3>2, <2>1 DEF Submit, None
  <2>3. ASSUME NEW s \in Sessions, BeginCall(s) \/ Look(s) \/ LockForPublish(s)
                  \/ LockForApproval(s) \/ RollBack(s)
        PROVE  Settled
    <3>1. UNCHANGED <<entry, off>>
      BY <2>3 DEF BeginCall, Begin, BeginCreate, BeginGenerate, BeginMove, BeginMovePublished,
                  BeginDelete, BeginRetract, BeginPublish, BeginClose, BeginAmend,
                  BeginApprove, Look, LockForPublish, LockForApproval, RollBack
    <3> QED BY <3>1, <2>1
  <2>4. ASSUME NEW s \in Sessions, Commit(s), ~raced' PROVE Settled
    <3> DEFINE c == call[s]
    <3>1. ASSUME NEW o \in Requests, off[o].status \in {"approved", "denied", "cancelled"}
          PROVE  off'[o] = off[o]
      <4>1. CASE o \in Changed(c)
        <5>1. /\ Rewrite(c.op, c.loaded[o], c.write[o]) /\ off[o] = c.loaded[o]
              /\ c.op \in OnOff
          BY <4>1, <2>4, CommitShape, Unraced, ScheduleAssumption
        <5> QED BY <5>1, <3>1 DEF Rewrite, OnOff
      <4>2. CASE o \notin Changed(c)
        BY <4>2, <2>4, CommitShape
      <4> QED BY <4>1, <4>2
    <3>2. ASSUME NEW e \in Entries, entry[e].status = "published"
          PROVE  /\ entry'[e] # None
                 /\ entry'[e].slot # entry[e].slot =>
                       c.op = "edit" /\ e \in DOMAIN c.loaded
      <4>1. CASE e \in Changed(c)
        <5>1. /\ Rewrite(c.op, c.loaded[e], c.write[e]) /\ entry[e] = c.loaded[e]
              /\ entry'[e] = c.write[e] /\ c.op \in OnEntries /\ e \in DOMAIN c.loaded
          BY <4>1, <2>4, CommitShape, Unraced, ScheduleAssumption
        <5>2. c.op \in {"edit", "retract"}
          BY <5>1, <3>2 DEF Rewrite, OnEntries, None
        <5> QED BY <5>1, <5>2 DEF Rewrite, EntryRec, None
      <4>2. CASE e \notin Changed(c)
        BY <4>2, <3>2, <2>4, CommitShape DEF None
      <4> QED BY <4>1, <4>2
    <3> QED BY <3>1, <3>2
  <2>5. ASSUME raced' PROVE Settled
    BY <2>5
  <2> QED BY <2>2, <2>3, <2>4, <2>5 DEF Next
<1> QED BY <1>1, ScheduleInvariant, PTL DEF Spec, SettledUnlessRaced
-----------------------------------------------------------------------------
(***************************************************************************)
(* Attendance: clocking in and out                                         *)
(*                                                                         *)
(* Ids are given out in order and never returned, so a new punch is later  *)
(* by id than all others; a call whose last punch is still the last one    *)
(* writes at its time or after it, so the new punch is the last in the     *)
(* timeline too (Appended).  What a call knows (TaskOK) are the direction  *)
(* of the punch it decides about and, until a manager rewrites the         *)
(* timeline, its time: both outlive every other call.                      *)
(***************************************************************************)

EditOps == {"resolve", "adjust", "void"}
ShiftOps == {"no_show", "missing_out", "excuse"}
ClosingOps == {"out", "force", "auto", "resolve"}

\* What a call under way knows of the punches t, of which e were rewritten, and
\* of the clock n.
TaskOK(c, t, e, n) ==
    /\ c = [op |-> c.op, step |-> c.step, target |-> c.target, at |-> c.at,
            last |-> c.last, row |-> c.row, shift |-> c.shift]
    /\ c.op \in Inserts \cup Reviews \cup ShiftOps
    /\ c.step = "write" \/ (c.step = "recheck" /\ c.op = "auto")
    /\ c.at \in 0 .. n
    /\ c.op \in {"in"} \cup ShiftOps => c.target = 0
    /\ c.op \in ClosingOps \cup Reviews => c.target \in Punches /\ t[c.target] # NoRow
    /\ c.op \in ClosingOps =>
          t[c.target].way = "in" /\ (e = 0 => t[c.target].at <= c.at)
    /\ c.op \in {"out", "force", "auto"} => c.last = c.target
    /\ c.op = "in" /\ c.last # 0 =>
          /\ c.last \in Punches /\ t[c.last] # NoRow
          /\ t[c.last].way = "out" /\ (e = 0 => t[c.last].at <= c.at)
    /\ c.op \notin Reviews => c.shift \in Shifts
    /\ c.op = "resolve" => c.shift.cin = c.target /\ c.shift.status = "missing_out"
    /\ c.op = "no_show" => c.shift.cin = 0 /\ c.shift.status = "scheduled"
    /\ c.op = "missing_out" =>
          c.shift.cin # 0 /\ c.shift.status \notin {"missing_out", "excused"}
    /\ c.op = "excuse" => c.shift.status = "no_show"

\* Ids are taken in order; the edits under way are within the bound.
InOrder ==
    /\ \A p \in Stored, q \in Punches : q < p => q \in Stored
    /\ edits + Pending(EditOps) <= MaxEdits

\* A shift links punches of the right direction, and a clock-out only next to a
\* clock-in.
ShiftLinks ==
    /\ shift.cin # 0 => shift.cin \in Stored /\ punch[shift.cin].way = "in"
    /\ shift.cout # 0 => shift.cout \in Stored /\ punch[shift.cout].way = "out"
    /\ ~stale /\ shift.cin = 0 => shift.cout = 0

AttendanceInv ==
    /\ AttendanceTypes
    /\ DOMAIN txn = Tasks
    /\ \A s \in Tasks : txn[s] = NoCall \/ TaskOK(txn[s], punch, edits, now)
    /\ InOrder
    /\ edits = 0 => Live = Stored
    /\ ShiftLinks
    /\ PunchesAlternate /\ StatusMatchesPunches /\ LinksOneSession

-----------------------------------------------------------------------------
(***************************************************************************)
(* Last elements, counts and ids                                           *)
(***************************************************************************)

\* A finite set has an element with none above it in a strict order.
LEMMA Topmost ==
    ASSUME NEW S, IsFiniteSet(S), S # {}, NEW R,
           \A x \in S : <<x, x>> \notin R,
           \A x, y, z \in S : <<x, y>> \in R /\ <<y, z>> \in R => <<x, z>> \in R
    PROVE  \E x \in S : \A y \in S : <<x, y>> \notin R
<1> DEFINE Above(x) == {y \in S : <<x, y>> \in R}
           Sets == {Above(x) : x \in S}
<1>1. Sets \subseteq FiniteSubsetsOf(S) /\ Sets # {}
  <2>1. \A x \in S : Above(x) \in SUBSET S /\ IsFiniteSet(Above(x))
    BY FS_Subset
  <2> HIDE DEF Above
  <2> QED BY <2>1 DEF FiniteSubsetsOf
<1>2. PICK A \in Sets : \A B \in Sets : <<B, A>> \notin StrictSubsetOrdering(S)
  BY <1>1, FS_StrictSubsetOrderingWellFounded, WFMin
<1>3. PICK x \in S : A = Above(x)
  OBVIOUS
<1>4. ASSUME NEW y \in S, <<x, y>> \in R PROVE FALSE
  <2>1. Above(y) \subseteq Above(x) /\ y \in Above(x) /\ y \notin Above(y)
    BY <1>4
  <2>2. <<Above(y), Above(x)>> \in StrictSubsetOrdering(S)
    BY <2>1 DEF StrictSubsetOrdering
  <2> QED BY <1>2, <1>3, <2>2
<1> QED BY <1>4

\* The rows that are there.
LEMMA PunchTypes ==
    ASSUME AttendanceTypes
    PROVE  /\ IsFiniteSet(Punches) /\ Cardinality(Punches) = MaxPunches
           /\ IsFiniteSet(Stored) /\ Stored \subseteq Punches /\ Live \subseteq Stored
           /\ \A p \in Punches : p \in Nat /\ p > 0
           /\ \A p \in Stored : /\ punch[p].way \in {"in", "out"} /\ punch[p].at \in 0 .. now
                                /\ punch[p].at \in Nat /\ punch[p].live \in BOOLEAN
<1>1. MaxPunches \in Nat /\ now \in Nat
  BY AttendanceAssumption DEF AttendanceTypes
<1>2. IsFiniteSet(Punches) /\ Cardinality(Punches) = MaxPunches
  BY <1>1, FS_Interval DEF Punches
<1>3. Stored \subseteq Punches /\ Live \subseteq Stored
  BY DEF Stored, Live
<1>4. \A p \in Stored : /\ punch[p].way \in {"in", "out"} /\ punch[p].at \in 0 .. now
                        /\ punch[p].live \in BOOLEAN
  BY DEF Stored, AttendanceTypes, PunchRows
<1>5. \A p \in Punches : p \in Nat /\ p > 0
  BY <1>1 DEF Punches
<1>6. IsFiniteSet(Stored)
  BY <1>2, <1>3, FS_Subset
<1> QED BY <1>1, <1>2, <1>3, <1>4, <1>5, <1>6

\* Latest is the last of the live punches, if there is one.
LEMMA LatestOK ==
    ASSUME AttendanceTypes
    PROVE  /\ Live = {} => Latest = 0
           /\ Live # {} => Latest \in Live /\ \A q \in Live \ {Latest} : Before(q, Latest)
<1>1. CASE Live # {}
  <2> DEFINE R == {pq \in Live \X Live : Before(pq[1], pq[2])}
  <2>1. IsFiniteSet(Live)
    BY PunchTypes, FS_Subset
  <2>2. \A p \in Live : p \in Nat /\ punch[p].at \in Nat
    BY PunchTypes
  <2>3. \A p, q \in Live : <<p, q>> \in R <=> Before(p, q)
    OBVIOUS
  <2>4. /\ \A p \in Live : ~Before(p, p)
        /\ \A p, q, r \in Live : Before(p, q) /\ Before(q, r) => Before(p, r)
        /\ \A p, q \in Live : p # q => Before(p, q) \/ Before(q, p)
    BY <2>2 DEF Before
  <2> HIDE DEF R
  <2>5. PICK p \in Live : \A q \in Live : <<p, q>> \notin R
    BY <1>1, <2>1, <2>3, <2>4, Topmost
  <2>6. \A q \in Live \ {p} : Before(q, p)
    BY <2>3, <2>4, <2>5
  <2> QED BY <1>1, <2>6 DEF Latest
<1>2. CASE Live = {}
  BY <1>2 DEF Latest
<1> QED BY <1>1, <1>2

\* Pending, of a table of calls, and the same without one of them.
Count(f, ops) == Cardinality({s \in Tasks : f[s].op \in ops})
CountOthers(f, ops, s) == Cardinality({u \in Tasks \ {s} : f[u].op \in ops})

\* A count is that of the other calls plus one's own.
LEMMA CountOne ==
    ASSUME NEW f, NEW ops, NEW s \in Tasks
    PROVE  /\ CountOthers(f, ops, s) \in Nat
           /\ f[s].op \in ops => Count(f, ops) = CountOthers(f, ops, s) + 1
           /\ f[s].op \notin ops => Count(f, ops) = CountOthers(f, ops, s)
<1> DEFINE rest == {u \in Tasks \ {s} : f[u].op \in ops}
<1>1. IsFiniteSet(rest) /\ s \notin rest
  BY AttendanceAssumption, FS_Subset DEF AttendanceAssumption
<1>2. Cardinality(rest) \in Nat
  BY <1>1, FS_CardinalityType
<1>3. CASE f[s].op \in ops
  <2>1. {u \in Tasks : f[u].op \in ops} = rest \cup {s}
    BY <1>3
  <2> HIDE DEF rest
  <2>2. Cardinality(rest \cup {s}) = Cardinality(rest) + 1
    BY <1>1, FS_AddElement
  <2>3. Count(f, ops) = Cardinality(rest) + 1
    BY <2>1, <2>2 DEF Count
  <2> QED BY <1>2, <1>3, <2>3 DEF CountOthers, rest
<1>4. CASE f[s].op \notin ops
  <2>1. {u \in Tasks : f[u].op \in ops} = rest
    BY <1>4
  <2> QED BY <1>2, <1>4, <2>1 DEF Count, CountOthers
<1> QED BY <1>3, <1>4

\* When one call moves on, a count changes by its share.
LEMMA CountMoves ==
    ASSUME NEW f, NEW g, NEW ops, NEW s \in Tasks, \A u \in Tasks \ {s} : g[u] = f[u]
    PROVE  /\ Count(f, ops) \in Nat /\ Count(g, ops) \in Nat
           /\ (f[s].op \in ops <=> g[s].op \in ops) => Count(g, ops) = Count(f, ops)
           /\ f[s].op \in ops /\ g[s].op \notin ops => Count(g, ops) = Count(f, ops) - 1
           /\ f[s].op \notin ops /\ g[s].op \in ops => Count(g, ops) = Count(f, ops) + 1
<1> DEFINE n == CountOthers(f, ops, s)
<1>1. CountOthers(g, ops, s) = n
  <2>1. {u \in Tasks \ {s} : f[u].op \in ops} = {u \in Tasks \ {s} : g[u].op \in ops}
    OBVIOUS
  <2> QED BY <2>1 DEF CountOthers
<1>2. /\ n \in Nat
      /\ f[s].op \in ops => Count(f, ops) = n + 1
      /\ f[s].op \notin ops => Count(f, ops) = n
  BY CountOne
<1>3. /\ g[s].op \in ops => Count(g, ops) = n + 1
      /\ g[s].op \notin ops => Count(g, ops) = n
  BY <1>1, CountOne
<1> HIDE DEF n
<1> QED BY <1>2, <1>3

\* The requests in flight are counted by Count, before a step and after it.
LEMMA PendingIsCount ==
    /\ \A ops : Pending(ops) = Count(txn, ops)
    /\ \A ops : Pending(ops)' = Count(txn', ops)
BY DEF Pending, Count

\* The ids set aside: that of every call that needs one.
ReserveOps == {"out", "force", "auto", "resolve", "adjust", "void"}

\* What is left of the bound on punches, spelled out with Count.
LEMMA FreeIs ==
    /\ Free = MaxPunches - Cardinality(Stored) - 2 * Count(txn, {"in"})
                 - Count(txn, ReserveOps)
    /\ Free' = MaxPunches - Cardinality(Stored') - 2 * Count(txn', {"in"})
                 - Count(txn', ReserveOps)
BY DEF Free, Pending, Count, ReserveOps

\* A call that adds a punch finds an id, greater than all others.
LEMMA NewIdOK ==
    ASSUME AttendanceInv, NEW s \in Tasks, txn[s].op \in Inserts
    PROVE  /\ NewId \in Punches \ Stored
           /\ \A p \in Stored : p < NewId
           /\ \A q \in Punches : q < NewId => q \in Stored
<1>1. AttendanceTypes /\ \A p \in Stored, q \in Punches : q < p => q \in Stored
  BY DEF AttendanceInv, InOrder
<1>2. /\ IsFiniteSet(Punches) /\ Cardinality(Punches) = MaxPunches
      /\ IsFiniteSet(Stored) /\ Stored \subseteq Punches
      /\ \A p \in Punches : p \in Nat
  BY <1>1, PunchTypes
<1>3. Punches \ Stored # {}
  <2>1. Count(txn, {"in"}) \in Nat /\ Count(txn, ReserveOps) \in Nat
    BY CountMoves
  <2>5. Count(txn, {"in"}) > 0 \/ Count(txn, ReserveOps) > 0
    <3>1. txn[s].op \in {"in"} \/ txn[s].op \in ReserveOps
      BY DEF Inserts, ReserveOps
    <3>2. CASE txn[s].op \in {"in"}
      <4>1. /\ CountOthers(txn, {"in"}, s) \in Nat
            /\ Count(txn, {"in"}) = CountOthers(txn, {"in"}, s) + 1
        BY <3>2, CountOne
      <4> QED BY <4>1
    <3>3. CASE txn[s].op \in ReserveOps
      <4>1. /\ CountOthers(txn, ReserveOps, s) \in Nat
            /\ Count(txn, ReserveOps) = CountOthers(txn, ReserveOps, s) + 1
        BY <3>3, CountOne
      <4> QED BY <4>1
    <3> QED BY <3>1, <3>2, <3>3
  <2>2. Free >= 0 /\ MaxPunches \in Nat
    BY <1>1, AttendanceAssumption DEF AttendanceTypes
  <2>3. Cardinality(Stored) \in Nat
    BY <1>2, FS_CardinalityType
  <2>4. Cardinality(Stored) # Cardinality(Punches)
    <3>1. Free = MaxPunches - Cardinality(Stored) - 2 * Count(txn, {"in"})
                   - Count(txn, ReserveOps)
      BY FreeIs
    <3> DEFINE a == Cardinality(Stored)
               m == Count(txn, {"in"})
               n == Count(txn, ReserveOps)
    <3>2. MaxPunches - a - 2 * m - n >= 0 /\ (m > 0 \/ n > 0)
      BY <2>5, <2>2, <3>1
    <3>3. a \in Nat /\ m \in Nat /\ n \in Nat /\ MaxPunches \in Nat
      BY <2>1, <2>2, <2>3
    <3> HIDE DEF a, m, n
    <3>4. a # MaxPunches
      BY <3>2, <3>3
    <3> QED BY <1>2, <3>4 DEF a
  <2> QED BY <1>2, <2>4
<1> DEFINE S == Punches \ Stored
           R == {pq \in S \X S : pq[2] < pq[1]}
<1>4. IsFiniteSet(S) /\ S # {} /\ \A p \in S : p \in Nat
  BY <1>2, <1>3, FS_Subset
<1>5. \A p, q \in S : <<p, q>> \in R <=> q < p
  OBVIOUS
<1> HIDE DEF R, S
<1>6. PICK p \in S : \A q \in S : <<p, q>> \notin R
  <2>1. /\ \A x \in S : <<x, x>> \notin R
        /\ \A x, y, z \in S : <<x, y>> \in R /\ <<y, z>> \in R => <<x, z>> \in R
    BY <1>4, <1>5
  <2> QED BY <1>4, <2>1, Topmost
<1>7. \A q \in S : p <= q
  <2> SUFFICES ASSUME NEW q \in S PROVE p <= q
    OBVIOUS
  <2>1. p \in Nat /\ q \in Nat /\ ~(q < p)
    BY <1>4, <1>5, <1>6
  <2> QED BY <2>1
<1>8. NewId \in S /\ \A q \in S : NewId <= q
  BY <1>7 DEF NewId, S
<1>9. \A q \in Stored : q < NewId
  BY <1>1, <1>2, <1>8 DEF S
<1>10. \A q \in Punches : q < NewId => q \in Stored
  BY <1>2, <1>4, <1>8 DEF S
<1> QED BY <1>8, <1>9, <1>10 DEF S

-----------------------------------------------------------------------------
(***************************************************************************)
(* What one call does to the counts and to the others                      *)
(***************************************************************************)
IdsFor(op) == IF op = "in" THEN 2 ELSE IF op \in ReserveOps THEN 1 ELSE 0

\* Ids are set aside by the calls and taken by the rows.
LEMMA FreeMoves ==
    ASSUME NEW s \in Tasks, \A u \in Tasks \ {s} : txn'[u] = txn[u],
           Cardinality(Stored) \in Nat, Cardinality(Stored') \in Nat
    PROVE  /\ Free \in Int /\ Free' \in Int
           /\ Free' = Free + Cardinality(Stored) - Cardinality(Stored')
                        + IdsFor(txn[s].op) - IdsFor(txn'[s].op)
<1> DEFINE a == Cardinality(Stored)
           b == Cardinality(Stored')
           m == Count(txn, {"in"})
           n == Count(txn, ReserveOps)
           mm == Count(txn', {"in"})
           nn == Count(txn', ReserveOps)
           k == IF txn[s].op = "in" THEN 1 ELSE 0
           kk == IF txn'[s].op = "in" THEN 1 ELSE 0
           l == IF txn[s].op \in ReserveOps THEN 1 ELSE 0
           ll == IF txn'[s].op \in ReserveOps THEN 1 ELSE 0
<1>1. m \in Nat /\ mm \in Nat /\ mm = m - k + kk
  <2>1. /\ m \in Nat /\ mm \in Nat
        /\ (txn[s].op \in {"in"} <=> txn'[s].op \in {"in"}) => mm = m
        /\ txn[s].op \in {"in"} /\ txn'[s].op \notin {"in"} => mm = m - 1
        /\ txn[s].op \notin {"in"} /\ txn'[s].op \in {"in"} => mm = m + 1
    BY CountMoves
  <2> HIDE DEF m, mm
  <2> QED BY <2>1
<1>2. n \in Nat /\ nn \in Nat /\ nn = n - l + ll
  BY CountMoves
<1>3. /\ IdsFor(txn[s].op) = 2 * k + l /\ IdsFor(txn'[s].op) = 2 * kk + ll
      /\ {k, kk, l, ll} \subseteq Nat
  BY DEF IdsFor, ReserveOps
<1>4. Free = MaxPunches - a - 2 * m - n /\ Free' = MaxPunches - b - 2 * mm - nn
  BY FreeIs
<1>5. a \in Nat /\ b \in Nat /\ MaxPunches \in Nat
  BY AttendanceAssumption DEF AttendanceAssumption
<1> HIDE DEF a, b, m, n, mm, nn, k, kk, l, ll
<1>6. Free' = Free + a - b + (2 * k + l) - (2 * kk + ll)
  BY <1>1, <1>2, <1>3, <1>4, <1>5
<1>7. Free \in Int /\ Free' \in Int
  BY <1>1, <1>2, <1>4, <1>5
<1> QED BY <1>3, <1>6, <1>7 DEF a, b

\* A step of one task changes the count of pending edits by that task alone.
LEMMA EditsMove ==
    ASSUME NEW s \in Tasks, \A u \in Tasks \ {s} : txn'[u] = txn[u]
    PROVE  /\ Count(txn, EditOps) \in Nat /\ Count(txn', EditOps) \in Nat
           /\ Count(txn', EditOps) = Count(txn, EditOps)
                - (IF txn[s].op \in EditOps THEN 1 ELSE 0)
                + (IF txn'[s].op \in EditOps THEN 1 ELSE 0)
<1> DEFINE m == Count(txn, EditOps)
           mm == Count(txn', EditOps)
           l == IF txn[s].op \in EditOps THEN 1 ELSE 0
           ll == IF txn'[s].op \in EditOps THEN 1 ELSE 0
<1>1. m \in Nat /\ mm \in Nat /\ mm = m - l + ll
  BY CountMoves
<1> QED BY <1>1

\* What a call knows outlasts everything that keeps rows, their direction and,
\* unless the timeline was rewritten, their time.
LEMMA TaskKept ==
    ASSUME NEW c, NEW t, NEW e, NEW n \in Nat, TaskOK(c, t, e, n),
           NEW tt, NEW ee, NEW nn \in Nat, n <= nn, ee = 0 => e = 0,
           \A p \in Punches : t[p] # NoRow =>
               tt[p] # NoRow /\ tt[p].way = t[p].way /\ (ee = 0 => tt[p].at = t[p].at)
    PROVE  TaskOK(c, tt, ee, nn)
<1>1. c.at \in 0 .. nn
  BY DEF TaskOK
<1>2. c.op \in ClosingOps =>
          tt[c.target].way = "in" /\ (ee = 0 => tt[c.target].at <= c.at)
  BY DEF TaskOK
<1>3. c.op \in ClosingOps \cup Reviews => c.target \in Punches /\ tt[c.target] # NoRow
  BY DEF TaskOK
<1>4. c.op = "in" /\ c.last # 0 =>
          /\ c.last \in Punches /\ tt[c.last] # NoRow
          /\ tt[c.last].way = "out" /\ (ee = 0 => tt[c.last].at <= c.at)
  BY DEF TaskOK
<1> QED BY <1>1, <1>2, <1>3, <1>4 DEF TaskOK

\* A step that leaves the rows alone.
LEMMA SameHistory ==
    ASSUME AttendanceInv, UNCHANGED <<punch, shift, crossed, stale, edits>>
    PROVE  /\ Stored' = Stored /\ Live' = Live
           /\ (edits = 0 => Live = Stored)' /\ ShiftLinks'
           /\ PunchesAlternate' /\ StatusMatchesPunches' /\ LinksOneSession'
           /\ (\A p \in Stored, q \in Punches : q < p => q \in Stored)'
<1>1. Stored' = Stored /\ Live' = Live
  BY DEF Stored, Live
<1>2. \A p, q : Before(p, q)' <=> Before(p, q)
  BY DEF Before
<1>3. \A p, q : Between(p, q)' = Between(p, q)
  BY <1>1, <1>2 DEF Between
<1>4. PunchesAlternate'
  BY <1>1, <1>2, <1>3 DEF AttendanceInv, PunchesAlternate
<1>5. LinksOneSession'
  BY <1>1, <1>2, <1>3 DEF AttendanceInv, LinksOneSession
<1>6. StatusMatchesPunches' /\ ShiftLinks'
  BY <1>1 DEF AttendanceInv, StatusMatchesPunches, ShiftLinks
<1> QED BY <1>1, <1>4, <1>5, <1>6 DEF AttendanceInv, InOrder

\* A call that begins, looks again or gives up, with ids and edits to spare.
LEMMA CallMoves ==
    ASSUME AttendanceInv, NEW s \in Tasks, NEW c,
           txn' = [txn EXCEPT ![s] = c],
           UNCHANGED <<punch, shift, now, crossed, stale, edits>>,
           c = NoCall \/ TaskOK(c, punch, edits, now),
           Free + IdsFor(txn[s].op) >= IdsFor(c.op),
           c.op \in EditOps => txn[s].op \in EditOps \/ MayEdit
    PROVE  AttendanceInv'
<1>1. AttendanceTypes /\ DOMAIN txn = Tasks
  BY DEF AttendanceInv
<1>2. txn'[s] = c /\ DOMAIN txn' = Tasks /\ \A u \in Tasks \ {s} : txn'[u] = txn[u]
  BY <1>1
<1>3. Stored' = Stored /\ Cardinality(Stored) \in Nat
  BY <1>1, PunchTypes, SameHistory, FS_CardinalityType
<1>4. Free' >= 0
  <2>1. /\ Free \in Int /\ Free' \in Int
        /\ Free' = Free + Cardinality(Stored) - Cardinality(Stored')
                     + IdsFor(txn[s].op) - IdsFor(txn'[s].op)
    BY <1>2, <1>3, FreeMoves
  <2>2. IdsFor(txn[s].op) \in Nat /\ IdsFor(c.op) \in Nat
    BY DEF IdsFor
  <2> QED BY <1>2, <1>3, <2>1, <2>2
<1>5. AttendanceTypes'
  BY <1>1, <1>4 DEF AttendanceTypes, PunchRows
<1>6. \A u \in Tasks : txn'[u] = NoCall \/ TaskOK(txn'[u], punch', edits', now')
  BY <1>2 DEF AttendanceInv
<1>7. (edits + Pending(EditOps) <= MaxEdits)'
  <2>1. /\ Count(txn, EditOps) \in Nat /\ Count(txn', EditOps) \in Nat
        /\ c.op \notin EditOps \/ txn[s].op \in EditOps =>
              Count(txn', EditOps) <= Count(txn, EditOps)
        /\ Count(txn', EditOps) <= Count(txn, EditOps) + 1
    <3>1. /\ Count(txn, EditOps) \in Nat /\ Count(txn', EditOps) \in Nat
          /\ Count(txn', EditOps) = Count(txn, EditOps)
               - (IF txn[s].op \in EditOps THEN 1 ELSE 0)
               + (IF txn'[s].op \in EditOps THEN 1 ELSE 0)
      BY <1>2, EditsMove
    <3> QED BY <1>2, <3>1
  <2>2. edits + Count(txn, EditOps) <= MaxEdits
    BY PendingIsCount DEF AttendanceInv, InOrder
  <2>3. MayEdit => edits + Count(txn, EditOps) < MaxEdits
    BY PendingIsCount DEF MayEdit, EditOps
  <2>4. edits \in Nat /\ MaxEdits \in Nat
    BY <1>1, AttendanceAssumption DEF AttendanceTypes, AttendanceAssumption
  <2>5. edits + Count(txn', EditOps) <= MaxEdits
    BY <2>1, <2>2, <2>3, <2>4
  <2> QED BY <2>5, PendingIsCount
<1>8. InOrder'
  BY <1>7, SameHistory DEF InOrder
<1> QED BY <1>2, <1>5, <1>6, <1>8, SameHistory DEF AttendanceInv

\* Time passing keeps the invariant.
LEMMA TickInv ==
    ASSUME AttendanceInv, Tick
    PROVE  AttendanceInv'
<1>1. /\ AttendanceTypes /\ DOMAIN txn = Tasks
      /\ UNCHANGED <<punch, shift, txn, crossed, stale, edits>>
      /\ now < MaxTime /\ now' = now + 1
  BY DEF AttendanceInv, Tick
<1>2. now \in Nat /\ now' \in Nat /\ now <= now' /\ now' \in 0 .. MaxTime
  BY <1>1, AttendanceAssumption DEF AttendanceTypes, AttendanceAssumption
<1>3. AttendanceTypes'
  <2>1. punch \in [Punches -> PunchRows']
    <3>1. PunchRows \subseteq PunchRows'
      BY <1>2 DEF PunchRows
    <3> QED BY <1>1, <3>1 DEF AttendanceTypes
  <2>2. Free' = Free
    BY <1>1 DEF Free, Pending, Stored
  <2> QED BY <1>1, <1>2, <2>1, <2>2 DEF AttendanceTypes
<1>4. \A u \in Tasks : txn'[u] = NoCall \/ TaskOK(txn'[u], punch', edits', now')
  BY <1>1, <1>2, TaskKept DEF AttendanceInv
<1>5. InOrder'
  BY <1>1, SameHistory DEF InOrder, AttendanceInv, Pending
<1> QED BY <1>1, <1>3, <1>4, <1>5, SameHistory DEF AttendanceInv

-----------------------------------------------------------------------------
(***************************************************************************)
(* Requests and passes begin                                               *)
(***************************************************************************)

\* Whoever is on the clock has a clock-in as last punch.
LEMMA OnClockOK ==
    ASSUME AttendanceInv, OnClock
    PROVE  /\ Latest \in Punches /\ punch[Latest] # NoRow
           /\ punch[Latest].way = "in" /\ punch[Latest].at \in 0 .. now
<1>1. AttendanceTypes /\ Latest # 0 /\ punch[Latest].way = "in"
  BY DEF AttendanceInv, OnClock
<1>2. Latest \in Stored
  BY <1>1, LatestOK, PunchTypes
<1> QED BY <1>1, <1>2, PunchTypes DEF Stored

\* A session ends after it began, and not in the future.
LEMMA CutoffsOK ==
    ASSUME AttendanceTypes, NEW at \in 0 .. now, NEW t \in Cutoffs(at)
    PROVE  t \in 0 .. now /\ at <= t
<1>1. /\ now \in Nat /\ at \in Nat
      /\ Day \in Nat /\ Day > 0 /\ CloseAt \in Nat /\ MaxSession \in Nat
  BY AttendanceAssumption DEF AttendanceAssumption, AttendanceTypes
<1>2. CASE now - at >= MaxSession
  BY <1>1, <1>2 DEF Cutoffs
<1>3. CASE ~(now - at >= MaxSession)
  <2>1. t = ClosingTime(at) /\ now >= t
    BY <1>3 DEF Cutoffs
  <2>2. at < (at \div Day) * Day + Day /\ at \div Day \in Nat
    BY <1>1
  <2> DEFINE b == (at \div Day) * Day
  <2>3. b \in Nat
    BY <1>1, <2>2
  <2>4. t = IF b + CloseAt <= at THEN b + CloseAt + Day ELSE b + CloseAt
    BY <2>1 DEF ClosingTime
  <2>5. at < b + Day
    BY <2>2
  <2> HIDE DEF b
  <2> QED BY <1>1, <2>1, <2>3, <2>4, <2>5
<1> QED BY <1>2, <1>3

\* What is left of the bound on punches is an integer.
LEMMA FreeTyped ==
    ASSUME AttendanceInv
    PROVE  Free \in Int
<1>1. Cardinality(Stored) \in Nat /\ Count(txn, {"in"}) \in Nat /\ Count(txn, ReserveOps) \in Nat
  <2>1. Cardinality(Stored) \in Nat
    BY PunchTypes, FS_CardinalityType DEF AttendanceInv
  <2>2. Count(txn, {"in"}) \in Nat /\ Count(txn, ReserveOps) \in Nat
    <3>1. \A ops : IsFiniteSet({u \in Tasks : txn[u].op \in ops})
      BY AttendanceAssumption, FS_Subset DEF AttendanceAssumption
    <3> QED BY <3>1, FS_CardinalityType DEF Count
  <2> QED BY <2>1, <2>2
<1>2. MaxPunches \in Nat
  BY AttendanceAssumption DEF AttendanceAssumption
<1>3. Free = MaxPunches - Cardinality(Stored) - 2 * Count(txn, {"in"})
               - Count(txn, ReserveOps)
  BY FreeIs
<1> QED BY <1>1, <1>2, <1>3

\* A call that begins with what it must know, and ids and edits to spare.
LEMMA LoadInv ==
    ASSUME AttendanceInv, NEW s \in Tasks, NEW op, NEW step, NEW target, NEW at,
           Load(s, op, step, target, at), Free >= IdsFor(op),
           op \in EditOps => MayEdit,
           TaskOK([op |-> op, step |-> step, target |-> target, at |-> at,
                   last |-> IF op \in Inserts THEN Latest ELSE 0,
                   row |-> IF target = 0 THEN NoRow ELSE punch[target],
                   shift |-> IF op \in Reviews THEN NoRow ELSE shift], punch, edits, now)
    PROVE  AttendanceInv'
<1> DEFINE c == [op |-> op, step |-> step, target |-> target, at |-> at,
                 last |-> IF op \in Inserts THEN Latest ELSE 0,
                 row |-> IF target = 0 THEN NoRow ELSE punch[target],
                 shift |-> IF op \in Reviews THEN NoRow ELSE shift]
<1>1. /\ txn' = [txn EXCEPT ![s] = c] /\ txn[s] = NoCall
      /\ UNCHANGED <<punch, shift, now, crossed, stale, edits>>
  BY DEF Load
<1>2. c.op = op /\ TaskOK(c, punch, edits, now)
  OBVIOUS
<1> HIDE DEF c
<1>3. IdsFor(txn[s].op) = 0
  BY <1>1 DEF NoCall, IdsFor, ReserveOps
<1>4. Free + IdsFor(txn[s].op) >= IdsFor(c.op)
  <2>1. Free \in Int
    BY FreeTyped
  <2> QED BY <1>2, <1>3, <2>1
<1> QED BY <1>1, <1>2, <1>4, CallMoves

\* Clocking in begins: the task loads the latest punch and the shift.
LEMMA BeginInInv ==
    ASSUME AttendanceInv, NEW s \in Tasks, BeginIn(s)
    PROVE  AttendanceInv'
<1>1. /\ Free >= 2 /\ ~OnClock /\ Load(s, "in", "write", 0, now)
  BY DEF BeginIn
<1> DEFINE c == [op |-> "in", step |-> "write", target |-> 0, at |-> now,
                 last |-> IF "in" \in Inserts THEN Latest ELSE 0,
                 row |-> IF 0 = 0 THEN NoRow ELSE punch[0],
                 shift |-> IF "in" \in Reviews THEN NoRow ELSE shift]
<1>2. /\ c.op = "in" /\ c.step = "write" /\ c.target = 0 /\ c.at = now
      /\ c.last = Latest /\ c.shift = shift
      /\ c = [op |-> c.op, step |-> c.step, target |-> c.target, at |-> c.at,
              last |-> c.last, row |-> c.row, shift |-> c.shift]
  BY DEF Inserts, Reviews
<1>3. now \in Nat /\ shift \in Shifts
  BY AttendanceAssumption DEF AttendanceInv, AttendanceTypes, AttendanceAssumption
<1>4. Latest # 0 =>
         /\ Latest \in Punches /\ punch[Latest] # NoRow
         /\ punch[Latest].way = "out" /\ punch[Latest].at <= now
  <2>1. Latest # 0 => Latest \in Stored
    BY LatestOK, PunchTypes DEF AttendanceInv
  <2> QED BY <1>1, <1>3, <2>1, PunchTypes DEF AttendanceInv, Stored, OnClock
<1> HIDE DEF c
<1>5. TaskOK(c, punch, edits, now)
  BY <1>2, <1>3, <1>4 DEF TaskOK, ClosingOps, Reviews, ShiftOps, Inserts
<1> QED BY <1>1, <1>5, LoadInv DEF c, IdsFor, EditOps

\* punch_out, admin_clock_out and the closing pass: of the session found open.
LEMMA BeginClosingInv ==
    ASSUME AttendanceInv, NEW s \in Tasks, NEW op \in {"out", "force", "auto"},
           NEW step, step = "write" \/ (step = "recheck" /\ op = "auto"),
           NEW at \in 0 .. now, punch[Latest].at <= at,
           OnClock, Free >= 1, Load(s, op, step, Latest, at)
    PROVE  AttendanceInv'
<1> DEFINE c == [op |-> op, step |-> step, target |-> Latest, at |-> at,
                 last |-> IF op \in Inserts THEN Latest ELSE 0,
                 row |-> IF Latest = 0 THEN NoRow ELSE punch[Latest],
                 shift |-> IF op \in Reviews THEN NoRow ELSE shift]
<1>1. /\ c.op = op /\ c.step = step /\ c.target = Latest /\ c.at = at
      /\ c.last = Latest /\ c.shift = shift
      /\ c = [op |-> c.op, step |-> c.step, target |-> c.target, at |-> c.at,
              last |-> c.last, row |-> c.row, shift |-> c.shift]
  BY DEF Inserts, Reviews
<1>2. shift \in Shifts
  BY DEF AttendanceInv, AttendanceTypes
<1>3. /\ Latest \in Punches /\ punch[Latest] # NoRow /\ punch[Latest].way = "in"
  BY OnClockOK
<1> HIDE DEF c
<1>4. TaskOK(c, punch, edits, now)
  BY <1>1, <1>2, <1>3 DEF TaskOK, ClosingOps, Reviews, ShiftOps, Inserts
<1>5. IdsFor(op) = 1 /\ op \notin EditOps
  BY DEF IdsFor, EditOps, ReserveOps
<1> QED BY <1>4, <1>5, LoadInv DEF c

\* Clocking out, by the employee or by a manager, begins.
LEMMA BeginOutInv ==
    ASSUME AttendanceInv, NEW s \in Tasks, BeginOut(s) \/ BeginForce(s)
    PROVE  AttendanceInv'
<1>1. /\ now \in 0 .. now /\ punch[Latest].at <= now
      /\ OnClock /\ Free >= 2
  <2>1. now \in Nat
    BY DEF AttendanceInv, AttendanceTypes
  <2> QED BY <2>1, OnClockOK DEF BeginOut, BeginForce
<1>2. Free >= 1
  BY <1>1, FreeTyped
<1> QED BY <1>1, <1>2, BeginClosingInv DEF BeginOut, BeginForce

\* The automatic close of an open session begins, with the cutoff it will write.
LEMMA BeginAutoCloseInv ==
    ASSUME AttendanceInv, NEW s \in Tasks, BeginAutoClose(s)
    PROVE  AttendanceInv'
<1>1. OnClock /\ Free >= 1
  BY DEF BeginAutoClose
<1>2. PICK t \in Cutoffs(punch[Latest].at) : Load(s, "auto", "recheck", Latest, t)
  BY DEF BeginAutoClose
<1>3. t \in 0 .. now /\ punch[Latest].at <= t
  BY <1>1, OnClockOK, CutoffsOK DEF AttendanceInv
<1> QED BY <1>1, <1>2, <1>3, BeginClosingInv

\* A manager's answer to a missing clock-out begins.
LEMMA BeginResolveInv ==
    ASSUME AttendanceInv, NEW s \in Tasks, BeginResolve(s)
    PROVE  AttendanceInv'
<1>1. shift.status = "missing_out" /\ shift.cin # 0 /\ Free >= 2 /\ MayEdit
  BY DEF BeginResolve
<1>2. PICK t \in punch[shift.cin].at + 1 .. now : Load(s, "resolve", "write", shift.cin, t)
  BY DEF BeginResolve
<1> DEFINE c == [op |-> "resolve", step |-> "write", target |-> shift.cin, at |-> t,
                 last |-> IF "resolve" \in Inserts THEN Latest ELSE 0,
                 row |-> IF shift.cin = 0 THEN NoRow ELSE punch[shift.cin],
                 shift |-> IF "resolve" \in Reviews THEN NoRow ELSE shift]
<1>3. /\ c.op = "resolve" /\ c.step = "write" /\ c.target = shift.cin /\ c.at = t
      /\ c.shift = shift
      /\ c = [op |-> c.op, step |-> c.step, target |-> c.target, at |-> c.at,
              last |-> c.last, row |-> c.row, shift |-> c.shift]
  BY DEF Reviews
<1>4. /\ shift.cin \in Punches /\ punch[shift.cin] # NoRow /\ punch[shift.cin].way = "in"
      /\ punch[shift.cin].at \in Nat /\ shift \in Shifts
  BY <1>1, PunchTypes DEF AttendanceInv, AttendanceTypes, ShiftLinks, Stored
<1>5. t \in 0 .. now /\ punch[shift.cin].at <= t
  <2>1. now \in Nat
    BY DEF AttendanceInv, AttendanceTypes
  <2> QED BY <1>4, <2>1
<1> HIDE DEF c
<1>6. TaskOK(c, punch, edits, now)
  BY <1>1, <1>3, <1>4, <1>5 DEF TaskOK, ClosingOps, Reviews, ShiftOps, Inserts
<1>7. Free >= IdsFor("resolve")
  BY <1>1, FreeTyped DEF IdsFor, ReserveOps
<1> QED BY <1>1, <1>2, <1>6, <1>7, LoadInv DEF c

\* find_no_show_candidates, find_missing_out_candidates and mark_excused
LEMMA BeginShiftInv ==
    ASSUME AttendanceInv, NEW s \in Tasks,
           BeginNoShow(s) \/ BeginMissingOut(s) \/ BeginExcuse(s)
    PROVE  AttendanceInv'
<1>1. \E op \in ShiftOps :
         /\ Load(s, op, "write", 0, 0)
         /\ op = "no_show" => shift.cin = 0 /\ shift.status = "scheduled"
         /\ op = "missing_out" =>
               shift.cin # 0 /\ shift.status \notin {"missing_out", "excused"}
         /\ op = "excuse" => shift.status = "no_show"
  BY DEF BeginNoShow, BeginMissingOut, BeginExcuse, ShiftOps
<1>2. PICK op \in ShiftOps :
         /\ Load(s, op, "write", 0, 0)
         /\ op = "no_show" => shift.cin = 0 /\ shift.status = "scheduled"
         /\ op = "missing_out" =>
               shift.cin # 0 /\ shift.status \notin {"missing_out", "excused"}
         /\ op = "excuse" => shift.status = "no_show"
  BY <1>1
<1> DEFINE c == [op |-> op, step |-> "write", target |-> 0, at |-> 0,
                 last |-> IF op \in Inserts THEN Latest ELSE 0,
                 row |-> IF 0 = 0 THEN NoRow ELSE punch[0],
                 shift |-> IF op \in Reviews THEN NoRow ELSE shift]
<1>3. /\ c.op = op /\ c.step = "write" /\ c.target = 0 /\ c.at = 0
      /\ c.shift = shift
      /\ c = [op |-> c.op, step |-> c.step, target |-> c.target, at |-> c.at,
              last |-> c.last, row |-> c.row, shift |-> c.shift]
  BY DEF ShiftOps, Reviews
<1>4. shift \in Shifts /\ 0 \in 0 .. now
  BY AttendanceAssumption DEF AttendanceInv, AttendanceTypes
<1> HIDE DEF c
<1>5. TaskOK(c, punch, edits, now)
  BY <1>2, <1>3, <1>4 DEF TaskOK, ClosingOps, Reviews, ShiftOps, Inserts
<1>6. IdsFor(op) = 0 /\ op \notin EditOps
  BY DEF IdsFor, EditOps, ReserveOps, ShiftOps
<1>7. Free >= IdsFor(op)
  BY <1>6 DEF AttendanceInv, AttendanceTypes
<1> QED BY <1>2, <1>5, <1>6, <1>7, LoadInv DEF c

\* manual_adjust, void_punch and confirm_hours
LEMMA BeginReviewInv ==
    ASSUME AttendanceInv, NEW s \in Tasks, NEW p \in Punches,
           BeginAdjust(s, p) \/ BeginVoid(s, p) \/ BeginConfirm(s, p)
    PROVE  AttendanceInv'
<1>1. \E op \in Reviews, at \in 0 .. now :
         /\ p \in Stored /\ Load(s, op, "write", p, at)
         /\ op \in EditOps => Free >= 2 /\ MayEdit
  <2>1. 0 \in 0 .. now /\ \A t \in 0 .. LastTap : t <= now => t \in 0 .. now
    BY AttendanceAssumption DEF AttendanceAssumption, AttendanceInv, AttendanceTypes
  <2>2. Live \subseteq Stored
    BY DEF Live
  <2>3. CASE BeginAdjust(s, p)
    BY <2>1, <2>2, <2>3 DEF BeginAdjust, Reviews
  <2>4. CASE BeginVoid(s, p)
    BY <2>1, <2>2, <2>4 DEF BeginVoid, Reviews
  <2>5. CASE BeginConfirm(s, p)
    BY <2>1, <2>5 DEF BeginConfirm, Reviews, EditOps
  <2> QED BY <2>3, <2>4, <2>5
<1>2. PICK op \in Reviews : \E at \in 0 .. now :
         /\ p \in Stored /\ Load(s, op, "write", p, at)
         /\ op \in EditOps => Free >= 2 /\ MayEdit
  BY <1>1
<1>3. PICK at \in 0 .. now :
         /\ p \in Stored /\ Load(s, op, "write", p, at)
         /\ op \in EditOps => Free >= 2 /\ MayEdit
  BY <1>2
<1> DEFINE c == [op |-> op, step |-> "write", target |-> p, at |-> at,
                 last |-> IF op \in Inserts THEN Latest ELSE 0,
                 row |-> IF p = 0 THEN NoRow ELSE punch[p],
                 shift |-> IF op \in Reviews THEN NoRow ELSE shift]
<1>4. /\ c.op = op /\ c.step = "write" /\ c.target = p /\ c.at = at
      /\ c = [op |-> c.op, step |-> c.step, target |-> c.target, at |-> c.at,
              last |-> c.last, row |-> c.row, shift |-> c.shift]
  BY DEF Reviews
<1>5. punch[p] # NoRow
  BY <1>3 DEF Stored
<1> HIDE DEF c
<1>6. TaskOK(c, punch, edits, now)
  BY <1>3, <1>4, <1>5 DEF TaskOK, ClosingOps, Reviews, ShiftOps, Inserts
<1>7. Free >= IdsFor(op)
  <2>1. CASE op \in EditOps
    BY <1>3, <2>1, FreeTyped DEF IdsFor
  <2>2. CASE op \notin EditOps
    <3>1. IdsFor(op) = 0
      BY <2>2 DEF IdsFor, EditOps, ReserveOps, Reviews
    <3> QED BY <3>1 DEF AttendanceInv, AttendanceTypes
  <2> QED BY <2>1, <2>2
<1> QED BY <1>3, <1>6, <1>7, LoadInv DEF c

\* The closing pass looks again.
LEMMA RecheckInv ==
    ASSUME AttendanceInv, NEW s \in Tasks, Recheck(s)
    PROVE  AttendanceInv'
<1>1. /\ txn[s].op = "auto" /\ txn[s].step = "recheck"
      /\ UNCHANGED <<punch, shift, now, crossed, stale, edits>>
  BY DEF Recheck
<1>2. TaskOK(txn[s], punch, edits, now)
  BY <1>1 DEF AttendanceInv, NoCall
<1>3. PICK c : /\ txn' = [txn EXCEPT ![s] = c]
               /\ c = NoCall \/ c = [txn[s] EXCEPT !.step = "write"]
  BY DEF Recheck
<1>4. c = NoCall \/ (TaskOK(c, punch, edits, now) /\ c.op = "auto")
  <2> SUFFICES ASSUME c # NoCall PROVE TaskOK(c, punch, edits, now) /\ c.op = "auto"
    OBVIOUS
  <2> DEFINE b == txn[s]
  <2>1. /\ b = [op |-> b.op, step |-> b.step, target |-> b.target, at |-> b.at,
                last |-> b.last, row |-> b.row, shift |-> b.shift]
        /\ c = [b EXCEPT !.step = "write"] /\ b.op = "auto" /\ TaskOK(b, punch, edits, now)
    BY <1>1, <1>2, <1>3 DEF TaskOK
  <2> HIDE DEF b
  <2>2. /\ c = [op |-> c.op, step |-> c.step, target |-> c.target, at |-> c.at,
                last |-> c.last, row |-> c.row, shift |-> c.shift]
        /\ c.op = "auto" /\ c.step = "write" /\ c.target = b.target /\ c.at = b.at
        /\ c.last = b.last /\ c.shift = b.shift
    BY <2>1
  <2> QED BY <2>1, <2>2 DEF TaskOK
<1>5. IdsFor(txn[s].op) >= IdsFor(c.op) /\ IdsFor(txn[s].op) \in Nat /\ IdsFor(c.op) \in Nat
  BY <1>1, <1>4 DEF IdsFor, NoCall, ReserveOps
<1>6. Free + IdsFor(txn[s].op) >= IdsFor(c.op)
  BY <1>5, FreeTyped DEF AttendanceInv, AttendanceTypes
<1>7. c.op \notin EditOps
  BY <1>4 DEF NoCall, EditOps
<1> QED BY <1>1, <1>3, <1>4, <1>6, <1>7, CallMoves

-----------------------------------------------------------------------------
(***************************************************************************)
(* A call writes its rows                                                  *)
(***************************************************************************)

\* The call and the id a new punch gets.
Writes(s, c, n) == Flush(s) /\ c = txn[s] /\ n = NewId

\* What a flush writes is what its task had loaded, with its own changes.
LEMMA FlushKnows ==
    ASSUME AttendanceInv, NEW s \in Tasks, NEW c, NEW n, Writes(s, c, n)
    PROVE  /\ TaskOK(c, punch, edits, now) /\ c.step = "write"
           /\ punch' = Written(c) /\ shift' = Stamped(c) /\ now' = now
           /\ crossed' = (crossed \/ Crossed(c)) /\ stale' = (stale \/ Stale(c))
           /\ edits' = edits + IF Edits(c) THEN 1 ELSE 0
           /\ txn' = [txn EXCEPT ![s] = NoCall]
           /\ c.op \in Inserts => /\ n \in Punches \ Stored /\ n = NewId
                                  /\ \A p \in Stored : p < n
                                  /\ \A q \in Punches : q < n => q \in Stored
<1>1. c = txn[s] /\ n = NewId /\ Flush(s)
  BY DEF Writes
<1>2. c.step = "write"
  BY <1>1 DEF Flush
<1>3. TaskOK(c, punch, edits, now)
  BY <1>1, <1>2 DEF AttendanceInv, NoCall
<1>4. c.op \in Inserts => /\ n \in Punches \ Stored
                          /\ \A p \in Stored : p < n
                          /\ \A q \in Punches : q < n => q \in Stored
  BY <1>1, NewIdOK
<1> QED BY <1>1, <1>2, <1>3, <1>4 DEF Flush

\* A call that adds a punch adds one at its time.
LEMMA NewAt ==
    ASSUME AttendanceInv, NEW s \in Tasks, NEW c, NEW n, Writes(s, c, n), c.op \in Inserts
    PROVE  punch'[n].at = c.at
<1>1. /\ TaskOK(c, punch, edits, now) /\ punch' = Written(c)
      /\ n \in Punches \ Stored /\ n = NewId
  BY FlushKnows
<1>2. punch \in [Punches -> PunchRows]
  BY DEF AttendanceInv, AttendanceTypes
<1>3. CASE c.op \in {"force", "auto"}
  <2>1. c.target # n
    BY <1>1, <1>3 DEF TaskOK, ClosingOps, Stored
  <2> DEFINE r == Reviewed(c)
  <2>2. punch' = [punch EXCEPT ![n] = PunchRow("out", c.at, "review"), ![c.target] = r]
    BY <1>1, <1>3 DEF Written
  <2> HIDE DEF r
  <2>3. punch'[n] = PunchRow("out", c.at, "review")
    BY <1>1, <1>2, <2>1, <2>2
  <2> QED BY <2>3 DEF PunchRow
<1>4. CASE c.op \in {"in", "out", "resolve"}
  <2>1. \E way, hours : punch'[n] = PunchRow(way, c.at, hours)
    BY <1>1, <1>2, <1>4 DEF Written
  <2> QED BY <2>1 DEF PunchRow
<1> QED BY <1>3, <1>4 DEF Inserts

\* Such a call touches no other punch but to have its hours reviewed.
LEMMA Inserted ==
    ASSUME AttendanceInv, NEW s \in Tasks, NEW c, NEW n, Writes(s, c, n), c.op \in Inserts
    PROVE  /\ punch' \in [Punches -> PunchRows]
           /\ punch'[n].way = (IF c.op = "in" THEN "in" ELSE "out")
           /\ punch'[n].live = TRUE /\ punch'[n] # NoRow
           /\ \A p \in Punches \ {n} :
                 (punch'[p] = NoRow) <=> (punch[p] = NoRow)
           /\ \A p \in Stored :
                 /\ punch'[p].way = punch[p].way /\ punch'[p].at = punch[p].at
                 /\ punch'[p].live = punch[p].live
<1>1. /\ TaskOK(c, punch, edits, now) /\ punch' = Written(c)
      /\ n \in Punches \ Stored /\ n = NewId
  BY FlushKnows
<1>2. punch \in [Punches -> PunchRows] /\ c.at \in 0 .. now
  BY <1>1 DEF AttendanceInv, AttendanceTypes, TaskOK
<1>3. CASE c.op \in {"force", "auto"}
  <2>1. c.target \in Stored /\ c.target \in Punches /\ c.target # n
    BY <1>1, <1>3 DEF TaskOK, ClosingOps, Stored
  <2> DEFINE old == punch[c.target]
             r == Reviewed(c)
             new == PunchRow("out", c.at, "review")
  <2>2. old \in [way : {"in", "out"}, at : 0 .. now, live : BOOLEAN,
                 hours : {"none", "review", "settled"}]
    BY <1>2, <2>1 DEF PunchRows, Stored
  <2>3. r = [old EXCEPT !.hours = IF c.row.hours = "none" THEN "review" ELSE @]
    BY DEF Reviewed
  <2> HIDE DEF old
  <2>4. r \in PunchRows /\ r # NoRow /\ r.way = old.way /\ r.at = old.at /\ r.live = old.live
    <3> DEFINE h == IF c.row.hours = "none" THEN "review" ELSE old.hours
    <3>1. h \in {"none", "review", "settled"}
      BY <2>2
    <3>2. r = [old EXCEPT !.hours = h]
      BY <2>3
    <3> HIDE DEF h, r
    <3>3. r = [way |-> old.way, at |-> old.at, live |-> old.live, hours |-> h]
      BY <2>2, <3>2
    <3> QED BY <2>2, <3>1, <3>3 DEF PunchRows, NoRow
  <2>5. new \in PunchRows /\ new # NoRow /\ new.way = "out" /\ new.at = c.at /\ new.live = TRUE
    BY <1>2 DEF PunchRows, PunchRow, NoRow
  <2>6. punch' = [punch EXCEPT ![n] = new, ![c.target] = r]
    BY <1>1, <1>3 DEF Written
  <2> HIDE DEF new, r
  <2>7. punch'[n] = new /\ punch'[c.target] = r
        /\ \A p \in Punches \ {n, c.target} : punch'[p] = punch[p]
    BY <1>1, <1>2, <2>1, <2>6
  <2>8. old # NoRow
    BY <2>1 DEF old, Stored
  <2>9. punch' \in [Punches -> PunchRows]
    BY <1>1, <1>2, <2>1, <2>4, <2>5, <2>6
  <2>10. punch'[n].way = (IF c.op = "in" THEN "in" ELSE "out")
    BY <1>3, <2>5, <2>7
  <2>11. \A p \in Punches \ {n} : (punch'[p] = NoRow) <=> (punch[p] = NoRow)
    BY <2>4, <2>7, <2>8 DEF old
  <2>12. \A p \in Stored : /\ punch'[p].way = punch[p].way /\ punch'[p].at = punch[p].at
                           /\ punch'[p].live = punch[p].live
    <3>1. \A p \in Stored : p \in Punches \ {n}
      BY <1>1 DEF Stored
    <3> QED BY <2>4, <2>7, <3>1 DEF old
  <2> QED BY <2>5, <2>7, <2>9, <2>10, <2>11, <2>12
<1>4. CASE c.op \in {"in", "out", "resolve"}
  <2> DEFINE w == IF c.op = "in" THEN "in" ELSE "out"
             h == IF c.op = "resolve" THEN "settled" ELSE "none"
             new == PunchRow(w, c.at, h)
  <2>1. punch' = [punch EXCEPT ![n] = new]
    BY <1>1, <1>4 DEF Written
  <2>2. new \in PunchRows /\ new # NoRow /\ new.way = w /\ new.at = c.at /\ new.live = TRUE
    BY <1>2 DEF PunchRows, PunchRow, NoRow
  <2> HIDE DEF new
  <2>3. \A p \in Stored : p \in Punches \ {n}
    BY <1>1 DEF Stored
  <2> QED BY <1>1, <1>2, <2>1, <2>2, <2>3
<1> QED BY <1>3, <1>4 DEF Inserts

\* Any other call touches at most its target, and moves or voids it only as an
\* edit.
LEMMA Touched ==
    ASSUME AttendanceInv, NEW s \in Tasks, NEW c, NEW n, Writes(s, c, n), c.op \notin Inserts
    PROVE  /\ punch' \in [Punches -> PunchRows]
           /\ \A p \in Punches : /\ (punch'[p] = NoRow) <=> (punch[p] = NoRow)
                                 /\ punch[p] # NoRow => punch'[p].way = punch[p].way
           /\ c.op \notin {"adjust", "void"} =>
                 \A p \in Stored : /\ punch'[p].at = punch[p].at
                                   /\ punch'[p].live = punch[p].live
<1>1. TaskOK(c, punch, edits, now) /\ punch' = Written(c)
  BY FlushKnows
<1>2. punch \in [Punches -> PunchRows] /\ c.at \in 0 .. now
  BY <1>1 DEF AttendanceInv, AttendanceTypes, TaskOK
<1>3. CASE c.op \in Reviews
  <2>1. c.target \in Punches /\ punch[c.target] # NoRow
    BY <1>1, <1>3 DEF TaskOK
  <2> DEFINE old == punch[c.target]
             new == CASE c.op = "adjust" -> PunchRow(old.way, c.at, "settled")
                      [] c.op = "void" -> [old EXCEPT !.live = FALSE]
                      [] c.op = "confirm" -> [old EXCEPT !.hours = "settled"]
  <2>2. old \in [way : {"in", "out"}, at : 0 .. now, live : BOOLEAN,
                 hours : {"none", "review", "settled"}]
    BY <1>2, <2>1 DEF PunchRows
  <2>3. punch' = [punch EXCEPT ![c.target] = new]
    <3>1. CASE c.op = "adjust"
      BY <1>1, <3>1 DEF Written
    <3>2. CASE c.op = "void"
      BY <1>1, <3>2 DEF Written
    <3>3. CASE c.op = "confirm"
      BY <1>1, <3>3 DEF Written
    <3> QED BY <1>3, <3>1, <3>2, <3>3 DEF Reviews
  <2> HIDE DEF old
  <2>4. /\ new \in PunchRows /\ new # NoRow /\ new.way = old.way
        /\ c.op = "confirm" => new.at = old.at /\ new.live = old.live
    <3>1. CASE c.op = "adjust"
      BY <1>2, <2>2, <3>1 DEF PunchRows, PunchRow, NoRow
    <3>2. CASE c.op = "void"
      <4>1. new = [way |-> old.way, at |-> old.at, live |-> FALSE, hours |-> old.hours]
        BY <2>2, <3>2
      <4> HIDE DEF new
      <4> QED BY <2>2, <3>2, <4>1 DEF PunchRows, NoRow
    <3>3. CASE c.op = "confirm"
      <4>1. new = [way |-> old.way, at |-> old.at, live |-> old.live, hours |-> "settled"]
        BY <2>2, <3>3
      <4> HIDE DEF new
      <4> QED BY <2>2, <4>1 DEF PunchRows, NoRow
    <3> QED BY <1>3, <3>1, <3>2, <3>3 DEF Reviews
  <2> HIDE DEF new
  <2>5. punch'[c.target] = new /\ \A p \in Punches \ {c.target} : punch'[p] = punch[p]
    BY <1>2, <2>1, <2>3
  <2>6. punch' \in [Punches -> PunchRows]
    BY <1>2, <2>3, <2>4
  <2>7. c.op \notin {"adjust", "void"} => c.op = "confirm"
    BY <1>3 DEF Reviews
  <2>8. \A p \in Stored : p \in Punches
    BY DEF Stored
  <2> QED BY <2>1, <2>4, <2>5, <2>6, <2>7, <2>8 DEF old
<1>4. CASE c.op \notin Reviews
  <2>1. punch' = punch
    BY <1>1, <1>4 DEF Written, Reviews, Inserts
  <2> QED BY <1>2, <2>1
<1> QED BY <1>3, <1>4

\* Which rows are there and live afterwards.
LEMMA RowsAfter ==
    ASSUME AttendanceInv, NEW s \in Tasks, NEW c, NEW n, Writes(s, c, n)
    PROVE  /\ c.op \in Inserts => Stored' = Stored \cup {n} /\ Live' = Live \cup {n}
           /\ c.op \notin Inserts => Stored' = Stored
           /\ c.op \notin Inserts \cup {"adjust", "void"} => Live' = Live
<1>1. CASE c.op \in Inserts
  <2>1. n \in Punches \ Stored
    BY <1>1, FlushKnows
  <2>2. /\ punch'[n].live = TRUE /\ punch'[n] # NoRow
        /\ \A p \in Punches \ {n} : (punch'[p] = NoRow) <=> (punch[p] = NoRow)
        /\ \A p \in Stored : punch'[p].live = punch[p].live
    BY <1>1, Inserted
  <2>3. Stored' = Stored \cup {n}
    BY <2>1, <2>2 DEF Stored
  <2>4. Live' = Live \cup {n}
    BY <2>1, <2>2, <2>3 DEF Live
  <2> QED BY <1>1, <2>3, <2>4
<1>2. CASE c.op \notin Inserts
  <2>1. \A p \in Punches : (punch'[p] = NoRow) <=> (punch[p] = NoRow)
    BY <1>2, Touched
  <2>2. Stored' = Stored
    BY <2>1 DEF Stored
  <2>3. c.op \notin {"adjust", "void"} => Live' = Live
    <3>1. c.op \notin {"adjust", "void"} => \A p \in Stored : punch'[p].live = punch[p].live
      BY <1>2, Touched
    <3> QED BY <2>2, <3>1 DEF Live
  <2> QED BY <1>2, <2>2, <2>3
<1> QED BY <1>1, <1>2

\* Until the timeline is rewritten no call moves or voids a punch.
LEMMA EditsAfter ==
    ASSUME AttendanceInv, NEW s \in Tasks, NEW c, NEW n, Writes(s, c, n)
    PROVE  /\ edits \in Nat /\ edits' \in Nat
           /\ edits' = 0 => edits = 0 /\ c.op \notin {"adjust", "void"}
                            /\ (c.op = "resolve" => Latest = c.target)
<1>1. edits \in Nat /\ edits' = edits + IF Edits(c) THEN 1 ELSE 0
  BY FlushKnows DEF AttendanceInv, AttendanceTypes
<1> QED BY <1>1 DEF Edits

\* A flush keeps the typing and the bounds on punches and edits.
LEMMA FlushTypes ==
    ASSUME AttendanceInv, NEW s \in Tasks, NEW c, NEW n, Writes(s, c, n)
    PROVE  /\ Free' >= 0 /\ (edits + Pending(EditOps) <= MaxEdits)' /\ edits' \in 0 .. MaxEdits
           /\ punch' \in [Punches -> PunchRows'] /\ {crossed, stale}' \subseteq BOOLEAN
           /\ now' \in 0 .. MaxTime
<1>1. /\ AttendanceTypes /\ c = txn[s] /\ DOMAIN txn = Tasks
      /\ edits + Count(txn, EditOps) <= MaxEdits
  BY PendingIsCount DEF AttendanceInv, InOrder, Writes
<1>2. /\ txn' = [txn EXCEPT ![s] = NoCall] /\ now' = now
      /\ crossed' = (crossed \/ Crossed(c)) /\ stale' = (stale \/ Stale(c))
  BY FlushKnows
<1>3. txn'[s] = NoCall /\ \A u \in Tasks \ {s} : txn'[u] = txn[u]
  BY <1>1, <1>2
<1>4. IsFiniteSet(Stored) /\ Cardinality(Stored) \in Nat
  BY <1>1, PunchTypes, FS_CardinalityType
<1>5. /\ Cardinality(Stored') \in Nat
      /\ Cardinality(Stored') <= Cardinality(Stored) + IdsFor(c.op)
  <2>1. CASE c.op \in Inserts
    <3>1. Stored' = Stored \cup {n} /\ n \notin Stored
      BY <2>1, RowsAfter, FlushKnows
    <3>2. Cardinality(Stored \cup {n}) = Cardinality(Stored) + 1
      BY <1>4, <3>1, FS_AddElement
    <3>3. IdsFor(c.op) \in Nat /\ IdsFor(c.op) >= 1
      BY <2>1 DEF IdsFor, Inserts, ReserveOps
    <3> QED BY <1>4, <3>1, <3>2, <3>3
  <2>2. CASE c.op \notin Inserts
    <3>1. Stored' = Stored /\ IdsFor(c.op) \in Nat
      BY <2>2, RowsAfter DEF IdsFor
    <3> QED BY <1>4, <3>1
  <2> QED BY <2>1, <2>2
<1>6. Free' >= 0
  <2>1. /\ Free \in Int /\ Free' \in Int
        /\ Free' = Free + Cardinality(Stored) - Cardinality(Stored')
                     + IdsFor(txn[s].op) - IdsFor(txn'[s].op)
    BY <1>3, <1>4, <1>5, FreeMoves
  <2>2. IdsFor(txn'[s].op) = 0 /\ IdsFor(c.op) \in Nat
    BY <1>3 DEF IdsFor, NoCall, ReserveOps
  <2>3. Free >= 0
    BY <1>1 DEF AttendanceTypes
  <2> QED BY <1>1, <1>4, <1>5, <2>1, <2>2, <2>3
<1>7. edits' + Count(txn', EditOps) <= MaxEdits /\ Count(txn', EditOps) \in Nat
  <2>1. /\ Count(txn, EditOps) \in Nat /\ Count(txn', EditOps) \in Nat
        /\ Count(txn', EditOps) = Count(txn, EditOps)
             - (IF txn[s].op \in EditOps THEN 1 ELSE 0)
             + (IF txn'[s].op \in EditOps THEN 1 ELSE 0)
    BY <1>3, EditsMove
  <2>2. txn'[s].op \notin EditOps
    BY <1>3 DEF NoCall, EditOps
  <2>3. edits' = edits + IF Edits(c) THEN 1 ELSE 0
    BY FlushKnows
  <2>4. Edits(c) => c.op \in EditOps
    BY DEF Edits, EditOps
  <2>5. edits \in Nat /\ MaxEdits \in Nat
    BY EditsAfter, AttendanceAssumption DEF AttendanceAssumption
  <2> QED BY <1>1, <2>1, <2>2, <2>3, <2>4, <2>5
<1>8. edits' \in 0 .. MaxEdits
  <2>1. edits' \in Nat /\ MaxEdits \in Nat
    BY EditsAfter, AttendanceAssumption DEF AttendanceAssumption
  <2> QED BY <1>7, <2>1
<1>9. punch' \in [Punches -> PunchRows']
  <2>1. PunchRows' = PunchRows
    BY <1>2 DEF PunchRows
  <2> QED BY <2>1, Inserted, Touched
<1> QED BY <1>1, <1>2, <1>6, <1>7, <1>8, <1>9, PendingIsCount DEF AttendanceTypes, Crossed, Stale

\* The other calls still know what they knew, and ids stay in order.
LEMMA FlushCalls ==
    ASSUME AttendanceInv, NEW s \in Tasks, NEW c, NEW n, Writes(s, c, n)
    PROVE  /\ DOMAIN txn' = Tasks
           /\ \A u \in Tasks : txn'[u] = NoCall \/ TaskOK(txn'[u], punch', edits', now')
           /\ (\A p \in Stored, q \in Punches : q < p => q \in Stored)'
           /\ (edits = 0 => Live = Stored)'
<1>1. /\ DOMAIN txn = Tasks /\ txn' = [txn EXCEPT ![s] = NoCall]
      /\ now' = now /\ now \in Nat
  BY FlushKnows DEF AttendanceInv, AttendanceTypes
<1>2. \A p \in Punches : punch[p] # NoRow =>
         /\ punch'[p] # NoRow /\ punch'[p].way = punch[p].way
         /\ edits' = 0 => punch'[p].at = punch[p].at /\ punch'[p].live = punch[p].live
  <2> SUFFICES ASSUME NEW p \in Punches, punch[p] # NoRow
               PROVE  /\ punch'[p] # NoRow /\ punch'[p].way = punch[p].way
                      /\ edits' = 0 => punch'[p].at = punch[p].at /\ punch'[p].live = punch[p].live
    OBVIOUS
  <2>1. p \in Stored
    BY DEF Stored
  <2>2. CASE c.op \in Inserts
    <3>1. p # n
      BY <2>1, <2>2, FlushKnows
    <3> QED BY <2>1, <2>2, <3>1, Inserted
  <2>3. CASE c.op \notin Inserts
    BY <2>1, <2>3, Touched, EditsAfter
  <2> QED BY <2>2, <2>3
<1>3. \A u \in Tasks : txn'[u] = NoCall \/ TaskOK(txn'[u], punch', edits', now')
  <2> SUFFICES ASSUME NEW u \in Tasks, txn'[u] # NoCall
               PROVE  TaskOK(txn'[u], punch', edits', now')
    OBVIOUS
  <2>1. txn'[u] = txn[u] /\ TaskOK(txn[u], punch, edits, now)
    BY <1>1 DEF AttendanceInv
  <2>2. edits' = 0 => edits = 0
    BY EditsAfter
  <2>3. TaskOK(txn[u], punch', edits', now')
    BY <1>1, <1>2, <2>1, <2>2, TaskKept
  <2> QED BY <2>1, <2>3
<1>4. (\A p \in Stored, q \in Punches : q < p => q \in Stored)'
  <2>1. \A p \in Stored, q \in Punches : q < p => q \in Stored
    BY DEF AttendanceInv, InOrder
  <2>2. CASE c.op \in Inserts
    BY <2>1, <2>2, RowsAfter, FlushKnows DEF Punches
  <2>3. CASE c.op \notin Inserts
    BY <2>1, <2>3, RowsAfter DEF Punches
  <2> QED BY <2>2, <2>3
<1>5. (edits = 0 => Live = Stored)'
  <2> SUFFICES ASSUME edits' = 0 PROVE Live' = Stored'
    OBVIOUS
  <2>1. Live = Stored /\ c.op \notin {"adjust", "void"}
    BY EditsAfter DEF AttendanceInv
  <2> QED BY <2>1, RowsAfter
<1> QED BY <1>1, <1>3, <1>4, <1>5

\* The shift a call leaves.
LEMMA FlushShift ==
    ASSUME AttendanceInv, NEW s \in Tasks, NEW c, NEW n, Writes(s, c, n)
    PROVE  /\ shift' \in Shifts
           /\ \/ shift'.cin = shift.cin
              \/ c.op = "in" /\ shift'.cin = n /\ c.shift.cin = 0
           /\ \/ shift'.cout = shift.cout
              \/ c.op \in ClosingOps /\ shift'.cout = n /\ c.shift.cin = c.target
           /\ ~stale' /\ shift'.cin = 0 => shift'.cout = 0
           /\ StatusMatchesPunches'
<1>1. /\ TaskOK(c, punch, edits, now) /\ shift' = Stamped(c) /\ n = NewId
      /\ stale' = (stale \/ Stale(c)) /\ shift \in Shifts
      /\ c.op \in Inserts => n \in Punches /\ n # 0
      /\ StatusMatchesPunches
      /\ ~stale /\ shift.cin = 0 => shift.cout = 0
  BY FlushKnows, PunchTypes DEF AttendanceInv, AttendanceTypes, Writes, ShiftLinks
<1>2. ~stale' => ~stale /\ (c.op \notin Reviews => shift = c.shift)
  BY <1>1 DEF Stale
<1> DEFINE sh == shift
<1>3. /\ sh = [status |-> sh.status, cin |-> sh.cin, cout |-> sh.cout]
      /\ sh.status \in {"scheduled", "present", "late", "no_show", "missing_out", "excused"}
      /\ sh.cin \in {0} \cup Punches /\ sh.cout \in {0} \cup Punches
  BY <1>1 DEF Shifts
<1>4. \A st, i, o :
         /\ st \in {"scheduled", "present", "late", "no_show", "missing_out", "excused"}
         /\ i \in {0} \cup Punches /\ o \in {0} \cup Punches
         => [status |-> st, cin |-> i, cout |-> o] \in Shifts
  BY DEF Shifts
<1>5. CASE c.op = "in"
  <2>1. CASE c.at < Day /\ c.shift.cin = 0
    <3> DEFINE st == IF c.shift.status \in {"scheduled", "no_show", "missing_out"}
                     THEN Punctual(c.at) ELSE sh.status
    <3>1. shift' = [sh EXCEPT !.cin = n, !.status = st]
      BY <1>1, <1>5, <2>1 DEF Stamped, StampIn
    <3>2. st \in {"scheduled", "present", "late", "no_show", "missing_out", "excused"}
      BY <1>3 DEF Punctual
    <3>3. c.shift = sh => st \notin {"scheduled", "no_show"}
      BY DEF Punctual
    <3> HIDE DEF st, sh
    <3>4. shift' = [status |-> st, cin |-> n, cout |-> sh.cout]
      BY <1>3, <3>1
    <3>5. n \in Punches /\ n # 0
      BY <1>1, <1>5 DEF Inserts
    <3>6. shift' \in Shifts /\ shift'.cin = n /\ shift'.cout = sh.cout /\ shift'.status = st
      BY <1>3, <1>4, <3>2, <3>4, <3>5
    <3>7. StatusMatchesPunches'
      <4>1. ~stale' => shift'.status \notin {"scheduled", "no_show"}
        BY <1>2, <1>5, <3>3, <3>6 DEF Reviews, sh
      <4> QED BY <3>5, <3>6, <4>1 DEF StatusMatchesPunches
    <3> QED BY <1>5, <2>1, <3>5, <3>6, <3>7 DEF sh
  <2>2. CASE ~(c.at < Day /\ c.shift.cin = 0)
    <3>1. shift' = shift
      BY <1>1, <1>5, <2>2 DEF Stamped, StampIn
    <3> QED BY <1>1, <1>2, <3>1 DEF StatusMatchesPunches
  <2> QED BY <2>1, <2>2
<1>6. CASE c.op \in {"out", "force", "auto"}
  <2>1. CASE c.shift.cin = c.target /\ c.shift.cout = 0
    <3>1. shift' = [sh EXCEPT !.cout = n]
      BY <1>1, <1>6, <2>1 DEF Stamped, StampOut
    <3> HIDE DEF sh
    <3>2. shift' = [status |-> sh.status, cin |-> sh.cin, cout |-> n]
      BY <1>3, <3>1
    <3>3. n \in Punches /\ c.target # 0
      <4>1. c.target \in Punches
        BY <1>1, <1>6 DEF TaskOK, ClosingOps
      <4> QED BY <1>1, <1>6, <4>1, PunchTypes DEF Inserts, AttendanceInv
    <3>4. shift' \in Shifts /\ shift'.cin = sh.cin /\ shift'.cout = n /\ shift'.status = sh.status
      BY <1>3, <1>4, <3>2, <3>3
    <3>5. ~stale' => shift'.cin # 0
      BY <1>2, <1>6, <2>1, <3>3, <3>4 DEF Reviews, sh
    <3>6. StatusMatchesPunches'
      BY <1>1, <1>2, <3>4 DEF StatusMatchesPunches, sh
    <3> QED BY <1>6, <2>1, <3>4, <3>5, <3>6 DEF sh, ClosingOps
  <2>2. CASE ~(c.shift.cin = c.target /\ c.shift.cout = 0)
    <3>1. shift' = shift
      BY <1>1, <1>6, <2>2 DEF Stamped, StampOut
    <3> QED BY <1>1, <1>2, <3>1 DEF StatusMatchesPunches
  <2> QED BY <2>1, <2>2
<1>7. CASE c.op = "resolve"
  <2> DEFINE st == Punctual(c.row.at)
  <2>1. shift' = [sh EXCEPT !.cout = n, !.status = st]
    BY <1>1, <1>7 DEF Stamped
  <2>2. st \in {"present", "late"}
    BY DEF Punctual
  <2> HIDE DEF sh, st
  <2>3. shift' = [status |-> st, cin |-> sh.cin, cout |-> n]
    BY <1>3, <2>1
  <2>4. c.shift.cin = c.target /\ c.target \in Punches /\ n \in Punches
    BY <1>1, <1>7 DEF TaskOK, ClosingOps, Inserts
  <2>5. shift' \in Shifts /\ shift'.cin = sh.cin /\ shift'.cout = n /\ shift'.status = st
    BY <1>3, <1>4, <2>2, <2>3, <2>4
  <2>6. ~stale' => shift'.cin # 0
    BY <1>2, <1>7, <2>4, <2>5, PunchTypes DEF Reviews, sh, AttendanceInv
  <2>7. StatusMatchesPunches'
    BY <2>2, <2>5, <2>6 DEF StatusMatchesPunches
  <2> QED BY <1>7, <2>4, <2>5, <2>6, <2>7 DEF sh, ClosingOps
<1>8. CASE c.op \in ShiftOps
  <2> DEFINE st == IF c.op = "excuse" THEN "excused" ELSE c.op
  <2>1. shift' = [sh EXCEPT !.status = st]
    BY <1>1, <1>8 DEF Stamped, ShiftOps
  <2>2. st \in {"scheduled", "present", "late", "no_show", "missing_out", "excused"}
    BY <1>8 DEF ShiftOps
  <2>3. c.shift = sh => /\ st = "no_show" => sh.cin = 0
                        /\ st = "missing_out" => sh.cin # 0
                        /\ st \notin {"scheduled", "present", "late"}
    BY <1>1, <1>8 DEF TaskOK, ShiftOps
  <2> HIDE DEF sh, st
  <2>4. shift' = [status |-> st, cin |-> sh.cin, cout |-> sh.cout]
    BY <1>3, <2>1
  <2>5. shift' \in Shifts /\ shift'.cin = sh.cin /\ shift'.cout = sh.cout /\ shift'.status = st
    BY <1>3, <1>4, <2>2, <2>4
  <2>6. c.op \notin Reviews
    BY <1>8 DEF ShiftOps, Reviews
  <2>7. StatusMatchesPunches'
    <3>1. ~stale' => /\ st = "no_show" => sh.cin = 0
                     /\ st = "missing_out" => sh.cin # 0
                     /\ st \notin {"scheduled", "present", "late"}
      BY <1>2, <2>3, <2>6 DEF sh
    <3> QED BY <2>5, <3>1 DEF StatusMatchesPunches
  <2> QED BY <1>1, <1>2, <2>5, <2>7 DEF sh
<1>9. CASE c.op \in Reviews
  <2>1. shift' = shift
    BY <1>1, <1>9 DEF Stamped, Reviews
  <2> QED BY <1>1, <1>2, <2>1 DEF StatusMatchesPunches
<1>10. c.op \in Inserts \cup Reviews \cup ShiftOps
  BY <1>1 DEF TaskOK
<1> QED BY <1>5, <1>6, <1>7, <1>8, <1>9, <1>10 DEF Inserts

\* What a shift links is there, and of the right direction.
LEMMA FlushLinks ==
    ASSUME AttendanceInv, NEW s \in Tasks, NEW c, NEW n, Writes(s, c, n)
    PROVE  ShiftLinks'
<1>1. /\ \/ shift'.cin = shift.cin
         \/ c.op = "in" /\ shift'.cin = n
      /\ \/ shift'.cout = shift.cout
         \/ c.op \in ClosingOps /\ shift'.cout = n
      /\ ~stale' /\ shift'.cin = 0 => shift'.cout = 0
  BY FlushShift
<1>2. /\ shift.cin # 0 => shift.cin \in Stored /\ punch[shift.cin].way = "in"
      /\ shift.cout # 0 => shift.cout \in Stored /\ punch[shift.cout].way = "out"
  BY DEF AttendanceInv, ShiftLinks
<1>3. \A p \in Stored : p \in Stored' /\ punch'[p].way = punch[p].way
  <2>1. CASE c.op \in Inserts
    BY <2>1, Inserted, RowsAfter
  <2>2. CASE c.op \notin Inserts
    BY <2>2, Touched, RowsAfter DEF Stored
  <2> QED BY <2>1, <2>2
<1>4. c.op \in Inserts =>
         n \in Stored' /\ punch'[n].way = IF c.op = "in" THEN "in" ELSE "out"
  BY Inserted, RowsAfter
<1>5. c.op = "in" => c.op \in Inserts
  BY DEF Inserts
<1>6. c.op \in ClosingOps => c.op \in Inserts /\ c.op # "in"
  BY DEF Inserts, ClosingOps
<1> QED BY <1>1, <1>2, <1>3, <1>4, <1>5, <1>6 DEF ShiftLinks

-----------------------------------------------------------------------------
(***************************************************************************)
(* The timeline                                                            *)
(***************************************************************************)

\* Of two punches one is before the other.
LEMMA OneBefore ==
    ASSUME AttendanceTypes
    PROVE  /\ \A p \in Live : ~Before(p, p)
           /\ \A p, q \in Live : Before(p, q) => ~Before(q, p)
           /\ \A p, q, r \in Live : Before(p, q) /\ Before(q, r) => Before(p, r)
<1>1. \A p \in Live : p \in Nat /\ punch[p].at \in Nat
  BY PunchTypes
<1> QED BY <1>1 DEF Before

\* A call that saw the last punch and finds it still the last one adds its own
\* after it: nothing else in the timeline changes.
LEMMA Appended ==
    ASSUME AttendanceInv, NEW s \in Tasks, NEW c, NEW n, Writes(s, c, n),
           c.op \in Inserts, ~crossed', edits' = 0
    PROVE  /\ n \notin Live /\ Live' = Live \cup {n}
           /\ \A p, q \in Live : Before(p, q)' <=> Before(p, q)
           /\ \A p \in Live : Before(p, n)' /\ ~Before(n, p)'
           /\ ~Before(n, n)'
           /\ Live = {} => c.op = "in"
           /\ Live # {} => /\ Latest \in Live /\ (c.op # "in" => Latest = c.target)
                           /\ punch[Latest].way # punch'[n].way
<1>1. /\ AttendanceTypes /\ TaskOK(c, punch, edits, now) /\ c.last = Latest
      /\ n \in Punches \ Stored /\ \A p \in Stored : p < n
  BY FlushKnows DEF AttendanceInv, Crossed
<1>2. edits = 0 /\ (c.op = "resolve" => Latest = c.target)
  BY EditsAfter
<1>3. /\ Live' = Live \cup {n} /\ Live \subseteq Stored /\ n \notin Live
      /\ \A p \in Live : p \in Nat /\ punch[p].at \in Nat
  BY <1>1, RowsAfter, PunchTypes
<1>4. /\ \A p \in Live : punch'[p].at = punch[p].at
      /\ punch'[n].at = c.at /\ punch'[n].way = IF c.op = "in" THEN "in" ELSE "out"
      /\ n \in Nat /\ c.at \in Nat
  <2>1. n \in Nat /\ c.at \in Nat
    BY <1>1, PunchTypes DEF TaskOK
  <2>2. punch'[n].at = c.at
    BY NewAt
  <2>4. punch'[n].way = IF c.op = "in" THEN "in" ELSE "out"
    BY Inserted
  <2>3. \A p \in Stored : punch'[p].at = punch[p].at
    BY Inserted
  <2> QED BY <1>3, <2>1, <2>2, <2>3, <2>4
<1>5. \A p, q \in Live : Before(p, q)' <=> Before(p, q)
  BY <1>4 DEF Before
<1>6. ~Before(n, n)'
  BY <1>4 DEF Before
<1>7. c.op # "in" => Latest = c.target /\ c.target \in Punches /\ c.op \in ClosingOps
  BY <1>1, <1>2 DEF TaskOK, Inserts, ClosingOps
<1>8. CASE Live # {}
  <2>1. /\ Latest \in Live /\ \A q \in Live \ {Latest} : Before(q, Latest)
        /\ Latest # 0
    BY <1>1, <1>8, LatestOK, PunchTypes
  <2>2. punch[Latest].at <= c.at /\ punch[Latest].way # punch'[n].way
    <3>1. CASE c.op = "in"
      BY <1>1, <1>2, <1>4, <2>1, <3>1 DEF TaskOK
    <3>2. CASE c.op # "in"
      BY <1>1, <1>2, <1>4, <1>7, <3>2 DEF TaskOK
    <3> QED BY <3>1, <3>2
  <2>3. \A p \in Live : punch[p].at <= c.at
    <3> SUFFICES ASSUME NEW p \in Live PROVE punch[p].at <= c.at
      OBVIOUS
    <3>1. p = Latest \/ Before(p, Latest)
      BY <2>1
    <3>2. punch[p].at <= punch[Latest].at
      BY <1>3, <2>1, <3>1 DEF Before
    <3>3. punch[Latest].at \in Nat /\ punch[p].at \in Nat
      BY <1>3, <2>1
    <3> QED BY <1>4, <2>2, <3>2, <3>3
  <2>4. ASSUME NEW p \in Live PROVE Before(p, n)' /\ ~Before(n, p)'
    <3>1. punch[p].at <= c.at /\ punch[p].at \in Nat /\ p \in Nat /\ p < n
      BY <1>1, <1>3, <2>3
    <3> QED BY <1>4, <3>1 DEF Before
  <2> QED BY <1>3, <1>5, <1>6, <1>7, <1>8, <2>1, <2>2, <2>4
<1>9. CASE Live = {}
  <2>1. Latest = 0
    BY <1>1, <1>9, LatestOK
  <2>2. c.op = "in"
    BY <1>1, <1>7, <2>1, PunchTypes
  <2> QED BY <1>3, <1>5, <1>6, <1>9, <2>2
<1> QED BY <1>8, <1>9

\* What stood between two punches still does, and the new one only follows the
\* last one.
LEMMA AppendedBetween ==
    ASSUME AttendanceInv, NEW s \in Tasks, NEW c, NEW n, Writes(s, c, n),
           c.op \in Inserts, ~crossed', edits' = 0
    PROVE  /\ \A p, q \in Live : Between(p, q)' = Between(p, q)
           /\ \A l \in Live : l = Latest => Between(l, n)' = {}
           /\ \A p \in Live : Between(p, n)' = {} => p = Latest
<1>1. /\ n \notin Live /\ Live' = Live \cup {n}
      /\ \A p, q \in Live : Before(p, q)' <=> Before(p, q)
      /\ \A p \in Live : Before(p, n)' /\ ~Before(n, p)'
      /\ ~Before(n, n)'
      /\ Live # {} => Latest \in Live
  BY Appended
<1>2. /\ \A q \in Live \ {Latest} : Before(q, Latest)
      /\ \A p, q \in Live : Before(p, q) => ~Before(q, p)
      /\ \A p \in Live : ~Before(p, p)
  BY LatestOK, OneBefore DEF AttendanceInv
<1>3. \A p, q \in Live : Between(p, q)' = Between(p, q)
  BY <1>1 DEF Between
<1>4. ASSUME NEW l \in Live, l = Latest PROVE Between(l, n)' = {}
  <2>1. \A r \in Live' : ~Before(l, r)' \/ ~Before(r, n)'
    BY <1>1, <1>2, <1>4
  <2> QED BY <2>1 DEF Between
<1>5. ASSUME NEW p \in Live, NEW l, l = Latest, p # l PROVE Between(p, n)' # {}
  <2>1. l \in Live' /\ Before(p, l)' /\ Before(l, n)'
    BY <1>1, <1>2, <1>5
  <2> QED BY <2>1 DEF Between
<1> QED BY <1>3, <1>4, <1>5

\* Unless tasks crossed, a flush leaves punches that alternate in and out.
LEMMA FlushAlternates ==
    ASSUME AttendanceInv, NEW s \in Tasks, NEW c, NEW n, Writes(s, c, n)
    PROVE  PunchesAlternate'
<1> SUFFICES ASSUME ~crossed', edits' = 0
             PROVE  /\ (\A p, q \in Live : Before(p, q) /\ Between(p, q) = {} =>
                            punch[p].way # punch[q].way)'
                    /\ (\A p \in Live : (\A q \in Live \ {p} : Before(p, q)) =>
                            punch[p].way = "in")'
  BY DEF PunchesAlternate
<1>1. /\ AttendanceTypes /\ edits = 0 /\ ~crossed
      /\ c.op \notin {"adjust", "void"}
  BY EditsAfter, FlushKnows DEF AttendanceInv
<1>2. /\ \A p, q \in Live : Before(p, q) /\ Between(p, q) = {} => punch[p].way # punch[q].way
      /\ \A p \in Live : (\A q \in Live \ {p} : Before(p, q)) => punch[p].way = "in"
  BY <1>1 DEF AttendanceInv, PunchesAlternate
<1>3. CASE c.op \in Inserts
  <2>1. /\ n \notin Live /\ Live' = Live \cup {n}
        /\ \A p, q \in Live : Before(p, q)' <=> Before(p, q)
        /\ \A p \in Live : Before(p, n)' /\ ~Before(n, p)'
        /\ ~Before(n, n)'
        /\ Live = {} => c.op = "in"
        /\ Live # {} => Latest \in Live /\ punch[Latest].way # punch'[n].way
    BY <1>3, Appended
  <2>2. /\ \A p, q \in Live : Between(p, q)' = Between(p, q)
        /\ \A p \in Live : Between(p, n)' = {} => p = Latest
    BY <1>3, AppendedBetween
  <2>3. /\ \A p \in Live : punch'[p].way = punch[p].way
        /\ punch'[n].way = IF c.op = "in" THEN "in" ELSE "out"
    <3>1. Live \subseteq Stored
      BY DEF Live
    <3> QED BY <1>3, <3>1, Inserted
  <2>4. ASSUME NEW p \in Live', NEW q \in Live', Before(p, q)', Between(p, q)' = {}
        PROVE  punch'[p].way # punch'[q].way
    <3>1. CASE p \in Live /\ q \in Live
      BY <1>2, <2>1, <2>2, <2>3, <2>4, <3>1
    <3>2. CASE p \in Live /\ q = n
      BY <2>1, <2>2, <2>3, <2>4, <3>2
    <3>3. CASE p = n
      BY <2>1, <2>4, <3>3
    <3> QED BY <2>1, <3>1, <3>2, <3>3
  <2>5. ASSUME NEW p \in Live', \A q \in Live' \ {p} : Before(p, q)'
        PROVE  punch'[p].way = "in"
    <3>1. CASE p \in Live
      <4>1. \A q \in Live \ {p} : Before(p, q)
        BY <2>1, <2>5, <3>1
      <4> QED BY <1>2, <2>3, <3>1, <4>1
    <3>2. CASE p = n
      <4>1. Live = {}
        BY <2>1, <2>5, <3>2
      <4> QED BY <2>1, <2>3, <3>2, <4>1
    <3> QED BY <2>1, <3>1, <3>2
  <2> QED BY <2>4, <2>5
<1>4. CASE c.op \notin Inserts
  <2>1. Live' = Live /\ Live \subseteq Stored
    BY <1>1, <1>4, RowsAfter DEF Live
  <2>2. \A p \in Live : punch'[p].way = punch[p].way /\ punch'[p].at = punch[p].at
    BY <1>1, <1>4, <2>1, Touched DEF Stored
  <2>3. \A p, q \in Live : Before(p, q)' <=> Before(p, q)
    BY <2>2 DEF Before
  <2>4. \A p, q \in Live : Between(p, q)' = Between(p, q)
    BY <2>1, <2>3 DEF Between
  <2> QED BY <1>2, <2>1, <2>2, <2>3, <2>4
<1> QED BY <1>3, <1>4

\* Unless tasks crossed or read stale rows, a flush links one session.
LEMMA FlushOneSession ==
    ASSUME AttendanceInv, NEW s \in Tasks, NEW c, NEW n, Writes(s, c, n)
    PROVE  LinksOneSession'
<1> SUFFICES ASSUME ~crossed', ~stale', edits' = 0, shift'.cout # 0
             PROVE  /\ shift'.cin \in Live' /\ shift'.cout \in Live'
                    /\ punch'[shift'.cin].way = "in" /\ punch'[shift'.cout].way = "out"
                    /\ Before(shift.cin, shift.cout)' /\ Between(shift.cin, shift.cout)' = {}
  BY DEF LinksOneSession
<1>1. /\ edits = 0 /\ c.op \notin {"adjust", "void"} /\ ~crossed /\ ~stale
      /\ c.op \notin Reviews => shift = c.shift
      /\ TaskOK(c, punch, edits, now)
  BY EditsAfter, FlushKnows DEF Stale
<1>2. /\ \/ shift'.cin = shift.cin
         \/ c.op = "in" /\ shift'.cin = n /\ c.shift.cin = 0
      /\ \/ shift'.cout = shift.cout
         \/ c.op \in ClosingOps /\ shift'.cout = n /\ c.shift.cin = c.target
      /\ shift.cin = 0 => shift.cout = 0
  BY <1>1, FlushShift DEF AttendanceInv, ShiftLinks
<1>3. \/ shift'.cin = shift.cin /\ shift'.cout = shift.cout
      \/ /\ c.op \in ClosingOps /\ shift'.cin = shift.cin /\ shift'.cout = n
         /\ shift.cin = c.target
  <2>1. c.op = "in" => c.op \notin Reviews /\ c.op \notin ClosingOps
    BY DEF Reviews, ClosingOps
  <2>2. c.op \in ClosingOps => c.op \notin Reviews
    BY DEF Reviews, ClosingOps
  <2>3. shift'.cin = shift.cin
    BY <1>1, <1>2, <2>1
  <2> QED BY <1>1, <1>2, <2>1, <2>2, <2>3
<1>4. CASE shift'.cin = shift.cin /\ shift'.cout = shift.cout
  <2> DEFINE i == shift.cin
             o == shift.cout
  <2>1. /\ i \in Live /\ o \in Live /\ punch[i].way = "in" /\ punch[o].way = "out"
        /\ Before(i, o) /\ Between(i, o) = {}
    BY <1>1, <1>4 DEF AttendanceInv, LinksOneSession
  <2>2. /\ \A p \in Live : p \in Live' /\ punch'[p].way = punch[p].way
        /\ \A p, q \in Live : Before(p, q)' <=> Before(p, q)
        /\ \A p, q \in Live : Between(p, q)' = Between(p, q)
    <3>1. CASE c.op \in Inserts
      <4>1. \A p \in Live : punch'[p].way = punch[p].way
        BY <3>1, Inserted DEF Live
      <4>2. /\ Live' = Live \cup {n}
            /\ \A p, q \in Live : Before(p, q)' <=> Before(p, q)
        BY <3>1, Appended
      <4>3. \A p, q \in Live : Between(p, q)' = Between(p, q)
        BY <3>1, AppendedBetween
      <4> QED BY <4>1, <4>2, <4>3
    <3>2. CASE c.op \notin Inserts
      <4>1. Live' = Live
        BY <1>1, <3>2, RowsAfter
      <4>2. \A p \in Live : punch'[p].way = punch[p].way /\ punch'[p].at = punch[p].at
        BY <1>1, <3>2, Touched DEF Live, Stored
      <4>3. \A p, q \in Live : Before(p, q)' <=> Before(p, q)
        BY <4>2 DEF Before
      <4>4. \A p, q \in Live : Between(p, q)' = Between(p, q)
        BY <4>1, <4>3 DEF Between
      <4> QED BY <4>1, <4>2, <4>3, <4>4
    <3> QED BY <3>1, <3>2
  <2>3. shift'.cin = i /\ shift'.cout = o
    BY <1>4
  <2>4. (Before(shift.cin, shift.cout)' <=> Before(i, o))
        /\ Between(shift.cin, shift.cout)' = Between(i, o)
    <3>1. PICK x \in Live, y \in Live : x = i /\ y = o
      BY <2>1
    <3>2. Before(shift.cin, shift.cout)' <=> Before(x, y)'
      BY <2>3, <3>1 DEF Before
    <3>3. Between(shift.cin, shift.cout)' = Between(x, y)'
      BY <2>3, <3>1 DEF Between, Before
    <3>4. (Before(x, y) <=> Before(i, o)) /\ Between(x, y) = Between(i, o)
      BY <3>1
    <3> QED BY <2>2, <3>2, <3>3, <3>4
  <2> QED BY <2>1, <2>2, <2>3, <2>4
<1>5. CASE /\ c.op \in ClosingOps /\ shift'.cin = shift.cin /\ shift'.cout = n
           /\ shift.cin = c.target
  <2>1. c.op \in Inserts /\ c.op # "in"
    BY <1>5 DEF ClosingOps, Inserts
  <2>2. /\ Live' = Live \cup {n} /\ Live # {}
        /\ \A p \in Live : Before(p, n)'
        /\ Latest \in Live /\ Latest = c.target
    BY <2>1, Appended
  <2>3. PICK l \in Live : l = Latest
    BY <2>2
  <2>4. Between(l, n)' = {}
    BY <2>1, <2>3, AppendedBetween
  <2>5. punch'[l].way = "in" /\ punch'[n].way = "out"
    <3>1. punch[l].way = "in" /\ l \in Stored
      BY <1>1, <1>5, <2>2, <2>3 DEF TaskOK, Live
    <3> QED BY <2>1, <3>1, Inserted
  <2>6. shift'.cin = l /\ shift'.cout = n
    BY <1>5, <2>2, <2>3
  <2>7. (Before(shift.cin, shift.cout)' <=> Before(l, n)')
        /\ Between(shift.cin, shift.cout)' = Between(l, n)'
    BY <2>6 DEF Between, Before
  <2> QED BY <2>2, <2>4, <2>5, <2>6, <2>7
<1> QED BY <1>3, <1>4, <1>5

\* A flush keeps the invariant.
LEMMA FlushInv ==
    ASSUME AttendanceInv, NEW s \in Tasks, Flush(s)
    PROVE  AttendanceInv'
<1>1. PICK c, n : Writes(s, c, n)
  BY DEF Writes
<1>2. AttendanceTypes'
  BY <1>1, FlushTypes, FlushShift DEF AttendanceTypes
<1>3. InOrder'
  BY <1>1, FlushTypes, FlushCalls DEF InOrder
<1>4. PunchesAlternate' /\ StatusMatchesPunches' /\ LinksOneSession' /\ ShiftLinks'
  BY <1>1, FlushAlternates, FlushShift, FlushOneSession, FlushLinks
<1> QED BY <1>1, <1>2, <1>3, <1>4, FlushCalls DEF AttendanceInv

-----------------------------------------------------------------------------
(***************************************************************************)
(* Theorems about attendance                                               *)
(***************************************************************************)
LEMMA AttendanceInitInv == AttendanceInit => AttendanceInv
<1> SUFFICES ASSUME AttendanceInit PROVE AttendanceInv
  OBVIOUS
<1>1. /\ punch = [p \in Punches |-> NoRow]
      /\ shift = [status |-> "scheduled", cin |-> 0, cout |-> 0]
      /\ now = 0 /\ txn = [s \in Tasks |-> NoCall]
      /\ crossed = FALSE /\ stale = FALSE /\ edits = 0
  BY DEF AttendanceInit
<1>2. Stored = {} /\ Live = {}
  BY <1>1 DEF Stored, Live
<1>3. MaxPunches \in Nat /\ MaxEdits \in Nat /\ MaxTime \in Nat
  BY AttendanceAssumption DEF AttendanceAssumption
<1>4. \A ops : "idle" \notin ops => Count(txn, ops) = 0
  <2> SUFFICES ASSUME NEW ops, "idle" \notin ops PROVE Count(txn, ops) = 0
    OBVIOUS
  <2>1. {s \in Tasks : txn[s].op \in ops} = {}
    BY <1>1 DEF NoCall
  <2> QED BY <2>1, FS_EmptySet DEF Count
<1>5. Count(txn, {"in"}) = 0 /\ Count(txn, ReserveOps) = 0 /\ Count(txn, EditOps) = 0
  BY <1>4 DEF ReserveOps, EditOps
<1>6. Free >= 0
  <2>1. Free = MaxPunches - Cardinality(Stored) - 2 * Count(txn, {"in"})
                 - Count(txn, ReserveOps)
    BY FreeIs
  <2>2. Cardinality(Stored) = 0
    BY <1>2, FS_EmptySet
  <2> QED BY <1>3, <1>5, <2>1, <2>2
<1>7. AttendanceTypes
  <2>1. punch \in [Punches -> PunchRows]
    BY <1>1 DEF PunchRows
  <2>2. shift \in Shifts
    BY <1>1 DEF Shifts
  <2>3. now \in 0 .. MaxTime /\ edits \in 0 .. MaxEdits
    BY <1>1, <1>3
  <2> QED BY <1>1, <1>6, <2>1, <2>2, <2>3 DEF AttendanceTypes
<1>8. InOrder
  <2>1. Pending(EditOps) = 0
    BY <1>5, PendingIsCount
  <2> QED BY <1>1, <1>2, <1>3, <2>1 DEF InOrder
<1>9. PunchesAlternate /\ StatusMatchesPunches /\ LinksOneSession /\ ShiftLinks
  BY <1>1, <1>2 DEF PunchesAlternate, StatusMatchesPunches, LinksOneSession, ShiftLinks
<1> QED BY <1>1, <1>2, <1>7, <1>8, <1>9 DEF AttendanceInv

\* Every step keeps the invariant, action by action.
LEMMA AttendanceNextInv == AttendanceInv /\ [AttendanceNext]_attendanceVars => AttendanceInv'
<1> SUFFICES ASSUME AttendanceInv, [AttendanceNext]_attendanceVars PROVE AttendanceInv'
  OBVIOUS
<1>1. CASE \E s \in Tasks : Request(s)
  <2>1. PICK s \in Tasks : Request(s)
    BY <1>1
  <2>2. \/ BeginIn(s) \/ BeginOut(s) \/ BeginForce(s) \/ BeginResolve(s) \/ BeginExcuse(s)
        \/ \E p \in Punches : BeginAdjust(s, p) \/ BeginVoid(s, p) \/ BeginConfirm(s, p)
    BY <2>1 DEF Request
  <2> QED BY <2>2, BeginInInv, BeginOutInv, BeginResolveInv, BeginShiftInv, BeginReviewInv
<1>2. CASE \E s \in Tasks : Pass(s)
  <2>1. PICK s \in Tasks : BeginAutoClose(s) \/ BeginNoShow(s) \/ BeginMissingOut(s)
    BY <1>2 DEF Pass
  <2> QED BY <2>1, BeginAutoCloseInv, BeginShiftInv
<1>3. CASE \E s \in Tasks : Recheck(s)
  BY <1>3, RecheckInv
<1>4. CASE \E s \in Tasks : Flush(s)
  BY <1>4, FlushInv
<1>5. CASE Tick
  BY <1>5, TickInv
<1>6. CASE UNCHANGED attendanceVars
  <2>1. /\ UNCHANGED <<punch, shift, crossed, stale, edits>>
        /\ txn' = txn /\ now' = now
    BY <1>6 DEF attendanceVars
  <2>2. AttendanceTypes'
    BY <2>1 DEF AttendanceInv, AttendanceTypes, PunchRows, Free, Pending, Stored
  <2>3. InOrder'
    BY <2>1, SameHistory DEF InOrder, AttendanceInv, Pending
  <2> QED BY <2>1, <2>2, <2>3, SameHistory DEF AttendanceInv
<1> QED BY <1>1, <1>2, <1>3, <1>4, <1>5, <1>6 DEF AttendanceNext

\* The invariant holds in every reachable state.
THEOREM AttendanceInvariant == AttendanceSpec => []AttendanceInv
<1> QED BY AttendanceInitInv, AttendanceNextInv, PTL DEF AttendanceSpec

\* Payroll and schedule read one history: unless calls crossed or a manager
\* rewrote the timeline, clock-ins and clock-outs take turns, and unless a
\* decision was written over a changed row, the shift tells what they tell.
THEOREM ShiftMatchesPunchesHolds == AttendanceSpec => []ShiftMatchesPunches
<1>1. AttendanceInv => ShiftMatchesPunches
  BY DEF AttendanceInv, ShiftMatchesPunches
<1> QED BY <1>1, AttendanceInvariant, PTL

\* Written over unchanged rows, no call takes settled hours back, excuses
\* undone, or gives a shift another clock-in.
LEMMA FlushKeepsDecisions ==
    ASSUME AttendanceInv, NEW s \in Tasks, Flush(s), ~stale'
    PROVE  /\ \A p \in Stored :
                 punch[p].hours = "settled" => punch'[p].hours = "settled"
           /\ shift.status = "excused" => shift'.status = "excused"
           /\ shift.cin # 0 => shift'.cin = shift.cin
<1>1. PICK c, n : Writes(s, c, n)
  BY DEF Writes
<1>2. /\ TaskOK(c, punch, edits, now) /\ punch' = Written(c) /\ shift' = Stamped(c)
      /\ c.op \in Inserts => n \in Punches \ Stored /\ n = NewId
  BY <1>1, FlushKnows
<1>3. /\ c.target = 0 \/ punch[c.target] = c.row
      /\ c.op \notin Reviews => shift = c.shift
  BY <1>1, FlushKnows DEF Stale
<1>4. /\ punch \in [Punches -> PunchRows] /\ shift \in Shifts
      /\ c.op \in Inserts \cup Reviews \cup ShiftOps
  BY <1>2 DEF AttendanceInv, AttendanceTypes, TaskOK
<1>5. shift.cin # 0 => shift'.cin = shift.cin
  <2>1. \/ shift'.cin = shift.cin
        \/ c.op = "in" /\ c.shift.cin = 0
    BY <1>1, FlushShift
  <2> QED BY <1>3, <2>1 DEF Reviews
<1>6. shift.status = "excused" => shift'.status = "excused"
  <2> SUFFICES ASSUME shift.status = "excused" PROVE shift'.status = "excused"
    OBVIOUS
  <2>1. CASE c.op \in ShiftOps \cup {"resolve"}
    <3>1. c.op \in {"excuse"}
      <4>1. c.shift.status = "excused"
        BY <1>3, <2>1 DEF ShiftOps, Reviews
      <4> QED BY <1>2, <2>1, <4>1 DEF TaskOK, ShiftOps
    <3>2. shift' = [shift EXCEPT !.status = "excused"]
      BY <1>2, <3>1 DEF Stamped
    <3> QED BY <1>4, <3>2 DEF Shifts
  <2>2. CASE c.op = "in"
    <3>1. c.shift.status = "excused"
      BY <1>3, <2>2 DEF Reviews
    <3>2. shift' = [shift EXCEPT !.cin = NewId, !.status = shift.status] \/ shift' = shift
      BY <1>2, <2>2, <3>1 DEF Stamped, StampIn
    <3> QED BY <1>4, <3>2 DEF Shifts
  <2>3. CASE c.op \in {"out", "force", "auto"}
    <3>1. shift' = [shift EXCEPT !.cout = NewId] \/ shift' = shift
      BY <1>2, <2>3 DEF Stamped, StampOut
    <3> QED BY <1>4, <3>1 DEF Shifts
  <2>4. CASE c.op \in Reviews
    BY <1>2, <2>4 DEF Stamped, Reviews
  <2> QED BY <1>4, <2>1, <2>2, <2>3, <2>4 DEF Inserts
<1>7. ASSUME NEW p \in Stored, punch[p].hours = "settled" PROVE punch'[p].hours = "settled"
  <2> DEFINE old == punch[p]
  <2>1. /\ p \in Punches
        /\ old = [way |-> old.way, at |-> old.at, live |-> old.live, hours |-> "settled"]
    BY <1>4, <1>7 DEF Stored, PunchRows
  <2>2. c.op \in Inserts => p # n
    BY <1>2
  <2>3. CASE p # c.target \/ c.op \in {"in", "out", "resolve"} \cup ShiftOps
    <3>1. punch'[p] = punch[p]
      BY <1>2, <1>4, <2>1, <2>2, <2>3 DEF Written, Inserts, ShiftOps, Reviews
    <3> QED BY <1>7, <3>1
  <2>4. CASE p = c.target /\ c.op \in Reviews
    <3>1. \/ punch'[p] = PunchRow(old.way, c.at, "settled")
          \/ punch'[p] = [old EXCEPT !.live = FALSE]
          \/ punch'[p] = [old EXCEPT !.hours = "settled"]
      BY <1>2, <1>4, <2>1, <2>4 DEF Written, Reviews
    <3> HIDE DEF old
    <3> QED BY <2>1, <3>1 DEF PunchRow
  <2>5. CASE p = c.target /\ c.op \in {"force", "auto"}
    <3>1. c.row = old
      BY <1>3, <2>1, <2>5, PunchTypes DEF AttendanceInv
    <3>2. c.row.hours # "none"
      BY <2>1, <3>1
    <3>3. Reviewed(c) = [old EXCEPT !.hours = old.hours]
      BY <2>5, <3>2 DEF Reviewed
    <3>4. punch'[p] = Reviewed(c)
      <4>1. p # NewId
        BY <1>2, <2>2, <2>5 DEF Inserts
      <4> DEFINE new == PunchRow("out", c.at, "review")
                 r == Reviewed(c)
      <4>2. punch' = [punch EXCEPT ![NewId] = new, ![c.target] = r]
        BY <1>2, <2>5 DEF Written
      <4> HIDE DEF new, r
      <4>3. punch'[p] = r
        BY <1>4, <2>1, <2>5, <4>1, <4>2
      <4> QED BY <4>3 DEF r
    <3> HIDE DEF old
    <3> QED BY <2>1, <3>3, <3>4
  <2> QED BY <1>4, <2>3, <2>4, <2>5 DEF Inserts
<1> QED BY <1>5, <1>6, <1>7

\* Unless a decision was written over a changed row, settled hours stay
\* settled, an excused absence stays excused, and a shift keeps its clock-in.
THEOREM DecisionsStayHolds == AttendanceSpec => DecisionsStay
<1> DEFINE A == ~stale' =>
              /\ \A p \in Stored :
                    punch[p].hours = "settled" => punch'[p].hours = "settled"
              /\ shift.status = "excused" => shift'.status = "excused"
              /\ shift.cin # 0 => shift'.cin = shift.cin
<1>1. AttendanceInv /\ [AttendanceNext]_attendanceVars => [A]_attendanceVars
  <2> SUFFICES ASSUME AttendanceInv, AttendanceNext PROVE A
    OBVIOUS
  <2>1. CASE \E s \in Tasks : Flush(s)
    BY <2>1, FlushKeepsDecisions
  <2>2. CASE ~ \E s \in Tasks : Flush(s)
    <3>1. punch' = punch /\ shift' = shift
      BY <2>2 DEF AttendanceNext, Request, Pass, Recheck, Tick, BeginIn, BeginOut, BeginForce,
         BeginResolve, BeginExcuse, BeginAdjust, BeginVoid, BeginConfirm, BeginAutoClose,
         BeginNoShow, BeginMissingOut, Load
    <3> QED BY <3>1
  <2> QED BY <2>1, <2>2
<1> QED BY <1>1, AttendanceInvariant, PTL DEF AttendanceSpec, DecisionsStay
=============================================================================
