----------------------------- MODULE ReminderPass -----------------------------
(***************************************************************************)
(* The daily reminder pass over the installments of one invoice            *)
(* (reminder_runner.run_reminder_pass), which the daily loop of every API  *)
(* process runs (workers/daily.py).                                        *)
(*                                                                         *)
(* A pass is one transaction at READ COMMITTED: it reads the unpaid        *)
(* installments once, sends its mails as it goes, and commits at the end.  *)
(* Until then the rows it inserted or stamped are locked, and nobody else  *)
(* sees them.  An UPDATE carries only the columns that were assigned.      *)
(* Mail transport is external: it raises exactly when nothing was sent.    *)
(***************************************************************************)
EXTENDS Integers, FiniteSets

CONSTANTS
    Processes,     \* the uvicorn processes, one daily loop each
    Installments,  \* of one sent or partial invoice
    Target,        \* the day each enabled reminder of an installment falls on
    Late,          \* the reminder that brings the late fee: reminder3
    MaxDay,        \* bound: days
    MaxRestarts    \* bound: processes killed or redeployed

Slots == UNION {DOMAIN Target[i] : i \in Installments}

ASSUME ReminderAssumption ==
    /\ IsFiniteSet(Processes) /\ IsFiniteSet(Installments)
    /\ \A i \in Installments : DOMAIN Target[i] \subseteq 1..3
    /\ Late \in 1..3 /\ MaxDay \in Nat \ {0} /\ MaxRestarts \in Nat

Pairs == {p \in Installments \X Slots : p[2] \in DOMAIN Target[p[1]]}

VARIABLES
    day,       \* today, in the shop's time zone
    unpaid,    \* installments with no paid_at
    linked,    \* the invoice has a live invitation
    row,       \* installment_reminder_state as committed
    pass,      \* the transaction of each process
    ran,       \* processes whose loop has ticked today
    kept,      \* mails sent by passes that were not rolled back
    fees,      \* late fees charged, per installment whose reminder brought them
    restarts,  \* processes killed so far
    shared     \* auxiliary: rows that two passes had read before either committed

passVars == <<day, unpaid, linked, row, pass, ran, kept, fees, restarts, shared>>

\* No row, or its stamps; a pass holds in `mine` the stamps it has added.
None == [exists |-> FALSE, stamped |-> {}, fee |-> FALSE]
Blank == [None EXCEPT !.exists = TRUE]

\* todo: reminders still to be looked at; at: the one in hand, and its row as
\* this pass sees it; seen: installments whose committed row it has read.
NoPass == [step |-> "none", todo |-> {}, at |-> <<>>, sees |-> None,
           mine |-> [i \in Installments |-> None], mailed |-> {},
           charged |-> {}, seen |-> {}]

PassInit ==
    /\ day = 1
    /\ unpaid = Installments
    /\ linked = TRUE
    /\ row = [i \in Installments |-> None]
    /\ pass = [w \in Processes |-> NoPass]
    /\ ran = {}
    /\ kept = [p \in Pairs |-> 0]
    /\ fees = [i \in Installments |-> 0]
    /\ restarts = 0
    /\ shared = {}

-----------------------------------------------------------------------------
(***************************************************************************)
(* A pass                                                                  *)
(***************************************************************************)
Turns(w, p) == pass' = [pass EXCEPT ![w] = p]

\* Whose uncommitted write on the row of i process w would have to wait for.
Writers(w, i) == {v \in Processes \ {w} : pass[v].mine[i].exists}

\* The same for the invoice, which a late fee updates.
Chargers(w) == {v \in Processes \ {w} : pass[v].charged # {}}

\* The first tick after a start, and one a day; the rows are read once.
BeginPass(w) ==
    /\ pass[w].step = "none"
    /\ w \notin ran
    /\ ran' = ran \cup {w}
    /\ Turns(w, [NoPass EXCEPT !.step = "next",
          !.todo = {p \in Pairs : p[1] \in unpaid /\ Target[p[1]][p[2]] = day}])
    /\ UNCHANGED <<day, unpaid, linked, row, kept, fees, restarts, shared>>

\* The installments come in any order, the reminders of one in theirs.
Upcoming(p) ==
    LET here == {q \in p.todo : p.at # <<>> /\ q[1] = p.at[1]}
        rest == IF here # {} THEN here ELSE p.todo
    IN  {q \in rest : \A r \in rest : r[1] = q[1] => q[2] <= r[2]}

\* What becomes of reminder k of a row: nothing when it is stamped, a stamp
\* alone when nobody could read it.
Judged(k, r) ==
    IF k \in r.stamped THEN "next" ELSE IF linked THEN "send" ELSE "close"

\* _ensure_reminder_state: the row in hand, the committed one, or a new one.
TakeUp(w) ==
    LET p == pass[w]
    IN  /\ p.step = "next"
        /\ \E q \in Upcoming(p) :
              LET i == q[1]
                  inHand == p.at # <<>> /\ p.at[1] = i
                  r == IF inHand THEN p.sees ELSE row[i]
              IN  /\ Turns(w, [p EXCEPT !.todo = @ \ {q}, !.at = q, !.sees = r,
                        !.seen = IF inHand \/ ~r.exists THEN @ ELSE @ \cup {i},
                        !.step = IF r.exists THEN Judged(q[2], r) ELSE "insert"])
                  /\ shared' = IF /\ ~inHand /\ r.exists
                                  /\ \E v \in Processes \ {w} : i \in pass[v].seen
                               THEN shared \cup {i} ELSE shared
        /\ UNCHANGED <<day, unpaid, linked, row, ran, kept, fees, restarts>>

\* The primary key: a row committed meanwhile refuses a second one.  The faulty
\* form lets it in.
NeverTaken(i) == FALSE
Taken(i) == row[i].exists

\* The insert waits for another pass that is inserting the same row.  Refused,
\* it raises, and the whole pass is rolled back.
Insert(w) ==
    LET p == pass[w]
        i == p.at[1]
    IN  /\ p.step = "insert"
        /\ Writers(w, i) = {}
        /\ Turns(w, IF Taken(i) THEN NoPass
                 ELSE [p EXCEPT !.sees = Blank, !.mine[i] = Blank,
                                !.step = Judged(p.at[2], Blank)])
        /\ UNCHANGED <<day, unpaid, linked, row, ran, kept, fees, restarts, shared>>

\* send_invoice_reminder: a mail, a contact without address, or a failure that
\* leaves the reminder unstamped.
SendReminder(w) ==
    LET p == pass[w]
    IN  /\ p.step = "send"
        /\ \/ Turns(w, [p EXCEPT !.step = "stamp", !.mailed = @ \cup {p.at}])
           \/ Turns(w, [p EXCEPT !.step = "stamp"])
           \/ Turns(w, [p EXCEPT !.step = "next"])
        /\ UNCHANGED <<day, unpaid, linked, row, ran, kept, fees, restarts, shared>>

\* Reminder3 brings the fee, once.
FeeDue(k, r) == k = Late /\ ~r.fee

\* _stamp_slot and its flush, which waits for another pass's stamps.
Stamp(w) ==
    LET p == pass[w]
        k == p.at[2]
        stamp(r) == [r EXCEPT !.exists = TRUE, !.stamped = @ \cup {k}]
    IN  /\ p.step \in {"stamp", "close"}
        /\ Writers(w, p.at[1]) = {}
        /\ Turns(w, [p EXCEPT !.sees = stamp(@), !.mine[p.at[1]] = stamp(@),
              !.step = IF p.step = "stamp" /\ FeeDue(k, p.sees) THEN "fee" ELSE "next"])
        /\ UNCHANGED <<day, unpaid, linked, row, ran, kept, fees, restarts, shared>>

\* append_late_fee, on the next unpaid installment.  It may be refused before it
\* writes, or only after (_validate_schedule): then the fee stays, unstamped.
AppendFee(w) ==
    LET p == pass[w]
        i == p.at[1]
        charge == [p EXCEPT !.step = "next", !.charged = @ \cup {i}]
    IN  /\ p.step = "fee"
        /\ \/ Turns(w, [p EXCEPT !.step = "next"])
           \/ /\ unpaid # {} /\ Chargers(w) = {}
              /\ \/ Turns(w, charge)
                 \/ Turns(w, [charge EXCEPT !.mine[i].fee = TRUE, !.sees.fee = TRUE])
        /\ UNCHANGED <<day, unpaid, linked, row, ran, kept, fees, restarts, shared>>

\* What a commit leaves of row i: the columns this pass assigned over the
\* committed ones.  The faulty form writes every column back as it saw it.
WholeRow(i, p) == [p.mine[i] EXCEPT !.exists = TRUE]
Merged(i, p) == [exists |-> TRUE,
                 stamped |-> row[i].stamped \cup p.mine[i].stamped,
                 fee |-> row[i].fee \/ p.mine[i].fee]

CommitPass(w) ==
    LET p == pass[w]
    IN  /\ p.step = "next" /\ p.todo = {}
        /\ row' = [i \in Installments |->
                      IF p.mine[i].exists THEN Merged(i, p) ELSE row[i]]
        /\ kept' = [q \in Pairs |-> kept[q] + (IF q \in p.mailed THEN 1 ELSE 0)]
        /\ fees' = [i \in Installments |-> fees[i] + (IF i \in p.charged THEN 1 ELSE 0)]
        /\ Turns(w, NoPass)
        /\ UNCHANGED <<day, unpaid, linked, ran, restarts, shared>>

\* Whom a pass is waiting for; of two that wait for each other Postgres raises
\* in one, which is rolled back until the next day.
WaitsFor(w) ==
    CASE pass[w].step \in {"insert", "stamp", "close"} -> Writers(w, pass[w].at[1])
      [] pass[w].step = "fee" -> Chargers(w)
      [] OTHER -> {}

Victim(w) ==
    /\ \E v \in WaitsFor(w) : w \in WaitsFor(v)
    /\ Turns(w, NoPass)
    /\ UNCHANGED <<day, unpaid, linked, row, ran, kept, fees, restarts, shared>>

\* The process is killed, its pass if any rolled back, and started again: a
\* minute later it ticks once more.
Restart(w) ==
    /\ restarts < MaxRestarts
    /\ w \in ran
    /\ restarts' = restarts + 1
    /\ ran' = ran \ {w}
    /\ Turns(w, NoPass)
    /\ UNCHANGED <<day, unpaid, linked, row, kept, fees, shared>>

-----------------------------------------------------------------------------
(***************************************************************************)
(* The rest of the world                                                   *)
(***************************************************************************)
\* The installment is paid in full.
Pay(i) ==
    /\ i \in unpaid
    /\ unpaid' = unpaid \ {i}
    /\ UNCHANGED <<day, linked, row, pass, ran, kept, fees, restarts, shared>>

\* The last live invitation is revoked or expires.
LoseLink ==
    /\ linked
    /\ linked' = FALSE
    /\ UNCHANGED <<day, unpaid, row, pass, ran, kept, fees, restarts, shared>>

\* Half past two comes round again, when the passes of the day are long over.
NextDay ==
    /\ day < MaxDay
    /\ \A w \in Processes : pass[w] = NoPass
    /\ day' = day + 1
    /\ ran' = {}
    /\ UNCHANGED <<unpaid, linked, row, pass, kept, fees, restarts, shared>>

PassStep(w) ==
    \/ TakeUp(w) \/ Insert(w) \/ SendReminder(w) \/ Stamp(w) \/ AppendFee(w)
    \/ CommitPass(w) \/ Victim(w)

PassNext ==
    \/ \E w \in Processes : BeginPass(w) \/ PassStep(w) \/ Restart(w)
    \/ \E i \in Installments : Pay(i)
    \/ LoseLink
    \/ NextDay

PassSpec == PassInit /\ [][PassNext]_passVars

-----------------------------------------------------------------------------
(***************************************************************************)
(* Properties                                                              *)
(***************************************************************************)
Copies(q) == kept[q] + Cardinality({w \in Processes : q \in pass[w].mailed})
Charges(i) == fees[i] + Cardinality({w \in Processes : i \in pass[w].charged})

\* Every variable has its type, and no two passes have written the same row.
PassTypes ==
    /\ day \in 1..MaxDay /\ restarts \in 0..MaxRestarts
    /\ unpaid \subseteq Installments /\ shared \subseteq Installments
    /\ linked \in BOOLEAN
    /\ row \in [Installments -> [exists : BOOLEAN, stamped : SUBSET Slots, fee : BOOLEAN]]
    /\ ran \subseteq Processes
    /\ kept \in [Pairs -> Nat] /\ fees \in [Installments -> Nat]
    /\ \A w \in Processes :
          /\ pass[w].todo \subseteq Pairs /\ pass[w].mailed \subseteq Pairs
          /\ pass[w].step \notin {"none", "next"} => pass[w].at \in Pairs
          /\ pass[w].charged \subseteq Installments /\ pass[w].seen \subseteq Installments
          /\ \A v \in Processes \ {w}, i \in Installments :
                ~(pass[v].mine[i].exists /\ pass[w].mine[i].exists)

\* Nobody is reminded twice of one thing, through restarts, two loops and failed
\* mails, except by passes that read the same row at the same time and by a
\* pass that was rolled back: the primary key holds the second of two first
\* reminders back until the first has committed.
RemindedOnce ==
    \A q \in Pairs : q[1] \notin shared => Copies(q) <= 1

\* A late fee is charged once, even when the pass that mailed the reminder is
\* killed and runs again: the fee goes with the transaction, the mail does not.
ChargedOnceUnlessShared ==
    \A i \in Installments : i \notin shared => Charges(i) <= 1

\* Both, whatever restarts and failures the passes go through.
OnceUnlessShared == PassTypes /\ RemindedOnce /\ ChargedOnceUnlessShared

\* What a committed pass mailed or charged is on the row, whatever another pass
\* wrote on the same row meanwhile.
EffectsStamped ==
    \A i \in Installments :
        /\ \A k \in DOMAIN Target[i] : kept[<<i, k>>] > 0 => k \in row[i].stamped
        /\ fees[i] > 0 => Late \in row[i].stamped

\* "late_fee_applied_at blocks the same fee from getting appended twice": no
\* installment is charged a second late fee.
\* The code breaks it (README, Disagreements).
ChargedOnce ==
    \A i \in Installments : Charges(i) <= 1
=============================================================================
