-------------------------- MODULE NotificationQueue --------------------------
(***************************************************************************)
(* The queue of customer messages about one appointment: the worker loop   *)
(* of every API process claims due jobs, sends them and commits the batch  *)
(* (notification_service.py, workers/notifications.py), while the customer *)
(* cancels the appointment in a transaction and withdraws what is pending  *)
(* in a second one (routers/booking.py).                                   *)
(*                                                                         *)
(* A worker's UPDATEs live in its transaction until it commits; meanwhile  *)
(* its rows are locked.  Mail transport is external: it raises exactly when*)
(* nothing was sent.  Jobs of other channels and of staff recipients go    *)
(* through the same steps without the look at the appointment.             *)
(***************************************************************************)
EXTENDS Integers, FiniteSets

CONSTANTS
    Workers,        \* the uvicorn processes, one loop each
    Jobs,           \* notification_jobs of the appointment
    Reminders,      \* those of kind reminder: skipped when it is not live
    Notices,        \* the cancellation confirmation, enqueued on cancelling
    Limit,          \* jobs claimed at once
    MaxAttempts,    \* _MAX_ATTEMPTS
    MaxCrashes      \* bound: ticks that are killed or raise outside a send

ASSUME QueueAssumption ==
    /\ IsFiniteSet(Jobs) /\ IsFiniteSet(Workers)
    /\ Reminders \subseteq Jobs /\ Notices \subseteq Jobs \ Reminders
    /\ Limit \in Nat \ {0} /\ MaxAttempts \in Nat \ {0} /\ MaxCrashes \in Nat

VARIABLES
    job,        \* the committed rows: status and attempts
    due,        \* jobs whose due_at has passed
    live,       \* the appointment's status is one of _LIVE_STATUSES
    canceller,  \* how far the request that cancels it has come
    tick,       \* the transaction of each worker
    sent,       \* messages that left, per job
    crashes,    \* ticks rolled back so far
    tried,      \* times a dispatch of the job began, up to MaxAttempts + 1
    caught      \* reminders being sent at the moment of the cancellation

vars == <<job, due, live, canceller, tick, sent, crashes, tried, caught>>

Status == {"none", "pending", "sent", "failed", "cancelled"}

\* batch: the claimed rows as this transaction sees them; todo: still to be
\* dispatched; sending: the one whose send has been decided on.
NoTick == [batch |-> <<>>, todo |-> {}, sending |-> {}]

Locked(w) == DOMAIN tick[w].batch

Init ==
    /\ job = [j \in Jobs |-> [status   |-> IF j \in Notices THEN "none" ELSE "pending",
                              attempts |-> 0]]
    /\ due = {}
    /\ live = TRUE
    /\ canceller = "none"
    /\ tick = [w \in Workers |-> NoTick]
    /\ sent = [j \in Jobs |-> 0]
    /\ crashes = 0
    /\ tried = [j \in Jobs |-> 0]
    /\ caught = {}

-----------------------------------------------------------------------------
\* The clock reaches due_at.
FallDue(j) ==
    /\ j \notin due
    /\ due' = due \cup {j}
    /\ UNCHANGED <<job, live, canceller, tick, sent, crashes, tried, caught>>

\* FOR UPDATE SKIP LOCKED; the faulty form locks nothing.
NotSkipping(j) == TRUE
Free(j) == \A w \in Workers : j \notin Locked(w)

\* The row after a claim; the faulty form forgets to count it.
ClaimedUncounted(row) == row
Claimed(row) == [row EXCEPT !.attempts = @ + 1]

\* At most Limit of the due pending rows nobody holds (due_at orders them; any
\* order may be the due order); the claim is counted in the transaction that
\* will dispatch them.
ClaimDueJobs(w) ==
    LET ready == {j \in due : job[j].status = "pending" /\ Free(j)}
    IN  /\ tick[w] = NoTick
        /\ \E batch \in SUBSET ready \ {{}} :
              /\ Cardinality(batch) <= Limit
              /\ batch = ready \/ Cardinality(batch) = Limit
              /\ tick' = [tick EXCEPT ![w] =
                    [batch   |-> [j \in batch |-> Claimed(job[j])],
                     todo    |-> batch,
                     sending |-> {}]]
        /\ UNCHANGED <<job, due, live, canceller, sent, crashes, tried, caught>>

\* Worker w stamps `status` on job j of its batch.
Mark(w, j, status, todo, sending) ==
    tick' = [tick EXCEPT ![w] =
               [batch   |-> [tick[w].batch EXCEPT ![j].status = status],
                todo    |-> todo,
                sending |-> sending]]

\* _should_skip_for_status; the faulty form sends whatever the status.
NeverSkipped(j) == FALSE
Skipped(j) == j \in Reminders /\ ~live

\* dispatch_job up to the send: the appointment is read as committed now.
BeginDispatch(w, j) ==
    /\ tick[w].sending = {}
    /\ j \in tick[w].todo
    /\ tried' = [tried EXCEPT ![j] = IF @ > MaxAttempts THEN @ ELSE @ + 1]
    /\ IF Skipped(j)
       THEN Mark(w, j, "cancelled", tick[w].todo \ {j}, {})
       ELSE Mark(w, j, "pending", tick[w].todo \ {j}, {j})
    /\ UNCHANGED <<job, due, live, canceller, sent, crashes, caught>>

\* job.attempts >= _MAX_ATTEMPTS.
LastAttempt(row) == row.attempts >= MaxAttempts

\* email_transport.send, and what is stamped on the job when it raises.
Send(w, j) ==
    /\ j \in tick[w].sending
    /\ \E raised \in BOOLEAN :
          /\ sent' = IF raised THEN sent ELSE [sent EXCEPT ![j] = @ + 1]
          /\ Mark(w, j, IF ~raised THEN "sent"
                        ELSE IF LastAttempt(tick[w].batch[j]) THEN "failed"
                        ELSE "pending",
                  tick[w].todo, {})
    /\ UNCHANGED <<job, due, live, canceller, crashes, tried, caught>>

CommitTick(w) ==
    /\ tick[w] # NoTick
    /\ tick[w].todo = {} /\ tick[w].sending = {}
    /\ job' = [j \in Jobs |-> IF j \in Locked(w) THEN tick[w].batch[j] ELSE job[j]]
    /\ tick' = [tick EXCEPT ![w] = NoTick]
    /\ UNCHANGED <<due, live, canceller, sent, crashes, tried, caught>>

\* The process dies, or something outside the try of a send raises: the whole
\* batch is rolled back, whatever of it was sent.
RollbackTick(w) ==
    /\ tick[w] # NoTick
    /\ crashes < MaxCrashes
    /\ crashes' = crashes + 1
    /\ tick' = [tick EXCEPT ![w] = NoTick]
    /\ UNCHANGED <<job, due, live, canceller, sent, tried, caught>>

-----------------------------------------------------------------------------
\* The first transaction of a cancellation: the appointment alone.
CancelAppointment ==
    /\ live
    /\ live' = FALSE
    /\ canceller' = "withdrawing"
    /\ caught' = Reminders \cap UNION {tick[w].sending : w \in Workers}
    /\ UNCHANGED <<job, due, tick, sent, crashes, tried>>

\* The UPDATE waits for the rows a worker holds; the faulty form does not.
NothingHeld(rows) == TRUE
NoneHeld(rows) == \A j \in rows : Free(j)

\* The second: enqueue_for_cancellation.  It may never come: an exception is
\* logged and rolled back, and the request is over.
EnqueueForCancellation ==
    LET pending == {j \in Jobs : job[j].status = "pending"}
    IN  /\ canceller = "withdrawing"
        /\ NoneHeld(pending)
        /\ job' = [j \in Jobs |->
                     IF j \in pending THEN [job[j] EXCEPT !.status = "cancelled"]
                     ELSE IF j \in Notices THEN [job[j] EXCEPT !.status = "pending"]
                     ELSE job[j]]
        /\ canceller' = "withdrawn"
        /\ UNCHANGED <<due, live, tick, sent, crashes, tried, caught>>

-----------------------------------------------------------------------------
Tick(w) ==
    \/ ClaimDueJobs(w)
    \/ \E j \in Jobs : BeginDispatch(w, j) \/ Send(w, j)
    \/ CommitTick(w)

Next ==
    \/ \E j \in Jobs : FallDue(j)
    \/ \E w \in Workers : Tick(w) \/ RollbackTick(w)
    \/ CancelAppointment
    \/ EnqueueForCancellation

\* The loop of a worker comes round every thirty seconds.
Fairness == \A w \in Workers : WF_vars(Tick(w))

Spec == Init /\ [][Next]_vars /\ Fairness

-----------------------------------------------------------------------------
(***************************************************************************)
(* Properties                                                              *)
(***************************************************************************)

\* Every variable has its type; no job is tried beyond _MAX_ATTEMPTS by the
\* count on its row.
TypeOK ==
    /\ job \in [Jobs -> [status : Status, attempts : 0..MaxAttempts]]
    /\ due \subseteq Jobs
    /\ live \in BOOLEAN
    /\ canceller \in {"none", "withdrawing", "withdrawn"}
    /\ \A w \in Workers :
          /\ Locked(w) \subseteq Jobs
          /\ tick[w].todo \subseteq Locked(w)
          /\ tick[w].sending \subseteq Locked(w)
    /\ sent \in [Jobs -> Nat] /\ tried \in [Jobs -> 0..(MaxAttempts + 1)]
    /\ crashes \in 0..MaxCrashes
    /\ caught \subseteq Reminders

\* Two loops share the queue without sending a message twice: a second copy
\* takes a tick that was rolled back after the first had left.
SentOncePerCrash ==
    \A j \in Jobs : sent[j] <= 1 + crashes

\* Once a cancellation has withdrawn the pending jobs no reminder leaves any
\* more, not even from a batch claimed before.
RemindersStop ==
    [][canceller = "withdrawn" =>
         \A j \in Reminders : sent'[j] = sent[j]]_vars

\* Between the two transactions the look at the appointment holds reminders
\* back: only one that was past it when the appointment was cancelled leaves.
OnlyCaughtLeave ==
    [][~live => \A j \in Reminders : sent'[j] > sent[j] => j \in caught]_vars

\* "A crash mid-dispatch eventually surfaces as a permanent failure rather than
\* getting retried forever": no job is tried more than _MAX_ATTEMPTS times.
\* The code breaks it (README, Disagreements).
TriesBounded ==
    \A j \in Jobs : tried[j] <= MaxAttempts

\* Every due message is sent, given up on, or withdrawn: a job whose sends
\* keep raising does not hold the queue up.
DueJobsSettle ==
    \A j \in Jobs :
        (j \in due /\ job[j].status = "pending") ~> job[j].status # "pending"
=============================================================================
