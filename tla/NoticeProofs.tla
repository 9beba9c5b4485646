------------------------------- MODULE NoticeProofs -------------------------------
(***************************************************************************)
(* What customers are sent: the notices of appointments (NotificationQueue)*)
(* the reminders of installments (ReminderPass) and the links and copies   *)
(* of a document (PortalLinks), three specifications that share nothing    *)
(* but the reader of their mails.                                          *)
(***************************************************************************)
EXTENDS NotificationQueue, ReminderPass, PortalLinks, FiniteSetTheorems, TLAPS

-----------------------------------------------------------------------------
(***************************************************************************)
(* What the notification queue promises for any number of workers, jobs,   *)
(* attempts and rolled back ticks.                                         *)
(*                                                                         *)
(* The argument rests on the row locks: a claimed job is locked by one     *)
(* worker and stays pending in the table until that worker commits         *)
(* (LocksHold), so a cancellation that withdraws the pending jobs finds    *)
(* none of them claimed (Withdrawal), and a job may be sent again only     *)
(* after a rollback (Counting).                                            *)
(***************************************************************************)
Row == [status : Status, attempts : 0..MaxAttempts]

TickRow == [batch   : UNION {[S -> Row] : S \in SUBSET Jobs},
            todo    : SUBSET Jobs,
            sending : SUBSET Jobs]

Typed ==
    /\ job \in [Jobs -> Row]
    /\ due \subseteq Jobs
    /\ live \in BOOLEAN
    /\ canceller \in {"none", "withdrawing", "withdrawn"}
    /\ tick \in [Workers -> TickRow]
    /\ sent \in [Jobs -> Nat]
    /\ tried \in [Jobs -> 0..(MaxAttempts + 1)]
    /\ crashes \in 0..MaxCrashes
    /\ caught \subseteq Reminders

\* A claimed row belongs to one transaction and is pending outside it.
LocksHold ==
    /\ \A w \in Workers : tick[w].todo \cup tick[w].sending \subseteq Locked(w)
    /\ \A v, w \in Workers : v # w => Locked(v) \cap Locked(w) = {}
    /\ \A w \in Workers : \A j \in Locked(w) : job[j].status = "pending"

\* Inside its transaction a job is pending until it has been dispatched.
Undecided ==
    \A w \in Workers :
        /\ \A j \in Locked(w) : tick[w].batch[j].status # "none"
        /\ tick[w].todo \cap tick[w].sending = {}
        /\ \A j \in tick[w].todo \cup tick[w].sending :
              tick[w].batch[j].status = "pending"

OneAtATime ==
    \A w \in Workers : \A j, k \in tick[w].sending : j = k

\* A job that will be claimed once more has an attempt left.
AttemptLeft ==
    /\ \A j \in Jobs : job[j].status \in {"none", "pending"} =>
                          job[j].attempts < MaxAttempts
    /\ \A w \in Workers : \A j \in Locked(w) \ (tick[w].todo \cup tick[w].sending) :
          tick[w].batch[j].status = "pending" =>
             tick[w].batch[j].attempts < MaxAttempts

\* j left in a transaction that has not committed yet.
SentByBatch(j) ==
    \E w \in Workers : j \in Locked(w) /\ tick[w].batch[j].status = "sent"

Counting ==
    \A j \in Jobs :
        /\ sent[j] <= 1 + crashes
        /\ job[j].status \in {"none", "pending"} /\ ~SentByBatch(j) =>
              sent[j] <= crashes

Withdrawal ==
    /\ live <=> canceller = "none"
    /\ canceller = "withdrawn" =>
          \A j \in Reminders : job[j].status \notin {"none", "pending"}
    /\ \A j \in Reminders : job[j].status # "none"
    /\ canceller # "withdrawn" => \A j \in Notices : job[j].status = "none"

CaughtOnly ==
    ~live => \A w \in Workers : tick[w].sending \cap Reminders \subseteq caught

IInv == /\ Typed /\ LocksHold /\ Undecided /\ OneAtATime /\ AttemptLeft
        /\ Counting /\ Withdrawal /\ CaughtOnly

-----------------------------------------------------------------------------
(***************************************************************************)
(* Rows and batches                                                        *)
(***************************************************************************)

\* A claimed batch is a function from jobs to rows.
LEMMA BatchType ==
  ASSUME Typed, NEW w \in Workers
  PROVE  /\ tick[w].batch \in [Locked(w) -> Row]
         /\ Locked(w) \subseteq Jobs
         /\ tick[w].todo \subseteq Jobs /\ tick[w].sending \subseteq Jobs
<1>1. tick[w] \in TickRow
  BY DEF Typed
<1>2. PICK S \in SUBSET Jobs : tick[w].batch \in [S -> Row]
  BY <1>1 DEF TickRow
<1>3. Locked(w) = S
  BY <1>2 DEF Locked
<1> QED BY <1>1, <1>2, <1>3 DEF TickRow

\* What Mark leaves of the transactions: one status differs.
LEMMA MarkFacts ==
  ASSUME Typed, NEW w \in Workers, NEW j \in Locked(w), NEW st \in Status,
         NEW T \in SUBSET Jobs, NEW S \in SUBSET Jobs, Mark(w, j, st, T, S)
  PROVE  /\ tick' \in [Workers -> TickRow]
         /\ \A v \in Workers \ {w} : tick'[v] = tick[v]
         /\ tick'[w].todo = T /\ tick'[w].sending = S
         /\ \A v \in Workers : Locked(v)' = Locked(v)
         /\ tick'[w].batch[j].status = st
         /\ tick'[w].batch[j].attempts = tick[w].batch[j].attempts
         /\ \A k \in Locked(w) \ {j} : tick'[w].batch[k] = tick[w].batch[k]
<1> DEFINE b == [tick[w].batch EXCEPT ![j].status = st]
<1>1. tick[w].batch \in [Locked(w) -> Row] /\ Locked(w) \subseteq Jobs
  BY BatchType
<1>2. tick' = [tick EXCEPT ![w] = [batch |-> b, todo |-> T, sending |-> S]]
  BY DEF Mark
<1>3. tick[w].batch[j] \in Row
  BY <1>1
<1>4. /\ b \in [Locked(w) -> Row] /\ DOMAIN b = Locked(w)
      /\ b[j].status = st /\ b[j].attempts = tick[w].batch[j].attempts
      /\ \A k \in Locked(w) \ {j} : b[k] = tick[w].batch[k]
  BY <1>1, <1>3 DEF Row
<1>5. [batch |-> b, todo |-> T, sending |-> S] \in TickRow
  <2>1. b \in UNION {[D -> Row] : D \in SUBSET Jobs}
    BY <1>1, <1>4
  <2> HIDE DEF b
  <2> QED BY <2>1 DEF TickRow
<1>6. tick'[w] = [batch |-> b, todo |-> T, sending |-> S]
  <2> HIDE DEF b
  <2> QED BY <1>2 DEF Typed
<1>7. \A v \in Workers \ {w} : tick'[v] = tick[v]
  <2> HIDE DEF b
  <2> QED BY <1>2 DEF Typed
<1>8. tick' \in [Workers -> TickRow]
  <2> HIDE DEF b
  <2> QED BY <1>2, <1>5 DEF Typed
<1>9. \A v \in Workers : Locked(v)' = Locked(v)
  <2> HIDE DEF b
  <2> QED BY <1>4, <1>6, <1>7 DEF Locked
<1> HIDE DEF b
<1> QED BY <1>4, <1>6, <1>7, <1>8, <1>9

\* A stamp on one claimed, still undecided job keeps the invariant, when it
\* counts a message that left and decides that job at most.
LEMMA MarkInv ==
  ASSUME IInv, NEW w \in Workers, NEW j \in Locked(w),
         NEW st \in Status \ {"none"},
         NEW T \in SUBSET Jobs, NEW S \in SUBSET Jobs, Mark(w, j, st, T, S),
         UNCHANGED <<job, due, live, canceller, crashes, caught>>,
         tried' \in [Jobs -> 0..(MaxAttempts + 1)],
         sent' = IF st = "sent" THEN [sent EXCEPT ![j] = @ + 1] ELSE sent,
         j \in tick[w].todo \cup tick[w].sending,
         T \cup S \subseteq tick[w].todo \cup tick[w].sending,
         (tick[w].todo \cup tick[w].sending) \ {j} \subseteq T \cup S,
         T \cap S = {}, S \in {{}, {j}},
         j \in T \cup S => st = "pending",
         j \notin T \cup S /\ st = "pending" =>
            tick[w].batch[j].attempts < MaxAttempts,
         ~live => S \cap Reminders \subseteq caught
  PROVE  IInv'
<1>1. /\ tick' \in [Workers -> TickRow]
      /\ \A v \in Workers \ {w} : tick'[v] = tick[v]
      /\ tick'[w].todo = T /\ tick'[w].sending = S
      /\ \A v \in Workers : Locked(v)' = Locked(v)
      /\ tick'[w].batch[j].status = st
      /\ tick'[w].batch[j].attempts = tick[w].batch[j].attempts
      /\ \A k \in Locked(w) \ {j} : tick'[w].batch[k] = tick[w].batch[k]
  BY MarkFacts DEF IInv
<1>2. j \in Jobs /\ sent[j] \in Nat /\ crashes \in Nat
  BY BatchType DEF IInv, Typed
<1>3. Typed'
  BY <1>1, <1>2 DEF IInv, Typed
<1>4. LocksHold'
  BY <1>1 DEF IInv, LocksHold
<1>5. Undecided'
  BY <1>1 DEF IInv, Undecided, LocksHold
<1>9. OneAtATime'
  BY <1>1 DEF IInv, OneAtATime
<1>6. AttemptLeft'
  BY <1>1 DEF IInv, AttemptLeft
<1>7. Counting'
  <2>1. job[j].status = "pending" /\ tick[w].batch[j].status = "pending"
    BY DEF IInv, LocksHold, Undecided
  <2>2. \A v \in Workers \ {w} : j \notin Locked(v)
    BY DEF IInv, LocksHold
  <2>3. ~SentByBatch(j)
    BY <2>1, <2>2 DEF SentByBatch
  <2>4. sent[j] <= crashes
    BY <1>2, <2>1, <2>3 DEF IInv, Counting
  <2>5. st = "sent" => SentByBatch(j)'
    BY <1>1 DEF SentByBatch
  <2>6. \A k \in Jobs \ {j} : SentByBatch(k)' <=> SentByBatch(k)
    BY <1>1 DEF SentByBatch
  <2>7. ASSUME NEW k \in Jobs
        PROVE  /\ sent'[k] <= 1 + crashes'
               /\ job'[k].status \in {"none", "pending"} /\ ~SentByBatch(k)' =>
                     sent'[k] <= crashes'
    <3>1. CASE k = j
      BY <1>2, <2>4, <2>5, <3>1 DEF IInv, Typed
    <3>2. CASE k # j
      <4>1. sent'[k] = sent[k]
        BY <3>2 DEF IInv, Typed
      <4> QED BY <2>6, <3>2, <4>1 DEF IInv, Counting
    <3> QED BY <3>1, <3>2
  <2> QED BY <2>7 DEF Counting
<1>8. Withdrawal' /\ CaughtOnly'
  BY <1>1 DEF IInv, Withdrawal, CaughtOnly
<1> QED BY <1>3, <1>4, <1>5, <1>6, <1>7, <1>8, <1>9 DEF IInv

-----------------------------------------------------------------------------
(***************************************************************************)
(* The steps of a tick                                                     *)
(***************************************************************************)

\* Before the dispatch a job is looked at once more and marked or sent.
LEMMA BeginDispatchInv ==
  ASSUME IInv, NEW w \in Workers, NEW j \in Jobs, BeginDispatch(w, j)
  PROVE  IInv'
<1>1. /\ tick[w].sending = {} /\ j \in tick[w].todo
      /\ UNCHANGED <<job, due, live, canceller, sent, crashes, caught>>
  BY DEF BeginDispatch
<1>2. j \in Locked(w) /\ tick[w].todo \subseteq Jobs
  BY <1>1, BatchType DEF IInv, LocksHold
<1>3. tried' \in [Jobs -> 0..(MaxAttempts + 1)]
  <2>1. tried[j] \in 0..(MaxAttempts + 1) /\ MaxAttempts \in Nat
    BY QueueAssumption DEF IInv, Typed
  <2>2. (IF tried[j] > MaxAttempts THEN tried[j] ELSE tried[j] + 1) \in 0..(MaxAttempts + 1)
    BY <2>1
  <2>3. tried' = [tried EXCEPT ![j] =
                    IF tried[j] > MaxAttempts THEN tried[j] ELSE tried[j] + 1]
    BY DEF BeginDispatch
  <2> QED BY <2>2, <2>3 DEF IInv, Typed
<1>4. CASE Skipped(j)
  <2>1. Mark(w, j, "cancelled", tick[w].todo \ {j}, {})
    BY <1>4 DEF BeginDispatch
  <2>2. "cancelled" \in Status \ {"none"}
    BY DEF Status
  <2>3. tick[w].todo \ {j} \in SUBSET Jobs /\ {} \in SUBSET Jobs
    BY <1>2
  <2>4. /\ (tick[w].todo \ {j}) \cup {} \subseteq tick[w].todo \cup tick[w].sending
        /\ (tick[w].todo \cup tick[w].sending) \ {j} \subseteq (tick[w].todo \ {j}) \cup {}
        /\ (tick[w].todo \ {j}) \cap {} = {} /\ {} \in {{}, {j}}
        /\ j \notin (tick[w].todo \ {j}) \cup {}
        /\ j \in tick[w].todo \cup tick[w].sending
    BY <1>1
  <2> QED BY <1>1, <1>2, <1>3, <2>1, <2>2, <2>3, <2>4, MarkInv
<1>5. CASE ~Skipped(j)
  <2>1. Mark(w, j, "pending", tick[w].todo \ {j}, {j})
    BY <1>5 DEF BeginDispatch
  <2>2. "pending" \in Status \ {"none"}
    BY DEF Status
  <2>3. tick[w].todo \ {j} \in SUBSET Jobs /\ {j} \in SUBSET Jobs
    BY <1>2
  <2>4. /\ (tick[w].todo \ {j}) \cup {j} \subseteq tick[w].todo \cup tick[w].sending
        /\ (tick[w].todo \cup tick[w].sending) \ {j} \subseteq (tick[w].todo \ {j}) \cup {j}
        /\ (tick[w].todo \ {j}) \cap {j} = {} /\ {j} \in {{}, {j}}
        /\ j \in (tick[w].todo \ {j}) \cup {j}
        /\ j \in tick[w].todo \cup tick[w].sending
    BY <1>1
  <2>5. ~live => {j} \cap Reminders \subseteq caught
    BY <1>5 DEF Skipped
  <2> QED BY <1>1, <1>2, <1>3, <2>1, <2>2, <2>3, <2>4, <2>5, MarkInv
<1> QED BY <1>4, <1>5

\* A send counts as sent exactly when it did not raise.
LEMMA SendInv ==
  ASSUME IInv, NEW w \in Workers, NEW j \in Jobs, Send(w, j)
  PROVE  IInv'
<1>1. PICK raised \in BOOLEAN :
         /\ sent' = IF raised THEN sent ELSE [sent EXCEPT ![j] = @ + 1]
         /\ Mark(w, j, IF ~raised THEN "sent"
                       ELSE IF LastAttempt(tick[w].batch[j]) THEN "failed"
                       ELSE "pending",
                 tick[w].todo, {})
  BY DEF Send
<1> DEFINE st == IF ~raised THEN "sent"
                 ELSE IF LastAttempt(tick[w].batch[j]) THEN "failed"
                 ELSE "pending"
<1>2. /\ j \in tick[w].sending
      /\ UNCHANGED <<job, due, live, canceller, crashes, tried, caught>>
  BY DEF Send
<1>3. /\ j \in Locked(w) /\ tick[w].todo \in SUBSET Jobs /\ {} \in SUBSET Jobs
      /\ j \notin tick[w].todo
  BY <1>2, BatchType DEF IInv, LocksHold, Undecided
<1>4. tick[w].sending = {j}
  BY <1>2 DEF IInv, OneAtATime
<1>5. /\ tick[w].todo \cup {} \subseteq tick[w].todo \cup tick[w].sending
      /\ (tick[w].todo \cup tick[w].sending) \ {j} \subseteq tick[w].todo \cup {}
      /\ tick[w].todo \cap {} = {} /\ {} \in {{}, {j}}
      /\ j \notin tick[w].todo \cup {}
      /\ j \in tick[w].todo \cup tick[w].sending
  BY <1>2, <1>3, <1>4
<1>6. st \in Status \ {"none"} /\ (st = "sent" <=> ~raised)
  BY DEF Status
<1>7. st = "pending" => tick[w].batch[j].attempts < MaxAttempts
  <2>1. tick[w].batch[j].attempts \in Nat /\ MaxAttempts \in Nat
    BY <1>3, BatchType, QueueAssumption DEF IInv, Row
  <2> QED BY <2>1 DEF LastAttempt
<1>8. sent' = IF st = "sent" THEN [sent EXCEPT ![j] = @ + 1] ELSE sent
  <2> HIDE DEF st
  <2> QED BY <1>1, <1>6
<1>9. Mark(w, j, st, tick[w].todo, {})
  BY <1>1
<1>10. tried' \in [Jobs -> 0..(MaxAttempts + 1)]
  BY <1>2 DEF IInv, Typed
<1> HIDE DEF st
<1> QED BY <1>2, <1>3, <1>5, <1>6, <1>7, <1>8, <1>9, <1>10, MarkInv

\* A claim takes rows nobody holds, and counts itself on them.
LEMMA ClaimDueJobsInv ==
  ASSUME IInv, NEW w \in Workers, ClaimDueJobs(w)
  PROVE  IInv'
<1> DEFINE ready == {j \in due : job[j].status = "pending" /\ Free(j)}
<1>1. PICK batch \in SUBSET ready :
         tick' = [tick EXCEPT ![w] = [batch   |-> [j \in batch |-> Claimed(job[j])],
                                      todo    |-> batch,
                                      sending |-> {}]]
  BY DEF ClaimDueJobs
<1>2. UNCHANGED <<job, due, live, canceller, sent, crashes, tried, caught>>
  BY DEF ClaimDueJobs
<1> DEFINE rows == [j \in batch |-> Claimed(job[j])]
<1>3. /\ batch \subseteq Jobs
      /\ \A j \in batch : job[j].status = "pending"
      /\ \A j \in batch : \A v \in Workers : j \notin Locked(v)
  BY DEF IInv, Typed, Free
<1>4. \A j \in batch : Claimed(job[j]) \in Row /\ Claimed(job[j]).status = "pending"
  <2> SUFFICES ASSUME NEW j \in batch
               PROVE  Claimed(job[j]) \in Row /\ Claimed(job[j]).status = "pending"
    OBVIOUS
  <2>1. job[j] \in Row /\ job[j].attempts < MaxAttempts
    BY <1>3 DEF IInv, Typed, AttemptLeft
  <2> QED BY <1>3, <2>1, QueueAssumption DEF Claimed, Row
<1>5. [batch |-> rows, todo |-> batch, sending |-> {}] \in TickRow
  <2>1. rows \in UNION {[D -> Row] : D \in SUBSET Jobs}
    BY <1>3, <1>4
  <2> HIDE DEF rows
  <2> QED BY <1>3, <2>1 DEF TickRow
<1>6. /\ tick'[w] = [batch |-> rows, todo |-> batch, sending |-> {}]
      /\ \A v \in Workers \ {w} : tick'[v] = tick[v]
      /\ tick' \in [Workers -> TickRow]
  <2> HIDE DEF rows
  <2>1. tick' = [tick EXCEPT ![w] = [batch |-> rows, todo |-> batch, sending |-> {}]]
    BY <1>1 DEF rows
  <2> QED BY <1>5, <2>1 DEF IInv, Typed
<1>7. /\ Locked(w)' = batch
      /\ \A v \in Workers \ {w} : Locked(v)' = Locked(v)
      /\ tick'[w].todo = batch /\ tick'[w].sending = {}
      /\ \A j \in batch : tick'[w].batch[j].status = "pending"
  BY <1>4, <1>6 DEF Locked
<1>8. Locked(w) = {}
  BY DEF ClaimDueJobs, NoTick, Locked
<1> HIDE DEF rows, ready
<1>9. Typed'
  BY <1>2, <1>6 DEF IInv, Typed
<1>10. LocksHold'
  <2>1. \A v \in Workers : tick'[v].todo \cup tick'[v].sending \subseteq Locked(v)'
    BY <1>6, <1>7 DEF IInv, LocksHold
  <2>2. \A u, v \in Workers : u # v => Locked(u)' \cap Locked(v)' = {}
    BY <1>3, <1>7 DEF IInv, LocksHold
  <2>3. \A v \in Workers : \A j \in Locked(v)' : job'[j].status = "pending"
    BY <1>2, <1>3, <1>7 DEF IInv, LocksHold
  <2> QED BY <2>1, <2>2, <2>3 DEF LocksHold
<1>11. Undecided'
  BY <1>6, <1>7 DEF IInv, Undecided
<1>12. OneAtATime'
  BY <1>6, <1>7 DEF IInv, OneAtATime
<1>13. AttemptLeft'
  BY <1>2, <1>6, <1>7 DEF IInv, AttemptLeft
<1>14. Counting'
  <2>1. \A j \in Jobs : SentByBatch(j)' <=> SentByBatch(j)
    BY <1>6, <1>7, <1>8 DEF SentByBatch
  <2> QED BY <1>2, <2>1 DEF IInv, Counting
<1>15. Withdrawal' /\ CaughtOnly'
  BY <1>2, <1>6, <1>7 DEF IInv, Withdrawal, CaughtOnly
<1> QED BY <1>9, <1>10, <1>11, <1>12, <1>13, <1>14, <1>15 DEF IInv

\* Ending a tick frees its rows; nobody else held them.
LEMMA EndTick ==
  ASSUME Typed, NEW w \in Workers, tick' = [tick EXCEPT ![w] = NoTick]
  PROVE  /\ tick' \in [Workers -> TickRow]
         /\ \A v \in Workers \ {w} : tick'[v] = tick[v] /\ Locked(v)' = Locked(v)
         /\ Locked(w)' = {} /\ tick'[w].todo = {} /\ tick'[w].sending = {}
<1>1. NoTick \in TickRow /\ DOMAIN NoTick.batch = {}
  <2>1. <<>> \in [{} -> Row] /\ DOMAIN <<>> = {}
    BY SMT
  <2> QED BY <2>1 DEF NoTick, TickRow
<1>2. tick'[w] = NoTick /\ \A v \in Workers \ {w} : tick'[v] = tick[v]
  BY DEF Typed
<1>3. tick' \in [Workers -> TickRow]
  BY <1>1 DEF Typed
<1> QED BY <1>1, <1>2, <1>3 DEF Locked, NoTick

\* A committed batch overwrites the rows it locked.
LEMMA CommitTickInv ==
  ASSUME IInv, NEW w \in Workers, CommitTick(w)
  PROVE  IInv'
<1>1. /\ tick[w].todo = {} /\ tick[w].sending = {}
      /\ job' = [j \in Jobs |-> IF j \in Locked(w) THEN tick[w].batch[j] ELSE job[j]]
      /\ tick' = [tick EXCEPT ![w] = NoTick]
      /\ UNCHANGED <<due, live, canceller, sent, crashes, tried, caught>>
  BY DEF CommitTick
<1>2. /\ tick' \in [Workers -> TickRow]
      /\ \A v \in Workers \ {w} : tick'[v] = tick[v] /\ Locked(v)' = Locked(v)
      /\ Locked(w)' = {} /\ tick'[w].todo = {} /\ tick'[w].sending = {}
  BY <1>1, EndTick DEF IInv
<1>3. tick[w].batch \in [Locked(w) -> Row] /\ Locked(w) \subseteq Jobs
  BY BatchType DEF IInv
<1>4. \A j \in Locked(w) : \A v \in Workers \ {w} : j \notin Locked(v)
  BY DEF IInv, LocksHold
<1>5. Typed'
  BY <1>1, <1>2, <1>3 DEF IInv, Typed
<1>6. LocksHold'
  <2>1. \A v \in Workers : tick'[v].todo \cup tick'[v].sending \subseteq Locked(v)'
    BY <1>2 DEF IInv, LocksHold
  <2>2. \A u, v \in Workers : u # v => Locked(u)' \cap Locked(v)' = {}
    BY <1>2 DEF IInv, LocksHold
  <2>3. ASSUME NEW v \in Workers, NEW j \in Locked(v)'
        PROVE  job'[j].status = "pending"
    <3>1. v # w /\ j \in Locked(v)
      BY <1>2, <2>3
    <3>2. j \in Jobs /\ j \notin Locked(w) /\ job[j].status = "pending"
      BY <3>1, <1>4, BatchType DEF IInv, LocksHold
    <3> QED BY <1>1, <3>2
  <2> QED BY <2>1, <2>2, <2>3 DEF LocksHold
<1>7. Undecided' /\ OneAtATime'
  BY <1>2 DEF IInv, Undecided, OneAtATime
<1>8. AttemptLeft'
  <2>1. ASSUME NEW j \in Jobs, job'[j].status \in {"none", "pending"}
        PROVE  job'[j].attempts < MaxAttempts
    <3>1. CASE j \in Locked(w)
      BY <1>1, <2>1, <3>1 DEF IInv, Undecided, AttemptLeft
    <3>2. CASE j \notin Locked(w)
      BY <1>1, <2>1, <3>2 DEF IInv, AttemptLeft
    <3> QED BY <3>1, <3>2
  <2>2. \A v \in Workers : \A j \in Locked(v)' \ (tick'[v].todo \cup tick'[v].sending) :
           tick'[v].batch[j].status = "pending" =>
              tick'[v].batch[j].attempts < MaxAttempts
    BY <1>2 DEF IInv, AttemptLeft
  <2> QED BY <2>1, <2>2 DEF AttemptLeft
<1>9. Counting'
  <2>1. ASSUME NEW j \in Jobs
        PROVE  /\ sent'[j] <= 1 + crashes'
               /\ job'[j].status \in {"none", "pending"} /\ ~SentByBatch(j)' =>
                     sent'[j] <= crashes'
    <3>1. CASE j \in Locked(w)
      <4>1. job[j].status = "pending" /\ job'[j] = tick[w].batch[j]
        BY <1>1, <3>1 DEF IInv, LocksHold
      <4>2. tick[w].batch[j].status # "sent" => ~SentByBatch(j)
        BY <1>4, <3>1 DEF SentByBatch
      <4> QED BY <1>1, <4>1, <4>2 DEF IInv, Counting
    <3>2. CASE j \notin Locked(w)
      <4>1. SentByBatch(j)' <=> SentByBatch(j)
        BY <1>2, <3>2 DEF SentByBatch
      <4> QED BY <1>1, <3>2, <4>1 DEF IInv, Counting
    <3> QED BY <3>1, <3>2
  <2> QED BY <2>1 DEF Counting
<1>10. Withdrawal'
  <2>1. ASSUME NEW j \in Reminders
        PROVE  /\ canceller' = "withdrawn" => job'[j].status \notin {"none", "pending"}
               /\ job'[j].status # "none"
    <3>1. j \in Jobs
      BY QueueAssumption
    <3>2. CASE j \in Locked(w)
      BY <1>1, <3>1, <3>2 DEF IInv, LocksHold, Undecided, Withdrawal
    <3>3. CASE j \notin Locked(w)
      BY <1>1, <3>1, <3>3 DEF IInv, Withdrawal
    <3> QED BY <3>2, <3>3
  <2>2. ASSUME canceller' # "withdrawn", NEW j \in Notices
        PROVE  job'[j].status = "none"
    <3>1. j \in Jobs /\ job[j].status = "none"
      BY <1>1, <2>2, QueueAssumption DEF IInv, Withdrawal
    <3>2. j \notin Locked(w)
      BY <3>1 DEF IInv, LocksHold
    <3> QED BY <1>1, <3>1, <3>2
  <2> QED BY <1>1, <2>1, <2>2 DEF IInv, Withdrawal
<1>11. CaughtOnly'
  BY <1>1, <1>2 DEF IInv, CaughtOnly
<1> QED BY <1>5, <1>6, <1>7, <1>8, <1>9, <1>10, <1>11 DEF IInv

\* A rollback leaves the table as it was, and one more copy may be sent.
LEMMA RollbackTickInv ==
  ASSUME IInv, NEW w \in Workers, RollbackTick(w)
  PROVE  IInv'
<1>1. /\ tick' = [tick EXCEPT ![w] = NoTick]
      /\ crashes' = crashes + 1 /\ crashes < MaxCrashes
      /\ UNCHANGED <<job, due, live, canceller, sent, tried, caught>>
  BY DEF RollbackTick
<1>2. /\ tick' \in [Workers -> TickRow]
      /\ \A v \in Workers \ {w} : tick'[v] = tick[v] /\ Locked(v)' = Locked(v)
      /\ Locked(w)' = {} /\ tick'[w].todo = {} /\ tick'[w].sending = {}
  BY <1>1, EndTick DEF IInv
<1>3. Typed'
  BY <1>1, <1>2, QueueAssumption DEF IInv, Typed
<1>4. LocksHold'
  BY <1>1, <1>2 DEF IInv, LocksHold
<1>5. Undecided' /\ OneAtATime'
  BY <1>2 DEF IInv, Undecided, OneAtATime
<1>6. AttemptLeft'
  BY <1>1, <1>2 DEF IInv, AttemptLeft
<1>7. Counting'
  <2>1. \A j \in Jobs : sent[j] \in Nat /\ crashes \in Nat
    BY QueueAssumption DEF IInv, Typed
  <2> QED BY <1>1, <2>1 DEF IInv, Counting
<1>8. Withdrawal' /\ CaughtOnly'
  BY <1>1, <1>2 DEF IInv, Withdrawal, CaughtOnly
<1> QED BY <1>3, <1>4, <1>5, <1>6, <1>7, <1>8 DEF IInv

-----------------------------------------------------------------------------
(***************************************************************************)
(* The cancellation                                                        *)
(***************************************************************************)

\* The reminders being sent when the appointment is cancelled are recorded.
LEMMA CancelAppointmentInv ==
  ASSUME IInv, CancelAppointment
  PROVE  IInv'
<1>1. /\ live /\ ~live' /\ canceller' = "withdrawing"
      /\ caught' = Reminders \cap UNION {tick[w].sending : w \in Workers}
      /\ UNCHANGED <<job, due, tick, sent, crashes, tried>>
  BY DEF CancelAppointment
<1>2. \A w \in Workers : Locked(w)' = Locked(w)
  BY <1>1 DEF Locked
<1>3. live' \in BOOLEAN
  BY DEF CancelAppointment
<1>4. Typed'
  BY <1>1, <1>3 DEF IInv, Typed
<1>5. LocksHold' /\ Undecided' /\ OneAtATime' /\ AttemptLeft'
  BY <1>1, <1>2 DEF IInv, LocksHold, Undecided, OneAtATime, AttemptLeft
<1>6. \A j \in Jobs : SentByBatch(j)' <=> SentByBatch(j)
  BY <1>1, <1>2 DEF SentByBatch
<1>7. Counting'
  BY <1>1, <1>6 DEF IInv, Counting
<1>8. Withdrawal' /\ CaughtOnly'
  BY <1>1 DEF IInv, Withdrawal, CaughtOnly
<1> QED BY <1>4, <1>5, <1>7, <1>8 DEF IInv

\* The withdrawal meets no claimed row: those are pending, and it waited for
\* the pending ones to be free.
LEMMA EnqueueForCancellationInv ==
  ASSUME IInv, EnqueueForCancellation
  PROVE  IInv'
<1> DEFINE pending == {j \in Jobs : job[j].status = "pending"}
<1>1. /\ canceller = "withdrawing" /\ canceller' = "withdrawn"
      /\ NoneHeld(pending)
      /\ job' = [j \in Jobs |->
                   IF j \in pending THEN [job[j] EXCEPT !.status = "cancelled"]
                   ELSE IF j \in Notices THEN [job[j] EXCEPT !.status = "pending"]
                   ELSE job[j]]
      /\ UNCHANGED <<due, live, tick, sent, crashes, tried, caught>>
  BY DEF EnqueueForCancellation
<1>2. \A w \in Workers : Locked(w)' = {} /\ Locked(w) = {}
  <2>1. \A w \in Workers : Locked(w) \subseteq pending
    BY BatchType DEF IInv, LocksHold
  <2>2. \A w \in Workers : Locked(w) = {}
    BY <1>1, <2>1 DEF NoneHeld, Free
  <2> QED BY <1>1, <2>2 DEF Locked
<1>3. \A j \in Jobs : /\ job'[j] \in Row
                      /\ job'[j].attempts = job[j].attempts
                      /\ job'[j].status = IF j \in pending THEN "cancelled"
                                          ELSE IF j \in Notices THEN "pending"
                                          ELSE job[j].status
  <2> SUFFICES ASSUME NEW j \in Jobs
               PROVE  /\ job'[j] \in Row
                      /\ job'[j].attempts = job[j].attempts
                      /\ job'[j].status = IF j \in pending THEN "cancelled"
                                          ELSE IF j \in Notices THEN "pending"
                                          ELSE job[j].status
    OBVIOUS
  <2>1. job[j] \in Row
    BY DEF IInv, Typed
  <2> HIDE DEF pending
  <2> QED BY <1>1, <2>1 DEF Row, Status
<1>4. Typed'
  <2>1. job' \in [Jobs -> Row]
    <3>1. job' = [j \in Jobs |-> job'[j]]
      BY <1>1
    <3> QED BY <1>3, <3>1
  <2> QED BY <1>1, <2>1 DEF IInv, Typed
<1>5. LocksHold'
  BY <1>1, <1>2 DEF IInv, LocksHold
<1>6. Undecided' /\ OneAtATime'
  BY <1>1, <1>2 DEF IInv, Undecided, OneAtATime, LocksHold
<1>7. AttemptLeft'
  <2>1. \A j \in Jobs : job'[j].status \in {"none", "pending"} =>
                           job[j].status \in {"none", "pending"}
    BY <1>1, <1>3, QueueAssumption DEF IInv, Withdrawal
  <2>2. \A j \in Jobs : job'[j].status \in {"none", "pending"} =>
                           job'[j].attempts < MaxAttempts
    BY <1>3, <2>1 DEF IInv, AttemptLeft
  <2> QED BY <1>2, <2>2 DEF AttemptLeft
<1>8. Counting'
  <2>1. ASSUME NEW j \in Jobs
        PROVE  /\ sent'[j] <= 1 + crashes'
               /\ job'[j].status \in {"none", "pending"} => sent'[j] <= crashes'
    <3>1. ~SentByBatch(j)
      BY <1>2 DEF SentByBatch
    <3>2. job'[j].status \in {"none", "pending"} => job[j].status \in {"none", "pending"}
      BY <1>1, <1>3, QueueAssumption DEF IInv, Withdrawal
    <3> QED BY <1>1, <3>1, <3>2 DEF IInv, Counting
  <2> QED BY <2>1 DEF Counting
<1>9. Withdrawal'
  <2>1. ASSUME NEW j \in Reminders
        PROVE  job'[j].status \notin {"none", "pending"}
    <3>1. j \in Jobs /\ j \notin Notices /\ job[j].status # "none"
      BY QueueAssumption DEF IInv, Withdrawal
    <3> QED BY <1>3, <3>1
  <2> QED BY <1>1, <2>1 DEF IInv, Withdrawal
<1>10. CaughtOnly'
  BY <1>1 DEF IInv, CaughtOnly
<1> QED BY <1>4, <1>5, <1>6, <1>7, <1>8, <1>9, <1>10 DEF IInv

-----------------------------------------------------------------------------
(***************************************************************************)
(* The theorems                                                            *)
(***************************************************************************)

\* The empty queue with no tick running satisfies the invariant.
LEMMA InitInv == Init => IInv
<1> SUFFICES ASSUME Init PROVE IInv
  OBVIOUS
<1>1. NoTick \in TickRow /\ DOMAIN NoTick.batch = {}
  <2>1. <<>> \in [{} -> Row] /\ DOMAIN <<>> = {}
    BY SMT
  <2> QED BY <2>1 DEF NoTick, TickRow
<1>2. \A w \in Workers : tick[w] = NoTick /\ Locked(w) = {}
  BY <1>1 DEF Init, Locked
<1>3. \A w \in Workers : tick[w].todo = {} /\ tick[w].sending = {}
  BY <1>2 DEF NoTick
<1>4. MaxAttempts \in Nat \ {0} /\ MaxCrashes \in Nat
      /\ Reminders \subseteq Jobs /\ Notices \subseteq Jobs \ Reminders
  BY QueueAssumption
<1>5. \A j \in Jobs : /\ job[j] \in Row /\ job[j].attempts = 0
                      /\ job[j].status = IF j \in Notices THEN "none" ELSE "pending"
  BY <1>4 DEF Init, Row, Status
<1>6. job = [j \in Jobs |-> job[j]]
  BY DEF Init
<1>7. Typed
  <2>1. job \in [Jobs -> Row]
    BY <1>5, <1>6
  <2>2. tick \in [Workers -> TickRow]
    BY <1>1 DEF Init
  <2>3. sent \in [Jobs -> Nat] /\ tried \in [Jobs -> 0..(MaxAttempts + 1)]
    BY <1>4 DEF Init
  <2> QED BY <1>4, <2>1, <2>2, <2>3 DEF Init, Typed
<1>8. LocksHold /\ Undecided /\ OneAtATime
  BY <1>2, <1>3 DEF LocksHold, Undecided, OneAtATime
<1>9. AttemptLeft
  BY <1>2, <1>4, <1>5 DEF AttemptLeft
<1>10. Counting
  BY DEF Init, Counting
<1>11. Withdrawal /\ CaughtOnly
  BY <1>4, <1>5 DEF Init, Withdrawal, CaughtOnly
<1> QED BY <1>7, <1>8, <1>9, <1>10, <1>11 DEF IInv

\* Every step keeps the invariant, action by action.
LEMMA NextInv == IInv /\ [Next]_vars => IInv'
<1> SUFFICES ASSUME IInv, [Next]_vars PROVE IInv'
  OBVIOUS
<1>1. ASSUME NEW j \in Jobs, FallDue(j) PROVE IInv'
  <2>1. /\ due' \subseteq Jobs
        /\ UNCHANGED <<job, live, canceller, tick, sent, crashes, tried, caught>>
    BY <1>1 DEF FallDue, IInv, Typed
  <2>2. Typed'
    BY <2>1 DEF IInv, Typed
  <2> QED BY <2>1, <2>2 DEF IInv, LocksHold, Undecided, OneAtATime, AttemptLeft,
             Counting, SentByBatch, Withdrawal, CaughtOnly, Locked
<1>2. ASSUME NEW w \in Workers, Tick(w) PROVE IInv'
  BY <1>2, ClaimDueJobsInv, BeginDispatchInv, SendInv, CommitTickInv DEF Tick
<1>3. ASSUME NEW w \in Workers, RollbackTick(w) PROVE IInv'
  BY <1>3, RollbackTickInv
<1>4. CASE UNCHANGED vars
  BY <1>4 DEF vars, IInv, Typed, LocksHold, Undecided, OneAtATime, AttemptLeft,
     Counting, SentByBatch, Withdrawal, CaughtOnly, Locked
<1> QED BY <1>1, <1>2, <1>3, <1>4, CancelAppointmentInv, EnqueueForCancellationInv
    DEF Next

\* In every reachable state the row locks, the counts and the withdrawal agree.
THEOREM QueueInvariant == Spec => []IInv
<1> QED BY InitInv, NextInv, PTL DEF Spec

\* No row counts more than _MAX_ATTEMPTS claims, and a transaction only
\* dispatches what it locked.
THEOREM TypesHold == Spec => []TypeOK
<1>1. IInv => TypeOK
  <2> SUFFICES ASSUME IInv PROVE TypeOK
    OBVIOUS
  <2>1. \A w \in Workers : Locked(w) \subseteq Jobs /\ tick[w].todo \subseteq Locked(w)
                           /\ tick[w].sending \subseteq Locked(w)
    BY BatchType DEF IInv, LocksHold
  <2> QED BY <2>1 DEF IInv, Typed, TypeOK, Row
<1> QED BY <1>1, QueueInvariant, PTL

\* However many loops share the queue, every copy of a message beyond the
\* first was paid for by a tick that was rolled back.
THEOREM SentOncePerCrashHolds == Spec => []SentOncePerCrash
<1>1. IInv => SentOncePerCrash
  BY DEF IInv, Counting, SentOncePerCrash
<1> QED BY <1>1, QueueInvariant, PTL

\* Only Send moves the counts of messages sent, and it sends a claimed job.
LEMMA OnlySendSends ==
  ASSUME IInv, [Next]_vars, NEW j \in Jobs, sent'[j] # sent[j]
  PROVE  \E w \in Workers : j \in tick[w].sending
<1>1. ASSUME NEW w \in Workers, NEW k \in Jobs, Send(w, k)
      PROVE  \E v \in Workers : j \in tick[v].sending
  <2>1. j = k
    BY <1>1 DEF Send, IInv, Typed
  <2> QED BY <1>1, <2>1 DEF Send
<1>2. UNCHANGED sent \/ \E w \in Workers, k \in Jobs : Send(w, k)
  BY DEF Next, Tick, FallDue, ClaimDueJobs, BeginDispatch, CommitTick,
     RollbackTick, CancelAppointment, EnqueueForCancellation, vars
<1> QED BY <1>1, <1>2

\* After the withdrawal no reminder leaves, for a claimed row is pending and
\* the withdrawal left no reminder pending.
THEOREM RemindersStopHolds == Spec => RemindersStop
<1>1. IInv /\ [Next]_vars =>
        [canceller = "withdrawn" => \A j \in Reminders : sent'[j] = sent[j]]_vars
  <2> SUFFICES ASSUME IInv, [Next]_vars, canceller = "withdrawn", NEW j \in Reminders
               PROVE  sent'[j] = sent[j]
    OBVIOUS
  <2>1. j \in Jobs /\ job[j].status # "pending"
    BY QueueAssumption DEF IInv, Withdrawal
  <2>2. \A w \in Workers : j \notin tick[w].sending
    BY <2>1 DEF IInv, LocksHold
  <2> QED BY <2>1, <2>2, OnlySendSends
<1> QED BY <1>1, QueueInvariant, PTL DEF Spec, RemindersStop

\* Between the two transactions of a cancellation only a reminder already
\* past the look at the appointment leaves.
THEOREM OnlyCaughtLeaveHolds == Spec => OnlyCaughtLeave
<1>1. IInv /\ [Next]_vars =>
        [~live => \A j \in Reminders : sent'[j] > sent[j] => j \in caught]_vars
  <2> SUFFICES ASSUME IInv, [Next]_vars, ~live, NEW j \in Reminders, sent'[j] > sent[j]
               PROVE  j \in caught
    OBVIOUS
  <2>1. j \in Jobs
    BY QueueAssumption
  <2>2. sent[j] \in Nat
    BY <2>1 DEF IInv, Typed
  <2>3. sent'[j] # sent[j]
    BY <2>2
  <2> QED BY <2>1, <2>3, OnlySendSends DEF IInv, CaughtOnly
<1> QED BY <1>1, QueueInvariant, PTL DEF Spec, OnlyCaughtLeave

-----------------------------------------------------------------------------
(***************************************************************************)
(* What a customer gets of an invoice: nobody is reminded or charged       *)
(* twice, for any number of processes, installments, days and restarts.    *)
(*                                                                         *)
(* OnceUnlessShared only counts mails and fees; what keeps the count is    *)
(* on the rows.  A pass holds an installment when it has inserted its row  *)
(* or read the committed one.  Unless a row is shared one pass at most     *)
(* holds it (Alone), so nobody stamps the row under the pass, what the     *)
(* pass sees of it stays true (RowOK), and a reminder it has mailed was    *)
(* neither on the row nor in its own stamps before (PassOK).               *)
(***************************************************************************)
PassRow == [exists : BOOLEAN, stamped : SUBSET Slots, fee : BOOLEAN]

Pass == [step : {"none", "next", "insert", "send", "stamp", "close", "fee"},
         todo : SUBSET Pairs, at : Pairs \cup {<<>>}, sees : PassRow,
         mine : [Installments -> PassRow], mailed : SUBSET Pairs,
         charged : SUBSET Installments, seen : SUBSET Installments]

InHand(p, i) == p.at # <<>> /\ p.at[1] = i
Holds(p, i) == p.mine[i].exists \/ i \in p.seen

\* A pass by itself: what it mailed or charged is among its own stamps, what
\* it is about to mail is not, and what it has not come to it does not hold.
PassOK(p) ==
    /\ p \in Pass
    /\ p.step \notin {"none", "next"} => p.at \in Pairs
    /\ \A i \in Installments :
          /\ p.mine[i].stamped # {} => p.mine[i].exists
          /\ i \in p.charged => Late \in p.mine[i].stamped
          /\ InHand(p, i) /\ p.step # "insert" =>
                Holds(p, i) /\ p.sees.exists /\ p.mine[i].stamped \subseteq p.sees.stamped
    /\ \A q \in p.mailed :
          q[2] \in p.mine[q[1]].stamped \/ (p.step = "stamp" /\ p.at = q)
    /\ \A q \in p.todo : ~InHand(p, q[1]) => ~Holds(p, q[1])
    /\ p.step = "insert" => ~Holds(p, p.at[1])
    /\ p.step \in {"send", "stamp", "close"} => p.at[2] \notin p.sees.stamped
    /\ p.step = "fee" =>
          p.at[2] = Late /\ Late \in p.mine[p.at[1]].stamped /\ p.at[1] \notin p.charged

\* A pass beside the committed rows, of which those in s are shared.
RowOK(p, s) ==
    /\ \A i \in Installments :
          /\ i \in p.seen => row[i].exists
          /\ p.mine[i].exists /\ i \notin p.seen => ~row[i].exists
          /\ InHand(p, i) /\ p.step # "insert" /\ i \notin s =>
                row[i].stamped \subseteq p.sees.stamped
          /\ i \in p.charged /\ i \notin s => fees[i] = 0
    /\ \A q \in p.mailed : q[1] \notin s => kept[q] = 0
    /\ p.step = "fee" /\ p.at[1] \notin s => fees[p.at[1]] = 0

\* Two passes never write one row, and hold none together that is not shared.
Apart(p, q, s) ==
    \A i \in Installments :
        /\ ~(p.mine[i].exists /\ q.mine[i].exists)
        /\ i \notin s => ~(Holds(p, i) /\ Holds(q, i))

\* The committed rows account for every mail and every fee.
Accounted ==
    /\ row \in [Installments -> PassRow]
    /\ kept \in [Pairs -> Nat] /\ fees \in [Installments -> Nat]
    /\ shared \subseteq Installments
    /\ \A i \in Installments :
          /\ row[i].stamped # {} => row[i].exists
          /\ fees[i] > 0 => Late \in row[i].stamped
          /\ i \notin shared => fees[i] <= 1
    /\ \A q \in Pairs :
          /\ kept[q] > 0 => q[2] \in row[q[1]].stamped
          /\ q[1] \notin shared => kept[q] <= 1

Passes ==
    /\ pass \in [Processes -> Pass]
    /\ \A w \in Processes : PassOK(pass[w]) /\ RowOK(pass[w], shared)

Alone == \A v, w \in Processes : v # w => Apart(pass[v], pass[w], shared)

Clock ==
    /\ day \in 1..MaxDay /\ restarts \in 0..MaxRestarts
    /\ unpaid \subseteq Installments /\ linked \in BOOLEAN /\ ran \subseteq Processes

PassInv == Clock /\ Accounted /\ Passes /\ Alone
-----------------------------------------------------------------------------
\* A pair is an installment and a slot, and never the empty tuple.
LEMMA PairParts ==
  ASSUME NEW q \in Pairs
  PROVE  /\ q[1] \in Installments /\ q[2] \in Slots
         /\ q[2] \in DOMAIN Target[q[1]] /\ q = <<q[1], q[2]>> /\ q # <<>>
<1>1. q \in Installments \X Slots /\ q[2] \in DOMAIN Target[q[1]]
  BY DEF Pairs
<1>2. q = <<q[1], q[2]>>
  BY <1>1
<1>3. q # <<>>
  BY <1>2
<1> QED BY <1>1, <1>2, <1>3

\* Rows without a stamp, and the pass that is none.
LEMMA Blanks == None \in PassRow /\ Blank \in PassRow /\ NoPass \in Pass
  BY DEF None, Blank, NoPass, PassRow, Pass

\* With no rows and no passes the invariant holds.
LEMMA PassInitInv == PassInit => PassInv
<1> SUFFICES ASSUME PassInit PROVE PassInv
  OBVIOUS
<1>1. Clock
  BY ReminderAssumption DEF PassInit, Clock
<1>2. Accounted
  BY Blanks DEF PassInit, Accounted, None
<1>3. Passes
  BY Blanks DEF PassInit, Passes, PassOK, RowOK, NoPass, InHand, Holds, None
<1>4. Alone
  BY DEF PassInit, Alone, Apart, NoPass, Holds, None
<1> QED BY <1>1, <1>2, <1>3, <1>4 DEF PassInv

\* A pass that changes by itself, and perhaps finds a row shared, leaves the
\* rows and the other passes as they were.
LEMMA OwnStep ==
  ASSUME PassInv, NEW w \in Processes, NEW n, pass' = [pass EXCEPT ![w] = n],
         NEW s, shared' = s, shared \subseteq s, s \subseteq Installments,
         UNCHANGED <<row, kept, fees>>, Clock',
         PassOK(n), RowOK(n, s),
         \A v \in Processes \ {w} : Apart(n, pass[v], s)
  PROVE  PassInv'
<1>1. pass \in [Processes -> Pass]
  BY DEF PassInv, Passes
<1>2. n \in Pass
  BY DEF PassOK
<1>3. pass' \in [Processes -> Pass] /\ \A v \in Processes : pass'[v] = IF v = w THEN n ELSE pass[v]
  BY <1>1, <1>2
<1>4. Accounted'
  BY DEF PassInv, Accounted
<1>5. ASSUME NEW v \in Processes
      PROVE  PassOK(pass[v])' /\ RowOK(pass[v], shared)'
  <2>1. CASE v = w
    <3>1. pass'[v] = n
      BY <2>1, <1>3
    <3> QED BY <3>1 DEF RowOK, PassOK, InHand, Holds
  <2>2. CASE v # w
    <3>1. PassOK(pass[v]) /\ RowOK(pass[v], shared) /\ pass'[v] = pass[v]
      BY <2>2, <1>3 DEF PassInv, Passes
    <3>2. RowOK(pass[v], shared)'
      BY <3>1 DEF RowOK, InHand
    <3>3. PassOK(pass[v])'
      BY <3>1 DEF PassOK, InHand, Holds
    <3> QED BY <3>2, <3>3
  <2> QED BY <2>1, <2>2
<1>6. Alone'
  <2>1. ASSUME NEW u \in Processes, NEW v \in Processes, u # v
        PROVE  Apart(pass[u], pass[v], shared)'
    <3>1. CASE u = w
      BY <3>1, <2>1, <1>3 DEF Apart, Holds
    <3>2. CASE v = w
      BY <3>2, <2>1, <1>3 DEF Apart, Holds
    <3>3. CASE u # w /\ v # w
      <4>1. Apart(pass[u], pass[v], shared) /\ pass'[u] = pass[u] /\ pass'[v] = pass[v]
        BY <3>3, <2>1, <1>3 DEF PassInv, Alone
      <4> QED BY <4>1 DEF Apart, Holds
    <3> QED BY <3>1, <3>2, <3>3
  <2> QED BY <2>1 DEF Alone
<1> QED BY <1>3, <1>4, <1>5, <1>6 DEF PassInv, Passes
\* What the invariant says of one pass and of another beside it.
LEMMA PassFacts ==
  ASSUME PassInv, NEW w \in Processes
  PROVE  /\ PassOK(pass[w]) /\ RowOK(pass[w], shared) /\ pass[w] \in Pass
         /\ shared \subseteq Installments
         /\ \A v \in Processes \ {w} :
               pass[v] \in Pass /\ RowOK(pass[v], shared) /\ Apart(pass[w], pass[v], shared)
  BY DEF PassInv, Passes, PassOK, Alone, Accounted

\* A pass that is rolled back holds nothing.
LEMMA ResetInv ==
  ASSUME PassInv, NEW w \in Processes, Turns(w, NoPass), Clock',
         UNCHANGED <<row, kept, fees, shared>>
  PROVE  PassInv'
<1>1. PassOK(NoPass)
  BY Blanks DEF PassOK, NoPass, None, InHand, Holds
<1>2. RowOK(NoPass, shared)
  BY DEF RowOK, NoPass, None, InHand
<1>3. \A v \in Processes \ {w} : Apart(NoPass, pass[v], shared)
  BY DEF Apart, NoPass, None, Holds
<1>4. PICK s : s = shared
  OBVIOUS
<1>5. PassInv'
  BY <1>1, <1>2, <1>3, <1>4, PassFacts, OwnStep DEF Turns
<1> QED BY <1>5

\* A pass that begins holds nothing yet.
LEMMA BeginInv ==
  ASSUME PassInv, NEW w \in Processes, BeginPass(w)
  PROVE  PassInv'
<1> DEFINE todo == {p \in Pairs : p[1] \in unpaid /\ Target[p[1]][p[2]] = day}
<1>1. PICK n : n = [NoPass EXCEPT !.step = "next", !.todo = todo]
  OBVIOUS
<1>2. /\ n \in Pass /\ n.step = "next" /\ n.todo \subseteq Pairs /\ n.at = <<>>
      /\ n.mailed = {} /\ n.charged = {} /\ n.seen = {}
      /\ \A i \in Installments : n.mine[i] = None
  BY <1>1, Blanks DEF NoPass, Pass
<1>3. PassOK(n)
  <2>1. \A q \in n.todo : q[1] \in Installments
    BY <1>2, PairParts
  <2>2. \A i \in Installments : ~Holds(n, i) /\ ~InHand(n, i) /\ n.mine[i].stamped = {}
    BY <1>2 DEF None, Holds, InHand
  <2> QED BY <1>2, <2>1, <2>2 DEF PassOK
<1>4. PICK s : s = shared
  OBVIOUS
<1>5. RowOK(n, s)
  BY <1>2 DEF RowOK, None, InHand
<1>6. \A v \in Processes \ {w} : Apart(n, pass[v], s)
  BY <1>2 DEF Apart, None, Holds
<1>7. Clock'
  BY DEF PassInv, Clock, BeginPass
<1>8. pass' = [pass EXCEPT ![w] = n] /\ UNCHANGED <<row, kept, fees, shared>>
  BY <1>1 DEF BeginPass, Turns
<1> QED BY <1>3, <1>4, <1>5, <1>6, <1>7, <1>8, PassFacts, OwnStep

\* The installments come one after the other: of those still to come the pass
\* holds none, and of the one in hand it goes on seeing what it saw.
LEMMA TakeUpInv ==
  ASSUME PassInv, NEW w \in Processes, TakeUp(w)
  PROVE  PassInv'
<1>1. PICK p : p = pass[w]
  OBVIOUS
<1>2. PICK q \in Upcoming(p) :
         LET inHand == p.at # <<>> /\ p.at[1] = q[1]
             r == IF inHand THEN p.sees ELSE row[q[1]]
         IN  /\ pass' = [pass EXCEPT ![w] =
                   [p EXCEPT !.todo = @ \ {q}, !.at = q, !.sees = r,
                      !.seen = IF inHand \/ ~r.exists THEN @ ELSE @ \cup {q[1]},
                      !.step = IF r.exists THEN Judged(q[2], r) ELSE "insert"]]
             /\ shared' = IF /\ ~inHand /\ r.exists
                             /\ \E v \in Processes \ {w} : q[1] \in pass[v].seen
                          THEN shared \cup {q[1]} ELSE shared
  BY <1>1 DEF TakeUp, Turns
<1>3. /\ PassOK(p) /\ RowOK(p, shared) /\ p \in Pass /\ p.step = "next"
      /\ UNCHANGED <<row, kept, fees>>
  BY <1>1, PassFacts DEF TakeUp
<1>4. /\ q \in p.todo /\ q \in Pairs
      /\ \A t \in p.todo : InHand(p, t[1]) => InHand(p, q[1]) /\ q[1] = t[1]
  BY <1>3 DEF Upcoming, InHand, Pass
<1>5. PICK i : i = q[1]
  OBVIOUS
<1>6. i \in Installments /\ q # <<>> /\ q[2] \in Slots /\ row[i] \in PassRow
  BY <1>4, <1>5, PairParts DEF PassInv, Accounted
<1>7. PICK r : r = IF InHand(p, i) THEN p.sees ELSE row[i]
  OBVIOUS
<1>8. /\ r \in PassRow
      /\ InHand(p, i) => r.exists /\ Holds(p, i) /\ p.mine[i].stamped \subseteq r.stamped
      /\ ~InHand(p, i) => r = row[i] /\ ~Holds(p, i)
  <2>1. r \in PassRow
    BY <1>3, <1>6, <1>7 DEF Pass
  <2>2. InHand(p, i) => r.exists /\ Holds(p, i) /\ p.mine[i].stamped \subseteq r.stamped
    BY <1>3, <1>6, <1>7 DEF PassOK
  <2>3. ~InHand(p, i) => r = row[i] /\ ~Holds(p, i)
    BY <1>3, <1>4, <1>5, <1>7 DEF PassOK
  <2> QED BY <2>1, <2>2, <2>3
<1>9. PICK seen : seen = IF InHand(p, i) \/ ~r.exists THEN p.seen ELSE p.seen \cup {i}
  OBVIOUS
<1>10. PICK step : step = IF r.exists THEN Judged(q[2], r) ELSE "insert"
  OBVIOUS
<1>11. step \in {"next", "send", "close", "insert"} /\ (step = "insert" <=> ~r.exists)
       /\ (step \in {"send", "close"} => q[2] \notin r.stamped)
  BY <1>10 DEF Judged
<1>12. PICK n : n = [p EXCEPT !.todo = @ \ {q}, !.at = q, !.sees = r,
                              !.seen = seen, !.step = step]
  OBVIOUS
<1>13. pass' = [pass EXCEPT ![w] = n]
  BY <1>2, <1>5, <1>7, <1>9, <1>10, <1>12 DEF InHand
<1>14. /\ n \in Pass /\ n.step = step /\ n.todo = p.todo \ {q} /\ n.at = q /\ n.sees = r
       /\ n.seen = seen /\ n.mine = p.mine /\ n.mailed = p.mailed /\ n.charged = p.charged
  <2>1. seen \in SUBSET Installments
    BY <1>3, <1>6, <1>9 DEF Pass
  <2> QED BY <2>1, <1>3, <1>4, <1>8, <1>11, <1>12 DEF Pass
<1>15. \A j \in Installments : InHand(n, j) <=> j = i
  BY <1>5, <1>6, <1>14 DEF InHand
<1>16. \A j \in Installments : j # i => (Holds(n, j) <=> Holds(p, j))
  BY <1>9, <1>14 DEF Holds
<1>17. /\ step # "insert" => Holds(n, i)
       /\ step = "insert" => ~Holds(n, i)
  BY <1>8, <1>9, <1>11, <1>14 DEF Holds
<1>18. PassOK(n)
  <2>1. ASSUME NEW j \in Installments
        PROVE  /\ n.mine[j].stamped # {} => n.mine[j].exists
               /\ j \in n.charged => Late \in n.mine[j].stamped
    BY <1>3, <1>14 DEF PassOK
  <2>2. ASSUME NEW j \in Installments, InHand(n, j), n.step # "insert"
        PROVE  Holds(n, j) /\ n.sees.exists /\ n.mine[j].stamped \subseteq n.sees.stamped
    <3>1. j = i /\ Holds(n, i) /\ r.exists
      BY <2>2, <1>11, <1>14, <1>15, <1>17
    <3>2. n.mine[i].stamped \subseteq r.stamped
      BY <1>3, <1>6, <1>8, <1>14 DEF PassOK, Holds
    <3> QED BY <3>1, <3>2, <1>14
  <2>3. \A t \in n.mailed : t[2] \in n.mine[t[1]].stamped
    BY <1>3, <1>14 DEF PassOK
  <2>4. ASSUME NEW t \in n.todo, ~InHand(n, t[1])
        PROVE  ~Holds(n, t[1])
    <3>1. t \in p.todo /\ t[1] \in Installments
      BY <1>3, <1>14, PairParts DEF Pass
    <3>2. t[1] # i
      BY <2>4, <3>1, <1>15
    <3>3. ~InHand(p, t[1])
      BY <3>1, <3>2, <1>4, <1>5
    <3> QED BY <3>1, <3>2, <3>3, <1>3, <1>16 DEF PassOK
  <2>5. n.step = "insert" => ~Holds(n, n.at[1])
    BY <1>5, <1>14, <1>17
  <2>6. n.step \in {"send", "stamp", "close"} => n.at[2] \notin n.sees.stamped
    BY <1>11, <1>14
  <2>7. n.step # "fee" /\ n.at \in Pairs
    BY <1>4, <1>11, <1>14
  <2> QED BY <2>1, <2>2, <2>3, <2>4, <2>5, <2>6, <2>7, <1>14 DEF PassOK
<1>19. PICK s : s = shared'
  OBVIOUS
<1>20. /\ shared \subseteq s /\ s \subseteq Installments
       /\ i \notin s /\ ~InHand(p, i) /\ r.exists => \A v \in Processes \ {w} : i \notin pass[v].seen
  BY <1>2, <1>5, <1>6, <1>7, <1>19, PassFacts DEF InHand
<1>21. RowOK(n, s)
  <2>1. ASSUME NEW j \in Installments
        PROVE  /\ j \in n.seen => row[j].exists
               /\ n.mine[j].exists /\ j \notin n.seen => ~row[j].exists
               /\ j \in n.charged /\ j \notin s => fees[j] = 0
    BY <1>3, <1>8, <1>9, <1>14, <1>20 DEF RowOK
  <2>2. ASSUME NEW j \in Installments, InHand(n, j), n.step # "insert", j \notin s
        PROVE  row[j].stamped \subseteq n.sees.stamped
    <3>1. j = i /\ j \notin shared
      BY <2>2, <1>15, <1>20
    <3> QED BY <3>1, <1>3, <1>6, <1>7, <1>14 DEF RowOK
  <2>3. \A t \in n.mailed : t[1] \notin s => kept[t] = 0
    BY <1>3, <1>14, <1>20 DEF RowOK
  <2>4. n.step # "fee"
    BY <1>11, <1>14
  <2> QED BY <2>1, <2>2, <2>3, <2>4 DEF RowOK
<1>22. ASSUME NEW v \in Processes \ {w} PROVE Apart(n, pass[v], s)
  <2>1. Apart(p, pass[v], shared) /\ RowOK(pass[v], shared)
    BY <1>1, PassFacts
  <2>2. ASSUME NEW j \in Installments, j \notin s, Holds(n, j), Holds(pass[v], j)
        PROVE  FALSE
    <3>1. CASE j # i
      BY <3>1, <2>1, <2>2, <1>16, <1>20 DEF Apart
    <3>2. CASE j = i
      <4>1. CASE Holds(p, i)
        BY <3>2, <4>1, <2>1, <2>2, <1>20 DEF Apart
      <4>2. CASE ~Holds(p, i)
        <5>1. ~InHand(p, i) /\ r.exists /\ r = row[i]
          BY <4>2, <3>2, <2>2, <1>8, <1>9, <1>14 DEF Holds
        <5>2. i \notin pass[v].seen
          BY <5>1, <3>2, <2>2, <1>20
        <5>3. pass[v].mine[i].exists
          BY <5>2, <3>2, <2>2 DEF Holds
        <5> QED BY <5>1, <5>2, <5>3, <2>1, <1>6 DEF RowOK
      <4> QED BY <4>1, <4>2
    <3> QED BY <3>1, <3>2
  <2> QED BY <2>1, <2>2, <1>14 DEF Apart
<1>23. Clock'
  BY DEF PassInv, Clock, TakeUp
<1> QED BY <1>3, <1>13, <1>18, <1>19, <1>20, <1>21, <1>22, <1>23, OwnStep
\* A row inserted while nobody else writes it, and refused when it is there.
LEMMA InsertInv ==
  ASSUME PassInv, NEW w \in Processes, Insert(w)
  PROVE  PassInv'
<1>1. PICK p : p = pass[w]
  OBVIOUS
<1>2. PICK i : i = p.at[1]
  OBVIOUS
<1>3. /\ PassOK(p) /\ RowOK(p, shared) /\ p \in Pass /\ p.step = "insert" /\ p.at \in Pairs
      /\ UNCHANGED <<row, kept, fees, shared>>
  BY <1>1, PassFacts DEF Insert, PassOK
<1>4. /\ Writers(w, i) = {}
      /\ Turns(w, IF Taken(i) THEN NoPass
               ELSE [p EXCEPT !.sees = Blank, !.mine[i] = Blank,
                              !.step = Judged(p.at[2], Blank)])
  BY <1>1, <1>2 DEF Insert
<1>5. Clock'
  BY DEF PassInv, Clock, Insert
<1>6. CASE Taken(i)
  BY <1>3, <1>4, <1>5, <1>6, ResetInv
<1>7. CASE ~Taken(i)
  <2>1. i \in Installments /\ ~row[i].exists /\ row[i].stamped = {} /\ p.at # <<>>
    BY <1>2, <1>3, <1>7, PairParts DEF Taken, PassInv, Accounted
  <2>2. ~Holds(p, i)
    BY <1>2, <1>3 DEF PassOK
  <2>3. PICK mine : mine = [p.mine EXCEPT ![i] = Blank]
    OBVIOUS
  <2>4. /\ mine \in [Installments -> PassRow] /\ mine[i] = Blank
        /\ \A j \in Installments : j # i => mine[j] = p.mine[j]
    BY <1>3, <2>1, <2>3, Blanks DEF Pass
  <2>5. PICK step : step = Judged(p.at[2], Blank)
    OBVIOUS
  <2>6. step \in {"send", "close"} /\ Blank.stamped = {} /\ Blank.exists
    BY <2>5 DEF Judged, Blank, None
  <2>7. PICK n : n = [p EXCEPT !.sees = Blank, !.mine = mine, !.step = step]
    OBVIOUS
  <2>8. pass' = [pass EXCEPT ![w] = n]
    BY <1>3, <1>4, <1>7, <2>3, <2>5, <2>7 DEF Turns, Pass
  <2>9. /\ n \in Pass /\ n.step = step /\ n.todo = p.todo /\ n.at = p.at /\ n.sees = Blank
        /\ n.seen = p.seen /\ n.mine = mine /\ n.mailed = p.mailed /\ n.charged = p.charged
    BY <1>3, <2>4, <2>6, <2>7, Blanks DEF Pass
  <2>10. \A j \in Installments : InHand(n, j) <=> j = i
    BY <1>2, <2>1, <2>9 DEF InHand
  <2>11. /\ \A j \in Installments : j # i => (Holds(n, j) <=> Holds(p, j))
         /\ Holds(n, i) /\ ~p.mine[i].exists /\ i \notin p.seen
    BY <2>1, <2>2, <2>4, <2>6, <2>9 DEF Holds
  <2>12. \A q \in p.mailed : q[1] # i /\ q[2] \in p.mine[q[1]].stamped /\ q[1] \in Installments
    <3>1. SUFFICES ASSUME NEW q \in p.mailed
                   PROVE  q[1] # i /\ q[2] \in p.mine[q[1]].stamped /\ q[1] \in Installments
      OBVIOUS
    <3>2. q[2] \in p.mine[q[1]].stamped /\ q[1] \in Installments
      BY <1>3, PairParts DEF PassOK, Pass
    <3>3. p.mine[q[1]].exists
      BY <3>2, <1>3 DEF PassOK
    <3> QED BY <3>2, <3>3, <2>11
  <2>13. i \notin p.charged
    BY <1>3, <2>1, <2>11 DEF PassOK
  <2>14. PassOK(n)
    <3>1. ASSUME NEW j \in Installments
          PROVE  /\ n.mine[j].stamped # {} => n.mine[j].exists
                 /\ j \in n.charged => Late \in n.mine[j].stamped
                 /\ InHand(n, j) /\ n.step # "insert" =>
                       Holds(n, j) /\ n.sees.exists /\ n.mine[j].stamped \subseteq n.sees.stamped
      <4>1. CASE j = i
        BY <4>1, <2>4, <2>6, <2>9, <2>11, <2>13
      <4>2. CASE j # i
        BY <4>2, <2>4, <2>9, <2>10, <1>3 DEF PassOK
      <4> QED BY <4>1, <4>2
    <3>2. \A q \in n.mailed : q[2] \in n.mine[q[1]].stamped
      BY <2>4, <2>9, <2>12
    <3>3. ASSUME NEW t \in n.todo, ~InHand(n, t[1]) PROVE ~Holds(n, t[1])
      <4>1. t \in p.todo /\ t[1] \in Installments
        BY <1>3, <2>9, PairParts DEF Pass
      <4>2. t[1] # i
        BY <3>3, <4>1, <2>10
      <4>3. ~InHand(p, t[1])
        BY <4>2, <1>2 DEF InHand
      <4> QED BY <4>1, <4>2, <4>3, <1>3, <2>11 DEF PassOK
    <3> QED BY <3>1, <3>2, <3>3, <1>3, <2>6, <2>9 DEF PassOK
  <2>15. PICK s : s = shared
    OBVIOUS
  <2>16. RowOK(n, s)
    <3>1. \A j \in Installments :
             /\ j \in n.seen => row[j].exists
             /\ n.mine[j].exists /\ j \notin n.seen => ~row[j].exists
             /\ j \in n.charged /\ j \notin s => fees[j] = 0
      BY <1>3, <2>1, <2>4, <2>9, <2>15 DEF RowOK
    <3>2. \A j \in Installments : InHand(n, j) => row[j].stamped = {}
      BY <2>1, <2>10
    <3>3. \A t \in n.mailed : t[1] \notin s => kept[t] = 0
      BY <1>3, <2>9, <2>15 DEF RowOK
    <3>4. n.step # "fee"
      BY <2>6, <2>9
    <3> QED BY <3>1, <3>2, <3>3, <3>4 DEF RowOK
  <2>17. ASSUME NEW v \in Processes \ {w} PROVE Apart(n, pass[v], s)
    <3>1. Apart(p, pass[v], shared) /\ RowOK(pass[v], shared)
      BY <1>1, PassFacts
    <3>2. ~pass[v].mine[i].exists
      BY <1>4 DEF Writers
    <3>3. ~Holds(pass[v], i)
      BY <3>1, <3>2, <2>1 DEF RowOK, Holds
    <3> QED BY <3>1, <3>2, <3>3, <2>4, <2>9, <2>11, <2>15 DEF Apart
  <2> QED BY <1>3, <1>5, <2>8, <2>14, <2>15, <2>16, <2>17, PassFacts, OwnStep
<1> QED BY <1>6, <1>7

\* What is mailed was neither on the row nor among the pass's own stamps.
LEMMA SendReminderInv ==
  ASSUME PassInv, NEW w \in Processes, SendReminder(w)
  PROVE  PassInv'
<1>1. PICK p : p = pass[w]
  OBVIOUS
<1>2. /\ PassOK(p) /\ RowOK(p, shared) /\ p \in Pass /\ p.step = "send" /\ p.at \in Pairs
      /\ UNCHANGED <<row, kept, fees, shared>>
  BY <1>1, PassFacts DEF SendReminder, PassOK
<1>3. PICK mailed \in {p.mailed, p.mailed \cup {p.at}}, step \in {"stamp", "next"} :
         /\ pass' = [pass EXCEPT ![w] = [p EXCEPT !.step = step, !.mailed = mailed]]
         /\ mailed # p.mailed => step = "stamp"
  <2>1. CASE Turns(w, [p EXCEPT !.step = "stamp", !.mailed = @ \cup {p.at}])
    BY <2>1 DEF Turns
  <2>2. CASE Turns(w, [p EXCEPT !.step = "stamp"])
    <3>1. [p EXCEPT !.step = "stamp"] = [p EXCEPT !.step = "stamp", !.mailed = p.mailed]
      BY <1>2 DEF Pass
    <3> QED BY <2>2, <3>1 DEF Turns
  <2>3. CASE Turns(w, [p EXCEPT !.step = "next"])
    <3>1. [p EXCEPT !.step = "next"] = [p EXCEPT !.step = "next", !.mailed = p.mailed]
      BY <1>2 DEF Pass
    <3> QED BY <2>3, <3>1 DEF Turns
  <2> QED BY <1>1, <2>1, <2>2, <2>3 DEF SendReminder
<1>4. PICK n : n = [p EXCEPT !.step = step, !.mailed = mailed]
  OBVIOUS
<1>5. /\ n \in Pass /\ n.step = step /\ n.todo = p.todo /\ n.at = p.at /\ n.sees = p.sees
      /\ n.seen = p.seen /\ n.mine = p.mine /\ n.mailed = mailed /\ n.charged = p.charged
  <2>1. mailed \in SUBSET Pairs
    BY <1>2, <1>3 DEF Pass
  <2> QED BY <2>1, <1>2, <1>3, <1>4 DEF Pass
<1>6. /\ \A j : (InHand(n, j) <=> InHand(p, j)) /\ (Holds(n, j) <=> Holds(p, j))
      /\ p.at[1] \in Installments /\ InHand(p, p.at[1])
  BY <1>2, <1>5, PairParts DEF InHand, Holds
<1>7. PassOK(n)
  <2>1. \A q \in n.mailed : q[2] \in n.mine[q[1]].stamped \/ (n.step = "stamp" /\ n.at = q)
    <3>1. \A q \in p.mailed : q[2] \in p.mine[q[1]].stamped
      BY <1>2 DEF PassOK
    <3> QED BY <3>1, <1>3, <1>5
  <2>2. \A i \in Installments :
          /\ n.mine[i].stamped # {} => n.mine[i].exists
          /\ i \in n.charged => Late \in n.mine[i].stamped
          /\ InHand(n, i) /\ n.step # "insert" =>
                Holds(n, i) /\ n.sees.exists /\ n.mine[i].stamped \subseteq n.sees.stamped
    BY <1>2, <1>5, <1>6 DEF PassOK
  <2>3. \A q \in n.todo : ~InHand(n, q[1]) => ~Holds(n, q[1])
    BY <1>2, <1>5, <1>6 DEF PassOK
  <2>4. n.at \in Pairs /\ n.at[2] \notin n.sees.stamped /\ n.step \in {"stamp", "next"}
    BY <1>2, <1>3, <1>5 DEF PassOK
  <2> QED BY <2>1, <2>2, <2>3, <2>4, <1>5 DEF PassOK
<1>8. PICK s : s = shared
  OBVIOUS
<1>9. RowOK(n, s)
  <2>1. p.at[1] \notin s => kept[p.at] = 0
    <3>1. SUFFICES ASSUME p.at[1] \notin s PROVE kept[p.at] = 0
      OBVIOUS
    <3>2. row[p.at[1]].stamped \subseteq p.sees.stamped
      BY <3>1, <1>2, <1>6, <1>8 DEF RowOK
    <3>3. p.at[2] \notin row[p.at[1]].stamped
      BY <3>2, <1>2 DEF PassOK
    <3> QED BY <3>3, <1>2 DEF PassInv, Accounted
  <2>2. \A q \in n.mailed : q[1] \notin s => kept[q] = 0
    BY <2>1, <1>2, <1>3, <1>5, <1>8 DEF RowOK
  <2> QED BY <2>2, <1>2, <1>3, <1>5, <1>6, <1>8 DEF RowOK
<1>10. \A v \in Processes \ {w} : Apart(n, pass[v], s)
  BY <1>1, <1>5, <1>6, <1>8, PassFacts DEF Apart
<1>11. Clock'
  BY DEF PassInv, Clock, SendReminder
<1>12. pass' = [pass EXCEPT ![w] = n]
  BY <1>3, <1>4
<1> QED BY <1>2, <1>7, <1>8, <1>9, <1>10, <1>11, <1>12, PassFacts, OwnStep
\* A stamp is written while nobody else writes the row, by a pass that holds it.
LEMMA StampInv ==
  ASSUME PassInv, NEW w \in Processes, Stamp(w)
  PROVE  PassInv'
<1>1. PICK p : p = pass[w]
  OBVIOUS
<1>2. PICK i, k : i = p.at[1] /\ k = p.at[2]
  OBVIOUS
<1>3. /\ PassOK(p) /\ RowOK(p, shared) /\ p \in Pass /\ p.step \in {"stamp", "close"}
      /\ p.at \in Pairs /\ Writers(w, i) = {} /\ UNCHANGED <<row, kept, fees, shared>>
  BY <1>1, <1>2, PassFacts DEF Stamp, PassOK
<1>4. i \in Installments /\ k \in Slots /\ p.at # <<>> /\ p.at = <<i, k>>
  BY <1>2, <1>3, PairParts
<1>5. /\ Holds(p, i) /\ p.sees \in PassRow /\ p.mine[i] \in PassRow
      /\ p.mine[i].stamped \subseteq p.sees.stamped /\ k \notin p.sees.stamped
  BY <1>2, <1>3, <1>4 DEF PassOK, Pass, InHand
<1>6. PICK sees : sees = [p.sees EXCEPT !.exists = TRUE, !.stamped = @ \cup {k}]
  OBVIOUS
<1>7. PICK own : own = [p.mine[i] EXCEPT !.exists = TRUE, !.stamped = @ \cup {k}]
  OBVIOUS
<1>8. /\ sees \in PassRow /\ sees.exists /\ sees.stamped = p.sees.stamped \cup {k}
      /\ own \in PassRow /\ own.exists /\ own.stamped = p.mine[i].stamped \cup {k}
  BY <1>4, <1>5, <1>6, <1>7 DEF PassRow
<1>9. PICK mine : mine = [p.mine EXCEPT ![i] = own]
  OBVIOUS
<1>10. /\ mine \in [Installments -> PassRow] /\ mine[i] = own
       /\ \A j \in Installments : j # i => mine[j] = p.mine[j]
  BY <1>3, <1>4, <1>8, <1>9 DEF Pass
<1>11. PICK step : step = IF p.step = "stamp" /\ FeeDue(k, p.sees) THEN "fee" ELSE "next"
  OBVIOUS
<1>12. step \in {"fee", "next"} /\ (step = "fee" => k = Late)
  BY <1>11 DEF FeeDue
<1>13. PICK n : n = [p EXCEPT !.sees = sees, !.mine = mine, !.step = step]
  OBVIOUS
<1>14. pass' = [pass EXCEPT ![w] = n]
  BY <1>1, <1>2, <1>3, <1>6, <1>7, <1>9, <1>11, <1>13 DEF Stamp, Turns, Pass
<1>15. /\ n \in Pass /\ n.step = step /\ n.todo = p.todo /\ n.at = p.at /\ n.sees = sees
       /\ n.seen = p.seen /\ n.mine = mine /\ n.mailed = p.mailed /\ n.charged = p.charged
  BY <1>3, <1>8, <1>10, <1>12, <1>13 DEF Pass
<1>16. /\ \A j \in Installments : InHand(n, j) <=> j = i
       /\ \A j \in Installments : InHand(p, j) <=> j = i
  BY <1>2, <1>4, <1>15 DEF InHand
<1>17. \A j \in Installments : Holds(n, j) <=> Holds(p, j)
  BY <1>5, <1>8, <1>10, <1>15 DEF Holds
<1>18. Late = k => i \notin p.charged
  BY <1>3, <1>4, <1>5 DEF PassOK
<1>19. PassOK(n)
  <2>1. ASSUME NEW j \in Installments
        PROVE  /\ n.mine[j].stamped # {} => n.mine[j].exists
               /\ j \in n.charged => Late \in n.mine[j].stamped
               /\ InHand(n, j) /\ n.step # "insert" =>
                     Holds(n, j) /\ n.sees.exists /\ n.mine[j].stamped \subseteq n.sees.stamped
    <3>1. CASE j = i
      BY <3>1, <1>3, <1>4, <1>5, <1>8, <1>10, <1>15, <1>17 DEF PassOK
    <3>2. CASE j # i
      BY <3>2, <1>3, <1>10, <1>15, <1>16 DEF PassOK
    <3> QED BY <3>1, <3>2
  <2>2. ASSUME NEW q \in n.mailed PROVE q[2] \in n.mine[q[1]].stamped
    <3>1. q[1] \in Installments /\ q \in p.mailed
      BY <1>3, <1>15, PairParts DEF Pass
    <3>2. CASE q[1] = i
      BY <3>1, <3>2, <1>2, <1>3, <1>8, <1>10, <1>15 DEF PassOK
    <3>3. CASE q[1] # i
      <4>1. q # p.at
        BY <3>3, <1>2
      <4> QED BY <3>1, <3>3, <4>1, <1>3, <1>10, <1>15 DEF PassOK
    <3> QED BY <3>2, <3>3
  <2>3. ASSUME NEW t \in n.todo, ~InHand(n, t[1]) PROVE ~Holds(n, t[1])
    <3>1. t[1] \in Installments /\ t \in p.todo
      BY <1>3, <1>15, PairParts DEF Pass
    <3> QED BY <2>3, <3>1, <1>3, <1>16, <1>17 DEF PassOK
  <2>4. n.step = "fee" => n.at[2] = Late /\ Late \in n.mine[n.at[1]].stamped
                          /\ n.at[1] \notin n.charged
    BY <1>2, <1>8, <1>10, <1>12, <1>15, <1>18
  <2> QED BY <2>1, <2>2, <2>3, <2>4, <1>3, <1>12, <1>15 DEF PassOK
<1>20. PICK s : s = shared
  OBVIOUS
<1>21. i \notin s => row[i].stamped \subseteq p.sees.stamped
  BY <1>3, <1>4, <1>16, <1>20 DEF RowOK
<1>22. RowOK(n, s)
  <2>1. ASSUME NEW j \in Installments
        PROVE  /\ j \in n.seen => row[j].exists
               /\ n.mine[j].exists /\ j \notin n.seen => ~row[j].exists
               /\ j \in n.charged /\ j \notin s => fees[j] = 0
    <3>1. n.mine[j].exists /\ j \notin n.seen => p.mine[j].exists /\ j \notin p.seen
      BY <1>15, <1>17 DEF Holds
    <3> QED BY <3>1, <1>3, <1>15, <1>20 DEF RowOK
  <2>2. \A j \in Installments : InHand(n, j) /\ j \notin s => row[j].stamped \subseteq n.sees.stamped
    BY <1>8, <1>15, <1>16, <1>21
  <2>3. \A q \in n.mailed : q[1] \notin s => kept[q] = 0
    BY <1>3, <1>15, <1>20 DEF RowOK
  <2>4. n.step = "fee" /\ n.at[1] \notin s => fees[n.at[1]] = 0
    <3>1. SUFFICES ASSUME step = "fee", i \notin s PROVE fees[i] = 0
      BY <1>2, <1>15
    <3>2. Late \notin row[i].stamped
      BY <3>1, <1>5, <1>12, <1>21
    <3> QED BY <3>2, <1>4 DEF PassInv, Accounted
  <2> QED BY <2>1, <2>2, <2>3, <2>4 DEF RowOK
<1>23. ASSUME NEW v \in Processes \ {w} PROVE Apart(n, pass[v], s)
  <2>1. Apart(p, pass[v], shared)
    BY <1>1, PassFacts
  <2>2. ~pass[v].mine[i].exists
    BY <1>3 DEF Writers
  <2> QED BY <2>1, <2>2, <1>10, <1>15, <1>17, <1>20 DEF Apart
<1>24. Clock'
  BY DEF PassInv, Clock, Stamp
<1> QED BY <1>3, <1>14, <1>19, <1>20, <1>22, <1>23, <1>24, PassFacts, OwnStep

\* The fee is charged by the pass that has just stamped reminder3 for the
\* first time, whether or not its own column is written.
LEMMA FeeInv ==
  ASSUME PassInv, NEW w \in Processes, AppendFee(w)
  PROVE  PassInv'
<1>1. PICK p : p = pass[w]
  OBVIOUS
<1>2. PICK i : i = p.at[1]
  OBVIOUS
<1>3. /\ PassOK(p) /\ RowOK(p, shared) /\ p \in Pass /\ p.step = "fee"
      /\ p.at \in Pairs /\ UNCHANGED <<row, kept, fees, shared>>
  BY <1>1, PassFacts DEF AppendFee, PassOK
<1>4. i \in Installments /\ p.at # <<>>
  BY <1>2, <1>3, PairParts
<1>5. /\ Late \in p.mine[i].stamped /\ i \notin p.charged
      /\ p.sees \in PassRow /\ p.mine[i] \in PassRow
  BY <1>2, <1>3, <1>4 DEF PassOK, Pass
<1>6. PICK charged \in {p.charged, p.charged \cup {i}}, a \in BOOLEAN, b \in BOOLEAN :
         pass' = [pass EXCEPT ![w] =
                    [p EXCEPT !.step = "next", !.charged = charged,
                              !.mine = [p.mine EXCEPT ![i] = [p.mine[i] EXCEPT !.fee = a]],
                              !.sees = [p.sees EXCEPT !.fee = b]]]
  <2> DEFINE charge == [p EXCEPT !.step = "next", !.charged = @ \cup {i}]
             next(c, a, b) ==
                [p EXCEPT !.step = "next", !.charged = c,
                          !.mine = [p.mine EXCEPT ![i] = [p.mine[i] EXCEPT !.fee = a]],
                          !.sees = [p.sees EXCEPT !.fee = b]]
  <2>1. /\ [p.mine[i] EXCEPT !.fee = p.mine[i].fee] = p.mine[i]
        /\ [p.sees EXCEPT !.fee = p.sees.fee] = p.sees
        /\ p.mine[i].fee \in BOOLEAN /\ p.sees.fee \in BOOLEAN
    BY <1>5 DEF PassRow
  <2>2. [p.mine EXCEPT ![i] = [p.mine[i] EXCEPT !.fee = p.mine[i].fee]] = p.mine
    BY <2>1, <1>3, <1>4 DEF Pass
  <2>3. [p EXCEPT !.step = "next"] = next(p.charged, p.mine[i].fee, p.sees.fee)
    BY <2>1, <2>2, <1>3 DEF Pass
  <2>4. charge = next(p.charged \cup {i}, p.mine[i].fee, p.sees.fee)
    BY <2>1, <2>2, <1>3 DEF Pass
  <2>5. [charge EXCEPT !.mine[i].fee = TRUE, !.sees.fee = TRUE]
           = next(p.charged \cup {i}, TRUE, TRUE)
    BY <1>3 DEF Pass
  <2>6. \/ pass' = [pass EXCEPT ![w] = [p EXCEPT !.step = "next"]]
        \/ pass' = [pass EXCEPT ![w] = charge]
        \/ pass' = [pass EXCEPT ![w] = [charge EXCEPT !.mine[i].fee = TRUE, !.sees.fee = TRUE]]
    BY <1>1, <1>2 DEF AppendFee, Turns
  <2> HIDE DEF next, charge
  <2>7. \E c \in {p.charged, p.charged \cup {i}}, a \in BOOLEAN, b \in BOOLEAN :
           pass' = [pass EXCEPT ![w] = next(c, a, b)]
    BY <2>1, <2>3, <2>4, <2>5, <2>6
  <2> QED BY <2>7 DEF next
<1>7. PICK own : own = [p.mine[i] EXCEPT !.fee = a]
  OBVIOUS
<1>8. PICK mine : mine = [p.mine EXCEPT ![i] = own]
  OBVIOUS
<1>9. PICK sees : sees = [p.sees EXCEPT !.fee = b]
  OBVIOUS
<1>10. /\ own \in PassRow /\ own.exists = p.mine[i].exists /\ own.stamped = p.mine[i].stamped
       /\ sees \in PassRow /\ sees.exists = p.sees.exists /\ sees.stamped = p.sees.stamped
  BY <1>5, <1>6, <1>7, <1>9 DEF PassRow
<1>11. /\ mine \in [Installments -> PassRow]
       /\ \A j \in Installments : mine[j].exists = p.mine[j].exists
                                  /\ mine[j].stamped = p.mine[j].stamped
  BY <1>3, <1>4, <1>8, <1>10 DEF Pass
<1>12. PICK n : n = [p EXCEPT !.step = "next", !.charged = charged, !.mine = mine, !.sees = sees]
  OBVIOUS
<1>13. pass' = [pass EXCEPT ![w] = n]
  BY <1>6, <1>7, <1>8, <1>9, <1>12
<1>14. /\ n \in Pass /\ n.step = "next" /\ n.todo = p.todo /\ n.at = p.at /\ n.sees = sees
       /\ n.seen = p.seen /\ n.mine = mine /\ n.mailed = p.mailed /\ n.charged = charged
  <2>1. charged \in SUBSET Installments
    BY <1>3, <1>4, <1>6 DEF Pass
  <2> QED BY <2>1, <1>3, <1>10, <1>11, <1>12 DEF Pass
<1>15. \A j \in Installments : /\ InHand(n, j) <=> InHand(p, j)
                               /\ Holds(n, j) <=> Holds(p, j)
  BY <1>11, <1>14 DEF InHand, Holds
<1>16. PassOK(n)
  <2>1. ASSUME NEW j \in Installments
        PROVE  /\ n.mine[j].stamped # {} => n.mine[j].exists
               /\ j \in n.charged => Late \in n.mine[j].stamped
               /\ InHand(n, j) =>
                     Holds(n, j) /\ n.sees.exists /\ n.mine[j].stamped \subseteq n.sees.stamped
    BY <1>3, <1>5, <1>6, <1>10, <1>11, <1>14, <1>15 DEF PassOK
  <2>2. ASSUME NEW q \in n.mailed PROVE q[2] \in n.mine[q[1]].stamped
    <3>1. q[1] \in Installments /\ q \in p.mailed
      BY <1>3, <1>14, PairParts DEF Pass
    <3> QED BY <3>1, <1>3, <1>11, <1>14 DEF PassOK
  <2>3. ASSUME NEW t \in n.todo, ~InHand(n, t[1]) PROVE ~Holds(n, t[1])
    <3>1. t[1] \in Installments /\ t \in p.todo
      BY <1>3, <1>14, PairParts DEF Pass
    <3> QED BY <2>3, <3>1, <1>3, <1>15 DEF PassOK
  <2> QED BY <2>1, <2>2, <2>3, <1>14 DEF PassOK
<1>17. PICK s : s = shared
  OBVIOUS
<1>18. RowOK(n, s)
  <2>1. i \notin s => fees[i] = 0
    BY <1>2, <1>3, <1>17 DEF RowOK
  <2>2. \A j \in Installments :
           /\ j \in n.seen => row[j].exists
           /\ n.mine[j].exists /\ j \notin n.seen => ~row[j].exists
           /\ j \in n.charged /\ j \notin s => fees[j] = 0
           /\ InHand(n, j) /\ j \notin s => row[j].stamped \subseteq n.sees.stamped
    BY <2>1, <1>3, <1>6, <1>10, <1>11, <1>14, <1>15, <1>17 DEF RowOK
  <2>3. \A q \in n.mailed : q[1] \notin s => kept[q] = 0
    BY <1>3, <1>14, <1>17 DEF RowOK
  <2> QED BY <2>2, <2>3, <1>14 DEF RowOK
<1>19. ASSUME NEW v \in Processes \ {w} PROVE Apart(n, pass[v], s)
  <2>1. Apart(p, pass[v], shared)
    BY <1>1, PassFacts
  <2> QED BY <2>1, <1>11, <1>14, <1>15, <1>17 DEF Apart
<1>20. Clock'
  BY DEF PassInv, Clock, AppendFee
<1> QED BY <1>3, <1>13, <1>16, <1>17, <1>18, <1>19, <1>20, PassFacts, OwnStep
\* A commit accounts for what the pass mailed and charged on rows it holds; no
\* other pass that goes by such a row holds it, unless it is shared.
LEMMA CommitInv ==
  ASSUME PassInv, NEW w \in Processes, CommitPass(w)
  PROVE  PassInv'
<1>1. PICK p : p = pass[w]
  OBVIOUS
<1>2. /\ PassOK(p) /\ RowOK(p, shared) /\ p \in Pass /\ p.step = "next"
      /\ UNCHANGED shared /\ pass' = [pass EXCEPT ![w] = NoPass]
  BY <1>1, PassFacts DEF CommitPass, Turns
<1>3. /\ row' = [i \in Installments |-> IF p.mine[i].exists THEN Merged(i, p) ELSE row[i]]
      /\ kept' = [q \in Pairs |-> kept[q] + (IF q \in p.mailed THEN 1 ELSE 0)]
      /\ fees' = [i \in Installments |-> fees[i] + (IF i \in p.charged THEN 1 ELSE 0)]
  BY <1>1 DEF CommitPass
<1>4. pass \in [Processes -> Pass] /\ Accounted /\ Clock
  BY DEF PassInv, Passes
<1>5. ASSUME NEW i \in Installments
      PROVE  /\ Merged(i, p) \in PassRow /\ Merged(i, p).exists
             /\ row[i].stamped \subseteq Merged(i, p).stamped
             /\ p.mine[i].stamped \subseteq Merged(i, p).stamped
  <2>1. row[i] \in PassRow /\ p.mine[i] \in PassRow
    BY <1>2, <1>4 DEF Accounted, Pass
  <2> QED BY <2>1 DEF Merged, PassRow
<1>6. \A i \in Installments :
         row'[i] = IF p.mine[i].exists THEN Merged(i, p) ELSE row[i]
  BY <1>3
<1>7. \A q \in p.mailed : q \in Pairs /\ q[1] \in Installments /\ q[2] \in p.mine[q[1]].stamped
  BY <1>2, PairParts DEF PassOK, Pass
<1>8. \A i \in Installments : /\ p.mine[i].stamped # {} => p.mine[i].exists
                              /\ i \in p.charged => Late \in p.mine[i].stamped
  BY <1>2 DEF PassOK
<1>9. Accounted'
  <2>1. row' \in [Installments -> PassRow]
    BY <1>3, <1>4, <1>5 DEF Accounted
  <2>2. kept' \in [Pairs -> Nat] /\ fees' \in [Installments -> Nat]
    BY <1>3, <1>4 DEF Accounted
  <2>3. ASSUME NEW i \in Installments
        PROVE  /\ row'[i].stamped # {} => row'[i].exists
               /\ fees'[i] > 0 => Late \in row'[i].stamped
               /\ i \notin shared' => fees'[i] <= 1
    <3>1. fees'[i] = fees[i] + (IF i \in p.charged THEN 1 ELSE 0) /\ fees[i] \in Nat
      BY <1>3, <1>4 DEF Accounted
    <3>2. i \in p.charged => Late \in row'[i].stamped
      BY <1>5, <1>6, <1>8
    <3>3. fees[i] > 0 => Late \in row'[i].stamped
      BY <1>4, <1>5, <1>6 DEF Accounted
    <3>4. i \notin shared => fees[i] <= 1 /\ (i \in p.charged => fees[i] = 0)
      BY <1>2, <1>4 DEF Accounted, RowOK
    <3>5. row'[i].stamped # {} => row'[i].exists
      BY <1>4, <1>5, <1>6 DEF Accounted
    <3> QED BY <3>1, <3>2, <3>3, <3>4, <3>5, <1>2
  <2>4. ASSUME NEW q \in Pairs
        PROVE  /\ kept'[q] > 0 => q[2] \in row'[q[1]].stamped
               /\ q[1] \notin shared' => kept'[q] <= 1
    <3>1. kept'[q] = kept[q] + (IF q \in p.mailed THEN 1 ELSE 0) /\ kept[q] \in Nat
      BY <1>3, <1>4 DEF Accounted
    <3>2. q[1] \in Installments
      BY PairParts
    <3>3. q \in p.mailed => q[2] \in row'[q[1]].stamped
      BY <3>2, <1>5, <1>6, <1>7, <1>8
    <3>4. kept[q] > 0 => q[2] \in row'[q[1]].stamped
      BY <3>2, <1>4, <1>5, <1>6 DEF Accounted
    <3>5. q[1] \notin shared => kept[q] <= 1 /\ (q \in p.mailed => kept[q] = 0)
      BY <1>2, <1>4 DEF Accounted, RowOK
    <3> QED BY <3>1, <3>3, <3>4, <3>5, <1>2
  <2>5. shared' \subseteq Installments
    BY <1>2, <1>4 DEF Accounted
  <2> QED BY <2>1, <2>2, <2>3, <2>4, <2>5 DEF Accounted
<1>10. ASSUME NEW v \in Processes \ {w}
       PROVE  PassOK(pass[v])' /\ RowOK(pass[v], shared)'
  <2>1. PICK r : r = pass[v]
    OBVIOUS
  <2>2. PassOK(r) /\ RowOK(r, shared) /\ Apart(p, r, shared) /\ r \in Pass /\ pass'[v] = r
    BY <2>1, <1>1, <1>2, <1>4, PassFacts
  <2>3. PassOK(pass[v])'
    BY <2>2 DEF PassOK, InHand, Holds
  <2>4. \A i \in Installments : i \notin shared /\ Holds(r, i) =>
           row'[i] = row[i] /\ fees'[i] = fees[i]
    <3>1. SUFFICES ASSUME NEW i \in Installments, i \notin shared, Holds(r, i)
                   PROVE  row'[i] = row[i] /\ fees'[i] = fees[i]
      OBVIOUS
    <3>2. ~p.mine[i].exists
      BY <3>1, <2>2 DEF Apart, Holds
    <3>3. i \notin p.charged /\ fees[i] \in Nat
      BY <3>2, <1>4, <1>8 DEF Accounted
    <3> QED BY <3>2, <3>3, <1>3, <1>6
  <2>5. \A i \in Installments :
           /\ i \in r.seen => row'[i].exists
           /\ r.mine[i].exists /\ i \notin r.seen => ~row'[i].exists
    BY <2>2, <1>5, <1>6 DEF RowOK, Apart
  <2>6. \A i \in Installments : i \in r.charged => Holds(r, i)
    BY <2>2 DEF PassOK, Holds
  <2>7. \A i \in Installments :
           /\ InHand(r, i) /\ r.step # "insert" /\ i \notin shared =>
                 row'[i].stamped \subseteq r.sees.stamped
           /\ i \in r.charged /\ i \notin shared => fees'[i] = 0
    BY <2>2, <2>4, <2>6 DEF RowOK, PassOK
  <2>8. ASSUME NEW q \in r.mailed, q[1] \notin shared PROVE kept'[q] = 0
    <3>1. q \in Pairs /\ q[1] \in Installments
      BY <2>2, PairParts DEF Pass
    <3>2. Holds(r, q[1])
      <4>1. CASE q[2] \in r.mine[q[1]].stamped
        BY <4>1, <3>1, <2>2 DEF PassOK, Holds
      <4>2. CASE r.step = "stamp" /\ r.at = q
        BY <4>2, <3>1, <2>2, PairParts DEF PassOK, InHand
      <4> QED BY <4>1, <4>2, <2>2 DEF PassOK
    <3>3. ~p.mine[q[1]].exists
      BY <3>1, <3>2, <2>2, <2>8 DEF Apart, Holds
    <3>4. q \notin p.mailed
      BY <3>1, <3>3, <1>7, <1>8
    <3> QED BY <3>1, <3>4, <2>2, <2>8, <1>3, <1>4 DEF RowOK, Accounted
  <2>9. r.step = "fee" /\ r.at[1] \notin shared => fees'[r.at[1]] = 0
    <3>1. SUFFICES ASSUME r.step = "fee", r.at[1] \notin shared PROVE fees'[r.at[1]] = 0
      OBVIOUS
    <3>2. r.at \in Pairs /\ r.at # <<>> /\ r.at[1] \in Installments
      BY <3>1, <2>2, PairParts DEF PassOK
    <3>3. Holds(r, r.at[1])
      BY <3>1, <3>2, <2>2 DEF PassOK, InHand
    <3> QED BY <3>1, <3>2, <3>3, <2>2, <2>4 DEF RowOK
  <2>10. RowOK(r, shared)'
    BY <2>5, <2>7, <2>8, <2>9, <1>2 DEF RowOK, InHand
  <2> QED BY <2>2, <2>3, <2>10 DEF RowOK, InHand
<1>11. PassOK(pass[w])' /\ RowOK(pass[w], shared)'
  <2>1. pass'[w] = NoPass
    BY <1>2, <1>4
  <2>2. PassOK(NoPass)
    BY Blanks DEF PassOK, NoPass, None, InHand, Holds
  <2>3. RowOK(NoPass, shared)'
    BY DEF RowOK, NoPass, None, InHand
  <2>4. PassOK(pass[w])'
    BY <2>1, <2>2 DEF PassOK, InHand, Holds
  <2> QED BY <2>1, <2>3, <2>4 DEF RowOK, InHand
<1>12. pass' \in [Processes -> Pass]
  BY <1>2, <1>4, Blanks
<1>13. Passes'
  BY <1>10, <1>11, <1>12 DEF Passes
<1>14. Alone'
  <2>1. \A v \in Processes : pass'[v] = pass[v] \/ (v = w /\ pass'[v] = NoPass)
    BY <1>2, <1>4
  <2>2. \A i \in Installments : ~NoPass.mine[i].exists /\ i \notin NoPass.seen
    BY DEF NoPass, None
  <2>3. ASSUME NEW u \in Processes, NEW v \in Processes, u # v
        PROVE  Apart(pass[u], pass[v], shared)'
    <3>1. Apart(pass[u], pass[v], shared)
      BY <2>3 DEF PassInv, Alone
    <3> QED BY <3>1, <2>1, <2>2, <1>2 DEF Apart, Holds
  <2> QED BY <2>3 DEF Alone
<1>15. Clock'
  BY <1>4 DEF Clock, CommitPass
<1> QED BY <1>9, <1>13, <1>14, <1>15 DEF PassInv

\* What happens outside the passes touches no row and no pass.
LEMMA WorldInv ==
  ASSUME PassInv, (\E i \in Installments : Pay(i)) \/ LoseLink \/ NextDay \/ UNCHANGED passVars
  PROVE  PassInv'
<1>1. UNCHANGED <<row, pass, kept, fees, shared>>
  BY DEF Pay, LoseLink, NextDay, passVars
<1>2. Clock'
  <2>1. CASE NextDay
    BY <2>1, ReminderAssumption DEF PassInv, Clock, NextDay
  <2>2. CASE (\E i \in Installments : Pay(i)) \/ LoseLink \/ UNCHANGED passVars
    BY <2>2 DEF PassInv, Clock, Pay, LoseLink, passVars
  <2> QED BY <2>1, <2>2
<1>3. Accounted'
  BY <1>1 DEF PassInv, Accounted
<1>4. Passes'
  BY <1>1 DEF PassInv, Passes, PassOK, RowOK, InHand, Holds
<1>5. Alone'
  BY <1>1 DEF PassInv, Alone, Apart, Holds
<1> QED BY <1>2, <1>3, <1>4, <1>5 DEF PassInv

\* Every step keeps the invariant.
LEMMA PassNextInv == PassInv /\ [PassNext]_passVars => PassInv'
<1> SUFFICES ASSUME PassInv, [PassNext]_passVars PROVE PassInv'
  OBVIOUS
<1>1. ASSUME NEW w \in Processes, PassStep(w) PROVE PassInv'
  <2>1. CASE Victim(w)
    <3>1. Clock'
      BY <2>1 DEF PassInv, Clock, Victim
    <3> QED BY <2>1, <3>1, ResetInv DEF Victim
  <2> QED BY <1>1, <2>1, TakeUpInv, InsertInv, SendReminderInv, StampInv, FeeInv, CommitInv
          DEF PassStep
<1>2. ASSUME NEW w \in Processes, Restart(w) PROVE PassInv'
  <2>1. Clock'
    BY <1>2, ReminderAssumption DEF PassInv, Clock, Restart
  <2> QED BY <1>2, <2>1, ResetInv DEF Restart
<1> QED BY <1>1, <1>2, BeginInv, WorldInv DEF PassNext

-----------------------------------------------------------------------------
\* What is on the rows accounts for every mail and fee in every reachable
\* state, and no two passes hold a row that is not shared.
THEOREM ReminderInvariant == PassSpec => []PassInv
<1>1. PassInit => PassInv
  BY PassInitInv
<1> QED BY <1>1, PassNextInv, PTL DEF PassSpec

\* One pass at most has mailed a reminder of an installment that is not shared,
\* and only when no committed pass has; the same for the fee.
LEMMA CountedOnce ==
  ASSUME NEW n \in Nat, n <= 1, NEW S \in SUBSET Processes,
         \A v, w \in S : v = w,
         S # {} => n = 0
  PROVE  n + Cardinality(S) <= 1
<1>1. CASE S = {}
  BY <1>1, FS_EmptySet
<1>2. CASE S # {}
  <2>1. PICK w : S = {w}
    BY <1>2
  <2>2. Cardinality(S) = 1
    BY <2>1, FS_Singleton
  <2>3. n = 0
    BY <1>2
  <2> QED BY <2>2, <2>3
<1> QED BY <1>1, <1>2

\* Nobody is reminded or charged twice, through restarts, concurrent loops,
\* refused inserts and deadlock victims, for any number of processes,
\* installments and days: the exceptions are passes that had both read a
\* committed row, and mails of a pass that was rolled back.
THEOREM OnceUnlessSharedHolds == PassSpec => []OnceUnlessShared
<1>1. PassInv => OnceUnlessShared
  <2> SUFFICES ASSUME PassInv PROVE OnceUnlessShared
    OBVIOUS
  <2>1. \A w \in Processes : PassOK(pass[w]) /\ RowOK(pass[w], shared) /\ pass[w] \in Pass
    BY PassFacts
  <2>2. PassTypes
    <3>1. \A w \in Processes :
             /\ pass[w].todo \subseteq Pairs /\ pass[w].mailed \subseteq Pairs
             /\ pass[w].step \notin {"none", "next"} => pass[w].at \in Pairs
             /\ pass[w].charged \subseteq Installments /\ pass[w].seen \subseteq Installments
      BY <2>1 DEF PassOK, Pass
    <3>2. \A w \in Processes : \A v \in Processes \ {w}, i \in Installments :
             ~(pass[v].mine[i].exists /\ pass[w].mine[i].exists)
      BY DEF PassInv, Alone, Apart
    <3> QED BY <3>1, <3>2 DEF PassInv, Clock, Accounted, PassRow, PassTypes
  <2>3. RemindedOnce
    <3>1. SUFFICES ASSUME NEW q \in Pairs, q[1] \notin shared PROVE Copies(q) <= 1
      BY DEF RemindedOnce
    <3> DEFINE S == {w \in Processes : q \in pass[w].mailed}
    <3>2. ASSUME NEW w \in S PROVE Holds(pass[w], q[1]) /\ kept[q] = 0
      <4>1. PassOK(pass[w]) /\ RowOK(pass[w], shared) /\ q \in pass[w].mailed
        BY <2>1
      <4>2. q[1] \in Installments /\ q # <<>>
        BY PairParts
      <4>3. Holds(pass[w], q[1])
        <5>1. CASE q[2] \in pass[w].mine[q[1]].stamped
          BY <5>1, <4>1, <4>2 DEF PassOK, Holds
        <5>2. CASE pass[w].step = "stamp" /\ pass[w].at = q
          BY <5>2, <4>1, <4>2 DEF PassOK, InHand
        <5> QED BY <5>1, <5>2, <4>1 DEF PassOK
      <4> QED BY <4>1, <4>3, <3>1 DEF RowOK
    <3>3. \A v, w \in S : v = w
      BY <3>1, <3>2, PairParts DEF PassInv, Alone, Apart
    <3>4. kept[q] \in Nat /\ kept[q] <= 1
      BY <3>1 DEF PassInv, Accounted
    <3> QED BY <3>2, <3>3, <3>4, CountedOnce DEF Copies
  <2>4. ChargedOnceUnlessShared
    <3>1. SUFFICES ASSUME NEW i \in Installments, i \notin shared PROVE Charges(i) <= 1
      BY DEF ChargedOnceUnlessShared
    <3> DEFINE S == {w \in Processes : i \in pass[w].charged}
    <3>2. ASSUME NEW w \in S PROVE Holds(pass[w], i) /\ fees[i] = 0
      BY <3>1, <2>1 DEF PassOK, RowOK, Holds
    <3>3. \A v, w \in S : v = w
      BY <3>1, <3>2 DEF PassInv, Alone, Apart
    <3>4. fees[i] \in Nat /\ fees[i] <= 1
      BY <3>1 DEF PassInv, Accounted
    <3> QED BY <3>2, <3>3, <3>4, CountedOnce DEF Charges
  <2> QED BY <2>2, <2>3, <2>4 DEF OnceUnlessShared
<1> QED BY <1>1, ReminderInvariant, PTL

\* What a committed pass mailed or charged is on the row, also on a shared one:
\* a commit writes the columns it assigned over the committed ones.
THEOREM EffectsStampedHolds == PassSpec => []EffectsStamped
<1>1. PassInv => EffectsStamped
  <2> SUFFICES ASSUME PassInv, NEW i \in Installments
               PROVE  /\ \A k \in DOMAIN Target[i] : kept[<<i, k>>] > 0 => k \in row[i].stamped
                      /\ fees[i] > 0 => Late \in row[i].stamped
    BY DEF EffectsStamped
  <2>1. \A k \in DOMAIN Target[i] : <<i, k>> \in Pairs
    BY DEF Pairs, Slots
  <2> QED BY <2>1 DEF PassInv, Accounted
<1> QED BY <1>1, ReminderInvariant, PTL
-----------------------------------------------------------------------------
(***************************************************************************)
(* The links of one document and its copies (PortalLinks), for any number  *)
(* of requests, links and contacts.                                        *)
(*                                                                         *)
(* A link that was minted keeps its contact for good, so what a request    *)
(* has read of a link stays true while mails leave and receipts come in    *)
(* (RequestOK).  A copy can only be believed when nothing lay between the  *)
(* two reads of its rendering; the invariant says besides that no copy is  *)
(* of a revision to come, that a draft has only copies of a draft, and     *)
(* that while a signature is under way every copy of the revision it signs *)
(* is marked (CopiesSound).                                                *)
(***************************************************************************)
Invitation == [to : Contacts, state : {"none", "live", "revoked", "deleted"},
               views : Nat, seen : BOOLEAN, logged : Nat, crossed : BOOLEAN]
Document == [status : {"draft", "sent", "signed", "closed"}, rev : 1..MaxRevision, terms : Terms]
Copy == [there : {TRUE}, head : Terms, body : Terms,
         signed : BOOLEAN, draft : BOOLEAN, crossed : BOOLEAN]

\* A request and the links it has read, as they are by now.
RequestOK(q, links) ==
    /\ q.op \in {"resend", "add"} => q.new \subseteq Contacts
    /\ q.op = "collect" =>
          /\ \A k \in q.ids : k \in Keys /\ links[k].state # "none" /\ links[k].to \in q.asked
          /\ q.ids = {} /\ ~q.lost => q.asked = Contacts
    /\ q.op = "mail" =>
          \A k \in q.todo : /\ k \in Keys /\ links[k].state # "none"
                            /\ ~q.lost => links[k].to \in q.asked
    /\ q.op = "receipt" =>
          /\ q.key \in Keys /\ links[q.key].state # "none" /\ q.was \in Invitation
          /\ q.was.crossed => links[q.key].crossed
          /\ ~q.was.crossed => q.was.seen = (q.was.views > 0)

\* A rendering under way, and the document it reads.
RenderOK(q, d) ==
    q.op = "render" => /\ q.was \in Document /\ q.was.rev <= d.rev
                       /\ d.status = "draft" => q.was.status = "draft"

LinksInv ==
    /\ link \in [Keys -> Invitation]
    /\ request = [r \in Requests |-> request[r]]
    /\ \A r \in Requests : RequestOK(request[r], link)
    /\ OneLiveLink /\ OpenedOnce

CopiesSound ==
    /\ doc \in Document
    /\ file \in [1..MaxRevision -> {NoFile} \cup Copy]
    /\ \A v \in 1..MaxRevision : file[v].there =>
          /\ v <= doc.rev
          /\ doc.status = "draft" => file[v].draft
    /\ Signing /\ file[doc.rev].there => file[doc.rev].draft \/ file[doc.rev].crossed
    /\ \A r \in Requests : RenderOK(request[r], doc)
    /\ CopyShows

PortalInv == LinksInv /\ CopiesSound

\* Links only grow: who a link is for, once minted, stays, and that two receipts
\* of it overlapped.
LinksStay ==
    \A k \in Keys : link[k].state # "none" =>
        /\ link'[k].state # "none" /\ link'[k].to = link[k].to
        /\ link[k].crossed => link'[k].crossed

-----------------------------------------------------------------------------
\* What a request has read of the links is true after every step.
LEMMA ReadStays ==
    ASSUME LinksStay, NEW q, RequestOK(q, link)
    PROVE  RequestOK(q, link')
BY DEF RequestOK, LinksStay

\* A step of request r, after which it says x.
LEMMA LinksStep ==
    ASSUME LinksInv, NEW r \in Requests, NEW x, request' = [request EXCEPT ![r] = x],
           LinksStay, RequestOK(x, link'), link' \in [Keys -> Invitation],
           OneLiveLink', OpenedOnce'
    PROVE  LinksInv'
<1>1. request'[r] = x /\ \A t \in Requests \ {r} : request'[t] = request[t]
  BY DEF LinksInv
<1>2. \A t \in Requests : RequestOK(request'[t], link')
  BY <1>1, ReadStays DEF LinksInv
<1>3. request' = [t \in Requests |-> request'[t]]
  BY DEF LinksInv
<1> QED BY <1>2, <1>3 DEF LinksInv

\* A step of request r that writes no link.
LEMMA LinksRead ==
    ASSUME LinksInv, NEW r \in Requests, NEW x, request' = [request EXCEPT ![r] = x],
           RequestOK(x, link), UNCHANGED link
    PROVE  LinksInv'
<1>1. LinksStay
  BY DEF LinksStay
<1>2. OneLiveLink' /\ OpenedOnce'
  BY DEF LinksInv, OneLiveLink, OpenedOnce, Live
<1> QED BY <1>1, <1>2, LinksStep DEF LinksInv

\* New links: each is for one contact who had none.
LEMMA Minting ==
    ASSUME LinksInv, NEW cs \in SUBSET Contacts, LinksOf(cs) = {},
           NEW p \in Picks(cs), link' = Minted(p)
    PROVE  /\ link' \in [Keys -> Invitation] /\ LinksStay
           /\ OneLiveLink' /\ OpenedOnce'
<1>1. /\ p \in [cs -> Fresh] /\ \A c, d \in cs : p[c] = p[d] => c = d
      /\ DOMAIN p = cs
  BY DEF Picks
<1> DEFINE new == {k \in Keys : \E c \in cs : p[c] = k}
           for(k) == CHOOSE c \in cs : p[c] = k
           minted(c) == [NoLink EXCEPT !.to = c, !.state = "live"]
<1>2. \A k \in Keys : link'[k] = IF k \in new THEN minted(for(k)) ELSE link[k]
  BY <1>1 DEF Minted
<1>3. \A k \in new : k \in Keys /\ for(k) \in cs /\ for(k) \in Contacts /\ p[for(k)] = k
  OBVIOUS
<1>4. \A c \in Contacts : /\ minted(c) \in Invitation /\ minted(c).to = c /\ minted(c).state = "live"
                          /\ minted(c).views = 0 /\ minted(c).logged = 0 /\ ~minted(c).seen
  BY PortalAssumption DEF NoLink, Invitation
<1>5. \A k \in new : link[k].state = "none"
  BY <1>1 DEF Fresh
<1>6. link' = [k \in Keys |-> link'[k]]
  BY DEF Minted
<1> HIDE DEF minted, for, new
<1>7. link' \in [Keys -> Invitation]
  BY <1>2, <1>3, <1>4, <1>6 DEF LinksInv
<1>8. LinksStay
  BY <1>2, <1>5 DEF LinksStay
<1>9. OneLiveLink'
  <2>1. ASSUME NEW k \in Keys, NEW l \in Keys, k # l,
               link'[k].state = "live", link'[l].state = "live"
        PROVE  link'[k].to # link'[l].to
    <3>1. \A m \in new : link'[m].to = for(m) /\ for(m) \in cs /\ p[for(m)] = m
      BY <1>2, <1>3, <1>4
    <3>2. \A m \in Keys \ new : link'[m] = link[m]
      BY <1>2
    <3>3. \A m \in Keys : link[m].state = "live" => link[m].to \notin cs
      BY DEF LinksOf, Live
    <3>4. CASE k \in new /\ l \in new
      BY <2>1, <3>1, <3>4
    <3>5. CASE k \notin new /\ l \notin new
      BY <2>1, <3>2, <3>5 DEF LinksInv, OneLiveLink, Live
    <3> QED BY <2>1, <3>1, <3>2, <3>3, <3>4, <3>5
  <2> QED BY <2>1 DEF OneLiveLink, Live
<1>10. OpenedOnce'
  <2>1. \A k \in new : link'[k].views = 0 /\ link'[k].logged = 0 /\ ~link'[k].seen
    BY <1>2, <1>3, <1>4
  <2>2. \A k \in Keys \ new : link'[k] = link[k]
    BY <1>2
  <2>3. ASSUME NEW k \in Keys, ~link'[k].crossed
        PROVE  /\ link'[k].logged = IF link'[k].views > 0 THEN 1 ELSE 0
               /\ link'[k].seen = (link'[k].views > 0)
    <3>1. CASE k \in new
      <4>1. link'[k].seen \in BOOLEAN
        BY <1>7 DEF Invitation
      <4> QED BY <2>1, <3>1, <4>1
    <3>2. CASE k \notin new
      BY <2>2, <2>3, <3>2 DEF LinksInv, OpenedOnce
    <3> QED BY <3>1, <3>2
  <2> QED BY <2>3 DEF OpenedOnce
<1> QED BY <1>7, <1>8, <1>9, <1>10

\* A request whose operation has read no link.
LEMMA NothingRead ==
    ASSUME NEW q, NEW links, q.op \in {"idle", "derive", "sign", "render"}
    PROVE  RequestOK(q, links)
BY DEF RequestOK

\* Every request of the customers and the staff keeps the links sound.
LEMMA LinkRequests ==
    ASSUME LinksInv, NEW r \in Requests, Request(r)
    PROVE  LinksInv'
<1> USE DEF Go, At
<1>1. CASE SendDocument(r)
  <2> DEFINE cs == Missing({Billed})
             x == [op |-> "collect", asked |-> Contacts, ids |-> {}, lost |-> FALSE]
  <2>1. PICK p \in Picks(cs) : link' = Minted(p)
    BY <1>1 DEF SendDocument
  <2>2. cs \in SUBSET Contacts /\ LinksOf(cs) = {}
    BY PortalAssumption DEF Missing, LinksOf
  <2> HIDE DEF cs
  <2>3. RequestOK(x, link')
    BY DEF RequestOK
  <2>4. request' = [request EXCEPT ![r] = x]
    BY <1>1 DEF SendDocument
  <2> HIDE DEF x
  <2> QED BY <2>1, <2>2, <2>3, <2>4, Minting, LinksStep
<1>2. CASE BeginResend(r)
  <2>1. PICK cs \in SUBSET Contacts :
            request' = [request EXCEPT ![r] = [op |-> "resend", asked |-> cs,
                                               new |-> Missing(cs)]]
    BY <1>2 DEF BeginResend
  <2> DEFINE x == [op |-> "resend", asked |-> cs, new |-> Missing(cs)]
  <2>2. RequestOK(x, link)
    BY DEF RequestOK, Missing
  <2> HIDE DEF x
  <2>3. request' = [request EXCEPT ![r] = x] /\ UNCHANGED link
    BY <1>2, <2>1 DEF x, BeginResend
  <2> QED BY <2>2, <2>3, LinksRead
<1>3. CASE CommitResend(r) \/ CommitAdd(r)
  <2> DEFINE cs == request[r].new
  <2>1. PICK p \in Picks(cs) : link' = Minted(p)
    BY <1>3 DEF CommitResend, CommitAdd
  <2>2. cs \in SUBSET Contacts /\ LinksOf(cs) = {}
    BY <1>3 DEF CommitResend, CommitAdd, Unclaimed, LinksInv, RequestOK
  <2>3. PICK x : request' = [request EXCEPT ![r] = x] /\ x.op \in {"derive", "idle"}
    <3> DEFINE x == [op |-> "derive", asked |-> request[r].asked]
    <3>1. x.op = "derive" /\ Idle.op = "idle"
      BY DEF Idle
    <3>2. \/ request' = [request EXCEPT ![r] = x]
          \/ request' = [request EXCEPT ![r] = Idle]
      BY <1>3 DEF CommitResend, CommitAdd
    <3> HIDE DEF x
    <3> QED BY <3>1, <3>2
  <2>4. RequestOK(x, link')
    BY <2>3, NothingRead
  <2> HIDE DEF cs
  <2> QED BY <2>1, <2>2, <2>3, <2>4, Minting, LinksStep
<1>4. CASE BeginAdd(r)
  <2>1. PICK c \in Missing(Contacts) :
            request' = [request EXCEPT ![r] = [op |-> "add", new |-> {c}]]
    BY <1>4 DEF BeginAdd
  <2> DEFINE x == [op |-> "add", new |-> {c}]
  <2>2. RequestOK(x, link)
    BY DEF RequestOK, Missing
  <2> HIDE DEF x
  <2>3. request' = [request EXCEPT ![r] = x] /\ UNCHANGED link
    BY <1>4, <2>1 DEF x, BeginAdd
  <2> QED BY <2>2, <2>3, LinksRead
<1>5. CASE Refuse(r) \/ BeginSign(r) \/ CommitSign(r)
           \/ BeginRender(r) \/ Render(r) \/ RenderFails(r)
  <2>1. PICK x : /\ request' = [request EXCEPT ![r] = x] /\ x.op \in {"idle", "sign", "render"}
                 /\ UNCHANGED link
    BY <1>5 DEF Refuse, BeginSign, CommitSign, BeginRender,
                Render, RenderFails, Idle
  <2>2. RequestOK(x, link)
    BY <2>1, NothingRead
  <2> QED BY <2>1, <2>2, LinksRead
<1>6. CASE ResendOne(r)
  <2>1. PICK k \in Live :
            request' = [request EXCEPT ![r] = [op |-> "collect", asked |-> {link[k].to},
                                               ids |-> {k}, lost |-> FALSE]]
    BY <1>6 DEF ResendOne
  <2> DEFINE x == [op |-> "collect", asked |-> {link[k].to}, ids |-> {k}, lost |-> FALSE]
  <2>2. RequestOK(x, link)
    BY DEF RequestOK, Live
  <2> HIDE DEF x
  <2>3. request' = [request EXCEPT ![r] = x] /\ UNCHANGED link
    BY <1>6, <2>1 DEF x, ResendOne
  <2> QED BY <2>2, <2>3, LinksRead
<1>7. CASE Derive(r)
  <2> DEFINE asked == request[r].asked
             x == [op |-> "collect", asked |-> asked, ids |-> LinksOf(asked),
                   lost |-> LinksOf(asked) = {}]
  <2>1. RequestOK(x, link)
    BY DEF RequestOK, LinksOf, Live
  <2>2. request' = [request EXCEPT ![r] = x] /\ UNCHANGED link
    BY <1>7 DEF Derive
  <2> HIDE DEF x
  <2> QED BY <2>1, <2>2, LinksRead
<1>8. CASE Collect(r)
  <2> DEFINE q == request[r]
             todo == Collected(q.ids)
             mail == [op |-> "mail", asked |-> q.asked, todo |-> todo, lost |-> q.lost]
             x == IF todo = {} THEN Idle ELSE mail
  <2>1. request' = [request EXCEPT ![r] = x] /\ UNCHANGED link /\ q.op = "collect"
    BY <1>8 DEF Collect
  <2>2. \A k \in todo : /\ k \in Keys /\ link[k].state # "none"
                        /\ ~q.lost => link[k].to \in q.asked
    <3>1. \A k \in Live : k \in Keys /\ link[k].state # "none"
                                 /\ link[k].to \in Contacts
      BY DEF Live, LinksInv, Invitation
    <3>2. RequestOK(q, link)
      BY DEF LinksInv
    <3>3. q.ids = {} /\ ~q.lost => q.asked = Contacts
      BY <2>1, <3>2 DEF RequestOK
    <3>4. \A k \in q.ids : link[k].to \in q.asked
      BY <2>1, <3>2 DEF RequestOK
    <3> HIDE DEF q
    <3> QED BY <3>1, <3>3, <3>4 DEF Collected
  <2> HIDE DEF todo
  <2>3. RequestOK(mail, link)
    BY <2>2 DEF RequestOK
  <2>4. RequestOK(Idle, link)
    BY NothingRead DEF Idle
  <2>5. RequestOK(x, link)
    BY <2>3, <2>4
  <2> HIDE DEF x
  <2> QED BY <2>1, <2>5, LinksRead
<1>9. CASE Mail(r)
  <2> DEFINE q == request[r]
  <2>1. q.op = "mail" /\ UNCHANGED link /\ RequestOK(q, link)
    BY <1>9 DEF Mail, LinksInv
  <2>2. RequestOK(Idle, link)
    BY NothingRead DEF Idle
  <2>3. ASSUME NEW k PROVE RequestOK([q EXCEPT !.todo = q.todo \ {k}], link)
    <3> DEFINE x == [q EXCEPT !.todo = q.todo \ {k}]
    <3>1. x.op = "mail" /\ x.todo \subseteq q.todo /\ x.lost = q.lost /\ x.asked = q.asked
      BY <2>1
    <3> HIDE DEF x
    <3>2. RequestOK(x, link)
      BY <2>1, <3>1 DEF RequestOK
    <3> QED BY <3>2 DEF x
  <2>4. PICK x : request' = [request EXCEPT ![r] = x] /\ RequestOK(x, link)
    <3>1. CASE request' = [request EXCEPT ![r] = Idle]
      BY <2>2, <3>1
    <3>2. CASE \E k \in q.todo : request' = [request EXCEPT ![r] = [q EXCEPT !.todo = q.todo \ {k}]]
      BY <2>3, <3>2
    <3> QED BY <1>9, <3>1, <3>2 DEF Mail
  <2> QED BY <2>1, <2>4, LinksRead
<1>10. CASE BeginReceipt(r)
  <2>1. PICK k \in Live :
            request' = [request EXCEPT ![r] = [op |-> "receipt", key |-> k, was |-> link[k]]]
    BY <1>10 DEF BeginReceipt
  <2> DEFINE x == [op |-> "receipt", key |-> k, was |-> link[k]]
  <2>2. RequestOK(x, link)
    BY DEF RequestOK, Live, LinksInv, OpenedOnce
  <2> HIDE DEF x
  <2>3. request' = [request EXCEPT ![r] = x] /\ UNCHANGED link
    BY <1>10, <2>1 DEF x, BeginReceipt
  <2> QED BY <2>2, <2>3, LinksRead
<1>11. CASE CommitReceipt(r)
  <2> DEFINE k == request[r].key
             was == request[r].was
             old == link[k]
             logged == old.logged + (IF FirstView(was) THEN 1 ELSE 0)
             crossed == old.crossed \/ old.views # was.views
             views == was.views + 1
             new == [old EXCEPT !.views = views, !.seen = TRUE, !.logged = logged,
                                !.crossed = crossed]
  <2>1. /\ k \in Keys /\ old.state # "none" /\ was \in Invitation /\ old \in Invitation
        /\ was.crossed => old.crossed
        /\ ~was.crossed => was.seen = (was.views > 0)
    BY <1>11 DEF CommitReceipt, LinksInv, RequestOK
  <2>2. /\ new \in Invitation /\ new.to = old.to /\ new.state = old.state
        /\ new.views = was.views + 1 /\ new.seen = TRUE
        /\ new.logged = old.logged + (IF ~was.seen THEN 1 ELSE 0)
        /\ new.crossed = (old.crossed \/ old.views # was.views)
    <3>1. logged \in Nat /\ views \in Nat /\ crossed \in BOOLEAN
      BY <2>1 DEF Invitation
    <3>2. old \in Invitation
      BY <2>1
    <3> HIDE DEF logged, crossed, views, old
    <3>3. /\ new \in Invitation /\ new.to = old.to /\ new.state = old.state
          /\ new.views = views /\ new.seen = TRUE /\ new.logged = logged
          /\ new.crossed = crossed
      BY <3>1, <3>2 DEF Invitation
    <3> QED BY <3>3 DEF logged, crossed, views, FirstView
  <2>3. link' = [link EXCEPT ![k] = new]
    BY <1>11, <2>1 DEF CommitReceipt, LinksInv
  <2>4. request' = [request EXCEPT ![r] = Idle]
    BY <1>11 DEF CommitReceipt
  <2> HIDE DEF new, k, was
  <2>5. link'[k] = new /\ \A l \in Keys \ {k} : link'[l] = link[l]
    BY <2>1, <2>3 DEF LinksInv
  <2>6. link' \in [Keys -> Invitation]
    BY <2>1, <2>2, <2>3 DEF LinksInv
  <2>7. LinksStay
    BY <2>1, <2>2, <2>5 DEF LinksStay
  <2>8. OneLiveLink'
    BY <2>1, <2>2, <2>5 DEF LinksInv, OneLiveLink, Live
  <2>9. OpenedOnce'
    <3>1. ASSUME ~new.crossed
          PROVE  new.logged = 1 /\ new.views > 0
      <4>1. /\ old.views = was.views /\ ~old.crossed /\ was.seen = (old.views > 0)
            /\ old.logged = IF old.views > 0 THEN 1 ELSE 0
        BY <2>1, <2>2, <3>1 DEF LinksInv, OpenedOnce, Invitation
      <4> QED BY <2>1, <2>2, <4>1 DEF Invitation
    <3>2. ~new.crossed => /\ new.logged = IF new.views > 0 THEN 1 ELSE 0
                          /\ new.seen = (new.views > 0)
      BY <2>2, <3>1
    <3> QED BY <2>1, <2>5, <3>2 DEF LinksInv, OpenedOnce
  <2>10. RequestOK(Idle, link')
    BY NothingRead DEF Idle
  <2> HIDE DEF Idle
  <2> QED BY <2>4, <2>6, <2>7, <2>8, <2>9, <2>10, LinksStep
<1> QED BY <1>1, <1>2, <1>3, <1>4, <1>5, <1>6, <1>7, <1>8, <1>9, <1>10, <1>11
        DEF Request

\* A link that is revoked or deleted is nobody's live link any more.
LEMMA LinksGo ==
    ASSUME LinksInv, NEW k \in Keys, Revoke(k) \/ Delete(k)
    PROVE  LinksInv'
<1>1. PICK st \in {"revoked", "deleted"} :
          link' = [link EXCEPT ![k] = [link[k] EXCEPT !.state = st]]
  BY DEF Revoke, Delete
<1> DEFINE new == [link[k] EXCEPT !.state = st]
<1>2. /\ new \in Invitation /\ new.state = st /\ new.to = link[k].to
      /\ new.views = link[k].views /\ new.seen = link[k].seen
      /\ new.logged = link[k].logged /\ new.crossed = link[k].crossed
  BY DEF LinksInv, Invitation
<1> HIDE DEF new
<1>3. link' = [link EXCEPT ![k] = new]
  BY <1>1 DEF new
<1>4. link'[k] = new /\ \A l \in Keys \ {k} : link'[l] = link[l]
  BY <1>3 DEF LinksInv
<1>5. link' \in [Keys -> Invitation]
  BY <1>2, <1>3 DEF LinksInv
<1>6. LinksStay
  BY <1>2, <1>4 DEF LinksStay
<1>7. OneLiveLink' /\ OpenedOnce'
  <2>1. OneLiveLink'
    BY <1>2, <1>4 DEF LinksInv, OneLiveLink, Live
  <2>2. OpenedOnce'
    BY <1>2, <1>4 DEF LinksInv, OpenedOnce
  <2> QED BY <2>1, <2>2
<1>8. UNCHANGED request
  BY DEF Revoke, Delete
<1> QED BY <1>5, <1>6, <1>7, <1>8, ReadStays DEF LinksInv

-----------------------------------------------------------------------------
\* A step of request r that changes neither the document nor a copy, and does
\* not begin to sign.
LEMMA CopiesRead ==
    ASSUME CopiesSound, LinksInv, NEW r \in Requests, NEW x,
           request' = [request EXCEPT ![r] = x], x.op # "sign", RenderOK(x, doc),
           UNCHANGED <<doc, file>>
    PROVE  CopiesSound'
<1>1. request'[r] = x /\ \A t \in Requests \ {r} : request'[t] = request[t]
  BY DEF LinksInv
<1>2. Signing' => Signing
  BY <1>1 DEF Signing, At
<1>3. \A t \in Requests : RenderOK(request'[t], doc')
  BY <1>1 DEF CopiesSound
<1>4. CopyShows'
  BY DEF CopiesSound, CopyShows
<1> QED BY <1>2, <1>3, <1>4 DEF CopiesSound

\* Every request of the customers and the staff keeps the copies sound.
LEMMA CopyRequests ==
    ASSUME PortalInv, NEW r \in Requests, Request(r)
    PROVE  CopiesSound'
<1> USE DEF PortalInv, Go, At
<1>1. \A q : q.op # "render" => RenderOK(q, doc)
  BY DEF RenderOK
<1>2. \A v \in 1..MaxRevision : file[v] = NoFile \/ file[v] \in Copy
  BY DEF CopiesSound
<1>3. doc \in Document /\ doc.rev \in 1..MaxRevision
  BY DEF CopiesSound, Document
<1>4. CASE SendDocument(r)
  <2> DEFINE x == [op |-> "collect", asked |-> Contacts, ids |-> {}, lost |-> FALSE]
  <2>1. /\ doc.status = "draft" /\ doc' = [doc EXCEPT !.status = "sent"] /\ UNCHANGED file
        /\ request' = [request EXCEPT ![r] = x]
    BY <1>4 DEF SendDocument
  <2>2. doc' \in Document /\ doc'.rev = doc.rev /\ doc'.status = "sent" /\ doc'.terms = doc.terms
    BY <1>3, <2>1 DEF Document
  <2>3. file[doc.rev].there => file[doc.rev].draft
    BY <1>3, <2>1 DEF CopiesSound
  <2>4. x.op = "collect"
    OBVIOUS
  <2> HIDE DEF x
  <2>5. \A t \in Requests : request'[t] = request[t] \/ request'[t].op = "collect"
    BY <2>1, <2>4 DEF LinksInv
  <2>6. \A t \in Requests : RenderOK(request'[t], doc')
    BY <2>2, <2>5 DEF CopiesSound, RenderOK
  <2>7. CopyShows'
    BY <2>1, <2>2, <2>3 DEF CopyShows
  <2> QED BY <2>1, <2>2, <2>3, <2>6, <2>7 DEF CopiesSound
<1>5. CASE CommitSign(r)
  <2>1. /\ doc' = [doc EXCEPT !.status = "signed"] /\ UNCHANGED file /\ Signing
        /\ request' = [request EXCEPT ![r] = Idle] /\ Idle.op = "idle"
    BY <1>5 DEF CommitSign, Signing, Idle
  <2>2. doc' \in Document /\ doc'.rev = doc.rev /\ doc'.status = "signed" /\ doc'.terms = doc.terms
    BY <1>3, <2>1 DEF Document
  <2>3. file[doc.rev].there => file[doc.rev].draft \/ file[doc.rev].crossed
    BY <2>1 DEF CopiesSound
  <2>4. \A t \in Requests : request'[t] = request[t] \/ request'[t].op = "idle"
    BY <2>1 DEF LinksInv
  <2>5. \A t \in Requests : RenderOK(request'[t], doc')
    BY <2>2, <2>4 DEF CopiesSound, RenderOK
  <2>6. CopyShows'
    BY <2>1, <2>2, <2>3 DEF CopyShows
  <2> QED BY <2>1, <2>2, <2>3, <2>5, <2>6 DEF CopiesSound
<1>6. CASE BeginSign(r)
  <2> DEFINE x == [op |-> "sign"]
  <2>1. /\ file' = [file EXCEPT ![doc.rev] = NoFile] /\ UNCHANGED doc
        /\ doc.status = "sent" /\ request' = [request EXCEPT ![r] = x]
    BY <1>6 DEF BeginSign, Invalidated
  <2>2. x.op = "sign" /\ ~NoFile.there
    BY DEF NoFile
  <2> HIDE DEF x
  <2>3. file'[doc.rev] = NoFile
        /\ \A v \in 1..MaxRevision \ {doc.rev} : file'[v] = file[v]
    BY <1>3, <2>1 DEF CopiesSound
  <2>4. file' \in [1..MaxRevision -> {NoFile} \cup Copy]
    BY <1>3, <2>1 DEF CopiesSound
  <2>5. \A t \in Requests : request'[t] = request[t] \/ request'[t].op = "sign"
    BY <2>1, <2>2 DEF LinksInv
  <2>6. \A t \in Requests : RenderOK(request'[t], doc')
    BY <2>1, <2>5 DEF CopiesSound, RenderOK
  <2>7. CopyShows'
    BY <2>1, <2>2, <2>3 DEF CopyShows
  <2>8. \A v \in 1..MaxRevision : file'[v].there =>
            v <= doc'.rev /\ (doc'.status = "draft" => file'[v].draft)
    BY <2>1, <2>2, <2>3 DEF CopiesSound
  <2> QED BY <1>3, <2>1, <2>2, <2>3, <2>4, <2>6, <2>7, <2>8 DEF CopiesSound
<1>7. CASE Render(r)
  <2> DEFINE was == request[r].was
             new == [there |-> TRUE, head |-> was.terms, body |-> doc.terms,
                     signed |-> was.status = "signed", draft |-> was.status = "draft",
                     crossed |-> doc # was \/ Signing]
  <2>1. /\ was \in Document /\ was.rev <= doc.rev
        /\ doc.status = "draft" => was.status = "draft"
    BY <1>7 DEF Render, CopiesSound, RenderOK
  <2>2. /\ file' = [file EXCEPT ![was.rev] = new] /\ UNCHANGED doc
        /\ request' = [request EXCEPT ![r] = Idle] /\ Idle.op = "idle"
    BY <1>7 DEF Render, Idle
  <2>3. /\ new \in Copy /\ new.there /\ new.head = was.terms /\ new.body = doc.terms
        /\ new.signed = (was.status = "signed") /\ new.draft = (was.status = "draft")
        /\ new.crossed = (doc # was \/ Signing)
    <3> DEFINE signed == was.status = "signed"
               draft == was.status = "draft"
               crossed == doc # was \/ Signing
    <3>1. signed \in BOOLEAN /\ draft \in BOOLEAN /\ crossed \in BOOLEAN
      OBVIOUS
    <3>2. was.terms \in Terms /\ doc.terms \in Terms
      BY <1>3, <2>1 DEF Document
    <3> HIDE DEF signed, draft, crossed, was
    <3>3. [there |-> TRUE, head |-> was.terms, body |-> doc.terms,
           signed |-> signed, draft |-> draft, crossed |-> crossed] \in Copy
      BY <3>1, <3>2 DEF Copy
    <3> QED BY <3>3 DEF signed, draft, crossed, was
  <2>4. was.rev \in 1..MaxRevision
    BY <2>1 DEF Document
  <2> HIDE DEF new, was
  <2>5. file'[was.rev] = new /\ \A v \in 1..MaxRevision \ {was.rev} : file'[v] = file[v]
    BY <2>2, <2>4 DEF CopiesSound
  <2>6. file' \in [1..MaxRevision -> {NoFile} \cup Copy]
    BY <2>2, <2>3, <2>4 DEF CopiesSound
  <2>7. \A t \in Requests : request'[t] = request[t] \/ request'[t].op = "idle"
    BY <2>2 DEF LinksInv
  <2>8. \A t \in Requests : RenderOK(request'[t], doc')
    BY <2>2, <2>7 DEF CopiesSound, RenderOK
  <2>9. Signing' => Signing
    BY <2>7 DEF Signing
  <2>10. \A v \in 1..MaxRevision : file'[v].there =>
             v <= doc'.rev /\ (doc'.status = "draft" => file'[v].draft)
    <3>1. ASSUME NEW v \in 1..MaxRevision, file'[v].there
          PROVE  v <= doc.rev /\ (doc.status = "draft" => file'[v].draft)
      <4>1. CASE v = was.rev
        BY <2>1, <2>3, <2>5, <4>1
      <4>2. CASE v # was.rev
        BY <2>5, <3>1, <4>2 DEF CopiesSound
      <4> QED BY <4>1, <4>2
    <3> QED BY <2>2, <3>1
  <2>11. Signing /\ file'[doc.rev].there => file'[doc.rev].draft \/ file'[doc.rev].crossed
    BY <1>3, <2>3, <2>5 DEF CopiesSound
  <2>12. CopyShows'
    <3>1. CASE was.rev = doc.rev
      BY <2>2, <2>3, <2>5, <3>1 DEF CopyShows
    <3>2. CASE was.rev # doc.rev
      BY <1>3, <2>2, <2>5, <3>2 DEF CopiesSound, CopyShows
    <3> QED BY <3>1, <3>2
  <2> QED BY <1>3, <2>2, <2>6, <2>8, <2>9, <2>10, <2>11, <2>12 DEF CopiesSound
<1>8. CASE BeginRender(r)
  <2> DEFINE x == [op |-> "render", was |-> doc]
  <2>1. request' = [request EXCEPT ![r] = x] /\ UNCHANGED <<doc, file>>
    BY <1>8 DEF BeginRender
  <2>2. x.op # "sign" /\ RenderOK(x, doc)
    BY <1>3 DEF RenderOK, Document
  <2> HIDE DEF x
  <2> QED BY <2>1, <2>2, CopiesRead
<1>9. CASE BeginResend(r) \/ CommitResend(r) \/ BeginAdd(r)
           \/ CommitAdd(r) \/ Refuse(r) \/ ResendOne(r) \/ Derive(r)
           \/ Collect(r) \/ BeginReceipt(r) \/ CommitReceipt(r)
           \/ RenderFails(r)
  <2>1. UNCHANGED <<doc, file>>
    BY <1>9 DEF BeginResend, CommitResend, BeginAdd, CommitAdd,
       Refuse, ResendOne, Derive, Collect, BeginReceipt,
       CommitReceipt, RenderFails
  <2>2. PICK x : request' = [request EXCEPT ![r] = x]
                 /\ x.op \in {"idle", "resend", "derive", "add", "collect", "mail", "receipt"}
    <3> DEFINE Ok(x) == x.op \in {"idle", "resend", "derive", "add", "collect", "mail", "receipt"}
    <3>1. Ok(Idle)
      BY DEF Idle
    <3>2. \A cs, new : Ok([op |-> "resend", asked |-> cs, new |-> new])
      OBVIOUS
    <3>3. \A cs : Ok([op |-> "derive", asked |-> cs]) /\ Ok([op |-> "add", new |-> cs])
      OBVIOUS
    <3>4. \A cs, ks, b : /\ Ok([op |-> "collect", asked |-> cs, ids |-> ks, lost |-> b])
                         /\ Ok([op |-> "mail", asked |-> cs, todo |-> ks, lost |-> b])
      OBVIOUS
    <3>5. \A k, was : Ok([op |-> "receipt", key |-> k, was |-> was])
      OBVIOUS
    <3> HIDE DEF Ok, Idle
    <3>6. \E x : request' = [request EXCEPT ![r] = x] /\ Ok(x)
      <4>1. CASE BeginResend(r)
        BY <3>2, <4>1 DEF BeginResend
      <4>2. CASE CommitResend(r) \/ BeginAdd(r) \/ CommitAdd(r)
                 \/ Refuse(r) \/ RenderFails(r) \/ CommitReceipt(r)
        BY <3>1, <3>3, <4>2 DEF CommitResend, BeginAdd, CommitAdd,
           Refuse, RenderFails, CommitReceipt
      <4>3. CASE ResendOne(r)
        BY <3>4, <4>3 DEF ResendOne
      <4>6. CASE Derive(r)
        <5> DEFINE lost == LinksOf(request[r].asked) = {}
                   x == [op |-> "collect", asked |-> request[r].asked,
                         ids |-> LinksOf(request[r].asked), lost |-> lost]
        <5>1. request' = [request EXCEPT ![r] = x]
          BY <4>6 DEF Derive
        <5> HIDE DEF lost
        <5>2. Ok(x)
          BY <3>4
        <5> QED BY <5>1, <5>2
      <4>4. CASE Collect(r)
        BY <3>1, <3>4, <4>4 DEF Collect
      <4>5. CASE BeginReceipt(r)
        BY <3>5, <4>5 DEF BeginReceipt
      <4> QED BY <1>9, <4>1, <4>2, <4>3, <4>4, <4>5, <4>6
    <3> QED BY <3>6 DEF Ok
  <2> QED BY <1>1, <2>1, <2>2, CopiesRead
<1>10. CASE Mail(r)
  <2> DEFINE q == request[r]
  <2>1. UNCHANGED <<doc, file>> /\ q.op = "mail"
    BY <1>10 DEF Mail
  <2>2. \A k : [q EXCEPT !.todo = q.todo \ {k}].op = q.op
    OBVIOUS
  <2>3. PICK x : request' = [request EXCEPT ![r] = x] /\ x.op \in {"idle", "mail"}
    <3>1. CASE request' = [request EXCEPT ![r] = Idle]
      <4>1. Idle.op = "idle"
        BY DEF Idle
      <4> QED BY <3>1, <4>1
    <3>2. CASE \E k \in q.todo : request' = [request EXCEPT ![r] = [q EXCEPT !.todo = q.todo \ {k}]]
      <4>1. PICK k \in q.todo :
                request' = [request EXCEPT ![r] = [q EXCEPT !.todo = q.todo \ {k}]]
        BY <3>2
      <4> DEFINE x == [q EXCEPT !.todo = q.todo \ {k}]
      <4>2. x.op = "mail"
        BY <2>1
      <4>3. request' = [request EXCEPT ![r] = x]
        BY <4>1
      <4> HIDE DEF x
      <4> QED BY <4>2, <4>3
    <3> QED BY <1>10, <3>1, <3>2 DEF Mail
  <2> QED BY <1>1, <2>1, <2>3, CopiesRead
<1> QED BY <1>4, <1>5, <1>6, <1>7, <1>8, <1>9, <1>10 DEF Request

\* An edit of a sent document opens a revision that has no copy yet, and one of a
\* draft only outdates copies of a draft.
LEMMA DocumentMoves ==
    ASSUME PortalInv, Edit \/ Close
    PROVE  PortalInv'
<1>1. UNCHANGED <<link, file, request>>
  BY DEF Edit, Close
<1>2. LinksInv'
  BY <1>1 DEF PortalInv, LinksInv, OneLiveLink, OpenedOnce, Live
<1>3. doc \in Document /\ doc.rev \in 1..MaxRevision
  BY DEF PortalInv, CopiesSound, Document
<1>4. CASE Close
  <2>1. doc.status = "sent" /\ doc' = [doc EXCEPT !.status = "closed"]
    BY <1>4 DEF Close
  <2>2. doc' \in Document /\ doc'.rev = doc.rev /\ doc'.status = "closed" /\ doc'.terms = doc.terms
    BY <1>3, <2>1 DEF Document
  <2>3. CopyShows' /\ (Signing' => Signing)
    BY <1>1, <2>1, <2>2 DEF PortalInv, CopiesSound, CopyShows, Signing, At
  <2>4. \A t \in Requests : RenderOK(request'[t], doc')
    BY <1>1, <2>2 DEF PortalInv, CopiesSound, RenderOK
  <2>5. CopiesSound'
    BY <1>1, <2>1, <2>2, <2>3, <2>4 DEF PortalInv, CopiesSound
  <2> QED BY <1>2, <2>5 DEF PortalInv
<1>5. CASE Edit /\ doc.status = "sent"
  <2>1. PICK w \in Terms : doc' = [doc EXCEPT !.terms = w, !.rev = doc.rev + 1]
    BY <1>5 DEF Edit
  <2>2. doc.rev + 1 \in 1..MaxRevision
    <3>1. doc.rev < MaxRevision
      BY <1>5 DEF Edit
    <3>2. doc.rev \in 1..MaxRevision /\ MaxRevision \in Nat
      BY <1>3, PortalAssumption
    <3> QED BY <3>1, <3>2
  <2>3. doc' \in Document /\ doc'.rev = doc.rev + 1 /\ doc'.status = "sent"
    BY <1>3, <1>5, <2>1, <2>2 DEF Document
  <2>4. ~file[doc.rev + 1].there
    BY <1>3, <2>2 DEF PortalInv, CopiesSound
  <2>5. CopyShows'
    BY <1>1, <2>3, <2>4 DEF CopyShows
  <2>6. \A t \in Requests : RenderOK(request'[t], doc')
    <3>1. ASSUME NEW t \in Requests, request[t].op = "render"
          PROVE  request[t].was \in Document /\ request[t].was.rev <= doc.rev + 1
      <4>1. request[t].was \in Document /\ request[t].was.rev <= doc.rev
        BY <3>1 DEF PortalInv, CopiesSound, RenderOK
      <4>2. request[t].was.rev \in Int
        BY <4>1 DEF Document
      <4> QED BY <1>3, <4>1, <4>2
    <3> QED BY <1>1, <2>3, <3>1 DEF RenderOK
  <2>7. \A v \in 1..MaxRevision : file[v].there => v <= doc.rev + 1
    BY <1>3 DEF PortalInv, CopiesSound
  <2>8. CopiesSound'
    BY <1>1, <2>3, <2>4, <2>5, <2>6, <2>7 DEF PortalInv, CopiesSound
  <2> QED BY <1>2, <2>8 DEF PortalInv
<1>6. CASE Edit /\ doc.status = "draft"
  <2>1. PICK t \in Terms : doc' = [doc EXCEPT !.terms = t, !.rev = doc.rev]
    BY <1>6 DEF Edit
  <2>2. doc' \in Document /\ doc'.rev = doc.rev /\ doc'.status = "draft"
    BY <1>3, <1>6, <2>1 DEF Document
  <2>3. file[doc.rev].there => file[doc.rev].draft
    BY <1>3, <1>6 DEF PortalInv, CopiesSound
  <2>4. CopyShows'
    BY <1>1, <2>2, <2>3 DEF CopyShows
  <2>5. \A q \in Requests : RenderOK(request'[q], doc')
    BY <1>1, <1>6, <2>2 DEF PortalInv, CopiesSound, RenderOK
  <2>6. CopiesSound'
    BY <1>1, <1>6, <2>2, <2>3, <2>4, <2>5 DEF PortalInv, CopiesSound
  <2> QED BY <1>2, <2>6 DEF PortalInv
<1> QED BY <1>4, <1>5, <1>6 DEF Edit

\* Every step keeps the links and the copies sound.
LEMMA PortalStep ==
    ASSUME PortalInv, [PortalNext]_portalVars
    PROVE  PortalInv'
<1>1. ASSUME NEW r \in Requests, Request(r) PROVE PortalInv'
  BY <1>1, LinkRequests, CopyRequests DEF PortalInv
<1>2. ASSUME NEW k \in Keys, Revoke(k) \/ Delete(k) PROVE PortalInv'
  <2>1. UNCHANGED <<doc, file, request>>
    BY <1>2 DEF Revoke, Delete
  <2>2. CopiesSound'
    BY <2>1 DEF PortalInv, CopiesSound, Signing, At, CopyShows, RenderOK
  <2> QED BY <1>2, <2>2, LinksGo DEF PortalInv
<1>3. CASE UNCHANGED portalVars
  <2>1. UNCHANGED <<doc, file, link, request>>
    BY <1>3 DEF portalVars
  <2>2. LinksInv'
    BY <2>1 DEF PortalInv, LinksInv, OneLiveLink, OpenedOnce, Live
  <2>3. CopiesSound'
    BY <2>1 DEF PortalInv, CopiesSound, Signing, At, CopyShows, RenderOK
  <2> QED BY <2>2, <2>3 DEF PortalInv
<1> QED BY <1>1, <1>2, <1>3, DocumentMoves DEF PortalNext

\* A draft nobody has a link to.
LEMMA PortalBegins ==
    ASSUME PortalInit
    PROVE  PortalInv
<1>1. NoLink \in Invitation /\ NoLink.state = "none"
      /\ NoLink.views = 0 /\ NoLink.logged = 0 /\ NoLink.seen = FALSE
  BY PortalAssumption DEF NoLink, Invitation
<1>2. \A k \in Keys : link[k] = NoLink
  BY DEF PortalInit
<1>3. \A r \in Requests : request[r].op = "idle"
  BY DEF PortalInit, Idle
<1>4. LinksInv
  <2>1. \A r \in Requests : RequestOK(request[r], link)
    BY <1>3, NothingRead
  <2>2. OneLiveLink /\ OpenedOnce
    <3>1. \A k \in Keys : /\ link[k].state = "none" /\ link[k].views = 0
                            /\ link[k].logged = 0 /\ link[k].seen = FALSE
      BY <1>1, <1>2
    <3>2. OneLiveLink
      BY <3>1 DEF OneLiveLink, Live
    <3>3. OpenedOnce
      <4>1. \A k \in Keys :
                /\ link[k].logged = IF link[k].views > 0 THEN 1 ELSE 0
                /\ link[k].seen = (link[k].views > 0)
        <5>1. ASSUME NEW k \in Keys
              PROVE  /\ link[k].logged = IF link[k].views > 0 THEN 1 ELSE 0
                     /\ link[k].seen = (link[k].views > 0)
          <6>1. (link[k].views > 0) = FALSE
            BY <3>1
          <6>2. link[k].seen = (link[k].views > 0)
            BY <3>1, <6>1, Zenon
          <6>3. link[k].logged = IF link[k].views > 0 THEN 1 ELSE 0
            BY <3>1, <6>1
          <6> QED BY <6>2, <6>3
        <5> QED BY <5>1
      <4> QED BY <4>1 DEF OpenedOnce
    <3> QED BY <3>2, <3>3
  <2>3. link \in [Keys -> Invitation] /\ request = [r \in Requests |-> request[r]]
    BY <1>1 DEF PortalInit
  <2> QED BY <2>1, <2>2, <2>3 DEF LinksInv
<1>5. PICK t \in Terms : doc = [status |-> "draft", rev |-> 1, terms |-> t]
  BY DEF PortalInit
<1>6. doc \in Document /\ doc.rev \in 1..MaxRevision
  BY <1>5, PortalAssumption DEF Document
<1>7. /\ \A v \in 1..MaxRevision : ~file[v].there
      /\ file \in [1..MaxRevision -> {NoFile} \cup Copy]
  BY DEF PortalInit, NoFile
<1>8. CopiesSound
  BY <1>3, <1>6, <1>7 DEF CopiesSound, CopyShows, RenderOK
<1> QED BY <1>4, <1>8 DEF PortalInv

\* Links and copies stay sound.
THEOREM PortalInvariant == PortalSpec => []PortalInv
<1>1. PortalInit => PortalInv
  BY PortalBegins
<1>2. PortalInv /\ [PortalNext]_portalVars => PortalInv'
  BY PortalStep
<1> QED BY <1>1, <1>2, PTL DEF PortalSpec

\* Nobody ever holds two live links to one document, a mail goes to whom its
\* request was for, and the timeline says once that a link was opened
\* (portal_service.py, portal_email.py).
THEOREM LinksSoundHolds == PortalSpec => []LinksSound
<1>1. PortalInv => LinksSound
  <2>1. PortalInv => MailsAsAsked
    BY DEF PortalInv, LinksInv, RequestOK, MailsAsAsked, At
  <2> QED BY <2>1 DEF PortalInv, LinksInv, LinksSound
<1> QED BY <1>1, PortalInvariant, PTL

\* The cached copy a download is served says what the document says and shows its
\* signature, unless it was rendered of the draft or across a change
\* (invoice_pdf.py).
THEOREM CopyShowsHolds == PortalSpec => []CopyShows
<1>1. PortalInv => CopyShows
  BY DEF PortalInv, CopiesSound
<1> QED BY <1>1, PortalInvariant, PTL
=============================================================================
