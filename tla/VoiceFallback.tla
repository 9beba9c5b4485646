---------------------------- MODULE VoiceFallback ----------------------------
(***************************************************************************)
(* One inbound call: the webhook rings the browser of every online         *)
(* representative, each leg reports back when it is over, and the last     *)
(* report starts the fallback (voice_routing.py, webhooks_twilio.py).      *)
(*                                                                         *)
(* The handlers are async functions without an await after the form is     *)
(* read, so a worker process runs one of them at a time; two workers share *)
(* the row of inbound_calls.  Twilio is external: a leg rings, is perhaps  *)
(* answered, ends, and then its status callback is under way.  Since only  *)
(* the event "completed" is subscribed to, an answered leg reports nothing *)
(* until it is over, and then reports the CallStatus "completed".          *)
(*                                                                         *)
(* The mode is browser_then_fallback with a fallback number set.           *)
(***************************************************************************)
EXTENDS Integers, FiniteSets

CONSTANTS
    Workers,        \* the uvicorn processes
    Reps,           \* representatives who may be online
    Retries,        \* bound: times Twilio delivers the inbound webhook again
    Resends,        \* bound: times Twilio delivers some callback again
    ResponsesLost   \* may the answer to a request that placed a leg be lost?

ASSUME VoiceAssumption ==
    /\ IsFiniteSet(Workers) /\ IsFiniteSet(Reps)
    /\ Retries \in Nat /\ Resends \in Nat /\ ResponsesLost \in BOOLEAN

\* A leg belongs to one delivery of the inbound webhook.
Legs == (1..(Retries + 1)) \X Reps

VARIABLES
    inbound,    \* the inbound_calls row: conference_name set, rep_legs_total,
                \* rep_legs_done, fallback_started
    leg,        \* where Twilio is with each leg
    callback,   \* status callbacks under way, per leg
    resent,     \* callbacks Twilio sent a second time
    delivered,  \* deliveries of the inbound webhook
    worker,     \* what each worker is doing
    fallbacks,  \* fallback legs placed
    unheard     \* legs whose callback found no call and was answered 204

voiceVars == <<inbound, leg, callback, resent, delivered, worker, fallbacks, unheard>>

LegState == {"none", "ringing", "answered", "declined", "left"}

NotBusy == [at |-> "idle", delivery |-> 0, todo |-> {}, started |-> 0]

VoiceInit ==
    /\ inbound = [named |-> FALSE, total |-> 0, done |-> 0, claimed |-> FALSE]
    /\ leg = [l \in Legs |-> "none"]
    /\ callback = [l \in Legs |-> 0]
    /\ resent = 0
    /\ delivered = 0
    /\ worker = [w \in Workers |-> NotBusy]
    /\ fallbacks = 0
    /\ unheard = {}

Busy(w, job) == worker' = [worker EXCEPT ![w] = job]

-----------------------------------------------------------------------------
(***************************************************************************)
(* POST /voice/inbound                                                     *)
(***************************************************************************)

\* Log the call (idempotent on CallSid), commit, and look who is online.  With
\* nobody online the caller is forwarded by the TwiML and the handler is done.
VoiceInbound(w, online) ==
    /\ worker[w] = NotBusy
    /\ delivered <= Retries
    /\ delivered' = delivered + 1
    /\ Busy(w, IF online = {} THEN NotBusy
               ELSE [at |-> "ring", delivery |-> delivered + 1,
                     todo |-> online, started |-> 0])
    /\ UNCHANGED <<inbound, leg, callback, resent, fallbacks, unheard>>

\* One turn of ring_browsers: Twilio places the leg, or refuses it; when the
\* answer is lost the leg rings but does not count as started.
RingBrowser(w, r) ==
    LET job == worker[w]
        l   == <<job.delivery, r>>
    IN  /\ job.at = "ring"
        /\ r \in job.todo
        /\ \E placed, known \in BOOLEAN :
              /\ known => placed
              /\ placed /\ ~known => ResponsesLost
              /\ leg' = IF placed THEN [leg EXCEPT ![l] = "ringing"] ELSE leg
              /\ Busy(w, [job EXCEPT !.todo = @ \ {r},
                                     !.started = IF known THEN @ + 1 ELSE @])
        /\ UNCHANGED <<inbound, callback, resent, delivered, fallbacks, unheard>>

\* The row learns its room and how many legs to wait for; no leg placed means
\* the caller is forwarded and the row stays as it is.
StoreTotal(w) ==
    LET job == worker[w]
    IN  /\ job.at = "ring"
        /\ job.todo = {}
        /\ inbound' = IF job.started = 0 THEN inbound
                      ELSE [inbound EXCEPT !.named = TRUE, !.total = job.started]
        /\ Busy(w, NotBusy)
        /\ UNCHANGED <<leg, callback, resent, delivered, fallbacks, unheard>>

-----------------------------------------------------------------------------
(***************************************************************************)
(* Twilio (external)                                                       *)
(***************************************************************************)
Answer(l) ==
    /\ leg[l] = "ringing"
    /\ leg' = [leg EXCEPT ![l] = "answered"]
    /\ UNCHANGED <<inbound, callback, resent, delivered, worker, fallbacks, unheard>>

\* Declined, timed out, or hung up after a talk: the one "completed" event.
EndLeg(l) ==
    /\ leg[l] \in {"ringing", "answered"}
    /\ leg' = [leg EXCEPT ![l] = IF @ = "ringing" THEN "declined" ELSE "left"]
    /\ callback' = [callback EXCEPT ![l] = @ + 1]
    /\ UNCHANGED <<inbound, resent, delivered, worker, fallbacks, unheard>>

\* Twilio did not see the answer to a callback and sends it again.
Resend(l) ==
    /\ leg[l] \in {"declined", "left"}
    /\ resent < Resends
    /\ resent' = resent + 1
    /\ callback' = [callback EXCEPT ![l] = @ + 1]
    /\ UNCHANGED <<inbound, leg, delivered, worker, fallbacks, unheard>>

CallStatus(l) == IF leg[l] = "left" THEN "completed" ELSE "no-answer"

-----------------------------------------------------------------------------
(***************************************************************************)
(* POST /voice/conference/rep-status                                       *)
(***************************************************************************)

\* Find the call by its room; a callback without one, or of a leg reported
\* as connected, is answered and forgotten.
VoiceRepStatus(w, l) ==
    /\ worker[w] = NotBusy
    /\ callback[l] > 0
    /\ callback' = [callback EXCEPT ![l] = @ - 1]
    /\ unheard' = IF inbound.named THEN unheard ELSE unheard \cup {l}
    /\ Busy(w, IF inbound.named /\ CallStatus(l) \notin {"in-progress", "answered"}
               THEN [NotBusy EXCEPT !.at = "claim"] ELSE NotBusy)
    /\ UNCHANGED <<inbound, leg, resent, delivered, fallbacks>>

\* done >= total; the faulty forms react to the first report, or wait for one
\* report too many.
AnyReported(done, total) == done > 0
MoreThanAllReported(done, total) == done > total
AllReported(done, total) == done >= total

\* WHERE NOT fallback_started; the faulty form claims regardless.
ClaimUnguarded(row) == TRUE
Unclaimed(row) == ~row.claimed

\* One finished leg more.
Counted(row) == [row EXCEPT !.done = @ + 1]

\* The first UPDATE locks the row until the commit, so the claim is one step.
ClaimFallback(w) ==
    LET counted == Counted(inbound)
        mine    == AllReported(counted.done, counted.total) /\ Unclaimed(counted)
    IN  /\ worker[w].at = "claim"
        /\ inbound' = [counted EXCEPT !.claimed = @ \/ mine]
        /\ Busy(w, IF mine THEN [NotBusy EXCEPT !.at = "fallback"] ELSE NotBusy)
        /\ UNCHANGED <<leg, callback, resent, delivered, fallbacks, unheard>>

\* The leg to the fallback number, which Twilio may refuse; nobody tries again.
RingFallback(w) ==
    /\ worker[w].at = "fallback"
    /\ fallbacks' \in {fallbacks, fallbacks + 1}
    /\ Busy(w, NotBusy)
    /\ UNCHANGED <<inbound, leg, callback, resent, delivered, unheard>>

-----------------------------------------------------------------------------
Work(w) ==
    \/ \E r \in Reps : RingBrowser(w, r)
    \/ StoreTotal(w)
    \/ ClaimFallback(w)
    \/ RingFallback(w)

Report == \E w \in Workers, l \in Legs : VoiceRepStatus(w, l)

VoiceNext ==
    \/ \E w \in Workers : Work(w) \/ \E online \in SUBSET Reps : VoiceInbound(w, online)
    \/ Report
    \/ \E l \in Legs : Answer(l) \/ EndLeg(l) \/ Resend(l)

\* A handler runs on (every REST call has a timeout of ten seconds), Twilio
\* delivers its callbacks, and a leg rings no longer than its Timeout.
Fairness ==
    /\ \A w \in Workers : WF_voiceVars(Work(w))
    /\ WF_voiceVars(Report)
    /\ \A l \in Legs : WF_voiceVars(EndLeg(l))

VoiceSpec == VoiceInit /\ [][VoiceNext]_voiceVars /\ Fairness

-----------------------------------------------------------------------------
(***************************************************************************)
(* Properties                                                              *)
(***************************************************************************)

\* Every variable has its type.
VoiceTypes ==
    /\ inbound \in [named : BOOLEAN, total : 0..Cardinality(Reps),
                 done : 0..(Cardinality(Legs) + Resends), claimed : BOOLEAN]
    /\ leg \in [Legs -> LegState]
    /\ callback \in [Legs -> 0..(1 + Resends)]
    /\ resent \in 0..Resends
    /\ delivered \in 0..(Retries + 1)
    /\ worker \in [Workers -> [at : {"idle", "ring", "claim", "fallback"},
                               delivery : 0..(Retries + 1), todo : SUBSET Reps,
                               started : 0..Cardinality(Reps)]]
    /\ fallbacks \in Nat
    /\ unheard \subseteq Legs

\* claim_fallback "returns True at most once per call": however callbacks are
\* repeated, reordered and spread over the workers, and even when the inbound
\* webhook runs twice, the fallback number is never rung twice.
FallbackOnce ==
    fallbacks + Cardinality({w \in Workers : worker[w].at = "fallback"}) <= 1

\* The caller is not pulled away from a browser that still rings, whatever the
\* order in which legs end and callbacks come; only a callback that Twilio
\* repeats may stand in for one that has not come.
NobodyStillRings ==
    /\ VoiceTypes
    /\ inbound.claimed /\ resent = 0 => \A l \in Legs : leg[l] # "ringing"

\* "When ALL of them have reported without anyone joining": the fallback is
\* for calls no representative took.
\* The code breaks it (README, Disagreements).
FallbackOnlyUnanswered ==
    inbound.claimed => \A l \in Legs : leg[l] \notin {"answered", "left"}

AllDeclined ==
    /\ inbound.named
    /\ \A l \in Legs : leg[l] \in {"none", "declined"}

\* When every leg was declined the caller gets the fallback.  The code breaks
\* it (README, Disagreements).
DeclinedGetsFallback == AllDeclined ~> inbound.claimed

\* The same for calls none of whose callbacks came before the row knew its
\* room.
HeardGetsFallback == (AllDeclined /\ unheard = {}) ~> inbound.claimed
=============================================================================
