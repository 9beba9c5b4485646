----------------------------- MODULE MessagingProofs -----------------------------
(***************************************************************************)
(* What the messaging module owes a customer who calls (VoiceFallback) and *)
(* one who writes (SmsThread), two specifications that share no state.     *)
(***************************************************************************)
EXTENDS VoiceFallback, SmsThread, FiniteSetTheorems, TLAPS

-----------------------------------------------------------------------------
(***************************************************************************)
(* The fallback number is rung at most once per call, for any number of    *)
(* workers and representatives, however often Twilio repeats the webhook   *)
(* or a callback, and whatever answers are lost; and, in a call that none  *)
(* of these befell, never while a browser still rings.                     *)
(*                                                                         *)
(* FallbackOnce is not inductive: that a worker may claim says nothing yet *)
(* about the others.  The flag of the row is what excludes them: VoiceInv  *)
(* ties it to the workers about to ring and to the legs already placed.    *)
(***************************************************************************)

\* The workers that have claimed the fallback and not rung it yet.
Ringers == {w \in Workers : worker[w].at = "fallback"}

Job == [at : {"idle", "ring", "claim", "fallback"}, delivery : Nat,
        todo : SUBSET Reps, started : Nat]

CallRow == [named : BOOLEAN, total : Nat, done : Nat, claimed : BOOLEAN]

RowTyped ==
    /\ inbound \in CallRow
    /\ worker \in [Workers -> Job]
    /\ fallbacks \in Nat
    /\ delivered \in Nat

Exclusive ==
    /\ ~inbound.claimed => fallbacks = 0 /\ \A w \in Workers : worker[w].at # "fallback"
    /\ fallbacks <= 1
    /\ fallbacks = 1 => \A w \in Workers : worker[w].at # "fallback"
    /\ \A v, w \in Workers :
          worker[v].at = "fallback" /\ worker[w].at = "fallback" => v = w

VoiceInv == RowTyped /\ Exclusive

-----------------------------------------------------------------------------
\* With nothing logged and nobody at work the invariant holds.
LEMMA VoiceInitInv == VoiceInit => VoiceInv
  BY DEF VoiceInit, VoiceInv, RowTyped, Exclusive, CallRow, Job, NotBusy

\* A step that leaves the flag and the placed legs alone, and sends no worker
\* to ring, keeps the fallback exclusive.
LEMMA QuietStep ==
  ASSUME Exclusive,
         UNCHANGED fallbacks,
         inbound'.claimed = inbound.claimed,
         \A w \in Workers : worker'[w].at = "fallback" => worker[w].at = "fallback"
  PROVE  Exclusive'
  BY DEF Exclusive

\* A job stays one when its legs to place and its count change.
LEMMA JobFields ==
  ASSUME NEW job \in Job, NEW todo \in SUBSET Reps, NEW started \in Nat
  PROVE  [job EXCEPT !.todo = todo, !.started = started] \in Job
  BY DEF Job

\* The handler of the inbound webhook never touches the flag.
LEMMA VoiceInboundInv ==
  ASSUME VoiceInv, NEW w \in Workers,
         \/ \E online \in SUBSET Reps : VoiceInbound(w, online)
         \/ \E r \in Reps : RingBrowser(w, r)
         \/ StoreTotal(w)
  PROVE  VoiceInv'
<1> USE DEF VoiceInv
<1>1. CASE \E online \in SUBSET Reps : VoiceInbound(w, online)
  <2>1. PICK online \in SUBSET Reps : VoiceInbound(w, online)
    BY <1>1
  <2>2. RowTyped'
    BY <2>1 DEF RowTyped, VoiceInbound, Busy, Job, NotBusy
  <2>3. Exclusive'
    <3>1. \A v \in Workers : worker'[v].at = "fallback" => worker[v].at = "fallback"
      BY <2>1 DEF VoiceInbound, Busy, NotBusy, RowTyped
    <3> QED BY <2>1, <3>1, QuietStep DEF VoiceInbound
  <2> QED BY <2>2, <2>3
<1>2. CASE \E r \in Reps : RingBrowser(w, r)
  <2>1. PICK r \in Reps : RingBrowser(w, r)
    BY <1>2
  <2>2. PICK placed, known \in BOOLEAN :
           Busy(w, [worker[w] EXCEPT !.todo = @ \ {r},
                                     !.started = IF known THEN @ + 1 ELSE @])
    BY <2>1 DEF RingBrowser
  <2> DEFINE next == [worker[w] EXCEPT !.todo = @ \ {r},
                                       !.started = IF known THEN @ + 1 ELSE @]
  <2>3. RowTyped'
    <3>1. worker[w] \in Job
      BY DEF RowTyped
    <3>2. next \in Job
      <4>1. /\ worker[w].todo \ {r} \in SUBSET Reps
            /\ (IF known THEN worker[w].started + 1 ELSE worker[w].started) \in Nat
        BY <3>1 DEF Job
      <4> QED BY <3>1, <4>1, JobFields
    <3>3. worker' \in [Workers -> Job]
      <4> HIDE DEF next
      <4>1. worker' = [worker EXCEPT ![w] = next]
        BY <2>2 DEF Busy, next
      <4> QED BY <3>2, <4>1 DEF RowTyped
    <3> QED BY <2>1, <3>3 DEF RowTyped, RingBrowser
  <2>4. \A v \in Workers : worker'[v].at = "fallback" => worker[v].at = "fallback"
    BY <2>2 DEF Busy, RowTyped, Job
  <2>5. Exclusive'
    BY <2>1, <2>4, QuietStep DEF RingBrowser
  <2> QED BY <2>3, <2>5
<1>3. CASE StoreTotal(w)
  <2>1. RowTyped'
    BY <1>3 DEF RowTyped, StoreTotal, Busy, Job, NotBusy, CallRow
  <2>2. \A v \in Workers : worker'[v].at = "fallback" => worker[v].at = "fallback"
    BY <1>3 DEF StoreTotal, Busy, NotBusy, RowTyped
  <2>3. inbound'.claimed = inbound.claimed
    BY <1>3 DEF StoreTotal, RowTyped, CallRow
  <2>4. Exclusive'
    BY <1>3, <2>2, <2>3, QuietStep DEF StoreTotal
  <2> QED BY <2>1, <2>4
<1> QED BY <1>1, <1>2, <1>3

\* A callback is heard or forgotten; the claim is still to come.
LEMMA RepStatusInv ==
  ASSUME VoiceInv, NEW w \in Workers, NEW l \in Legs, VoiceRepStatus(w, l)
  PROVE  VoiceInv'
<1> USE DEF VoiceInv
<1>1. RowTyped'
  BY DEF RowTyped, VoiceRepStatus, Busy, Job, NotBusy
<1>2. \A v \in Workers : worker'[v].at = "fallback" => worker[v].at = "fallback"
  BY DEF VoiceRepStatus, Busy, NotBusy, RowTyped
<1>3. Exclusive'
  BY <1>2, QuietStep DEF VoiceRepStatus
<1> QED BY <1>1, <1>3

\* The conditional UPDATE: whoever finds the flag clear sets it and is then
\* the only worker on the way to the fallback.
LEMMA ClaimInv ==
  ASSUME VoiceInv, NEW w \in Workers, ClaimFallback(w)
  PROVE  VoiceInv'
<1> DEFINE counted == Counted(inbound)
           mine == AllReported(counted.done, counted.total) /\ Unclaimed(counted)
<1> USE DEF VoiceInv
<1>1. /\ worker[w].at = "claim"
      /\ inbound' = [counted EXCEPT !.claimed = @ \/ mine]
      /\ worker' = [worker EXCEPT ![w] =
                      IF mine THEN [NotBusy EXCEPT !.at = "fallback"] ELSE NotBusy]
      /\ UNCHANGED <<fallbacks, delivered>>
  BY DEF ClaimFallback, Busy
<1>2. /\ counted \in CallRow
      /\ counted.claimed = inbound.claimed
      /\ mine \in BOOLEAN
  BY DEF RowTyped, CallRow, Counted, AllReported, Unclaimed
<1>3. inbound' \in CallRow /\ inbound'.claimed = (inbound.claimed \/ mine)
  <2> HIDE DEF mine, counted
  <2> QED BY <1>1, <1>2 DEF CallRow
<1>4. /\ [NotBusy EXCEPT !.at = "fallback"] \in Job
      /\ NotBusy \in Job
  BY DEF NotBusy, Job
<1>5. RowTyped'
  <2> HIDE DEF mine, counted
  <2> QED BY <1>1, <1>3, <1>4 DEF RowTyped
<1>6. mine => ~inbound.claimed
  BY <1>2 DEF Unclaimed
<1>7. /\ \A v \in Workers \ {w} : worker'[v] = worker[v]
      /\ worker'[w].at = IF mine THEN "fallback" ELSE "idle"
  <2> HIDE DEF mine, counted
  <2> QED BY <1>1 DEF RowTyped, NotBusy
<1>8. Exclusive'
  <2> HIDE DEF mine, counted
  <2>1. CASE mine
    <3>1. inbound'.claimed = TRUE /\ ~inbound.claimed
      BY <2>1, <1>3, <1>6
    <3>2. fallbacks' = 0 /\ \A v \in Workers \ {w} : worker'[v].at # "fallback"
      BY <3>1, <1>1, <1>7 DEF Exclusive
    <3> QED BY <3>1, <3>2 DEF Exclusive
  <2>2. CASE ~mine
    <3>1. inbound'.claimed = inbound.claimed
      BY <2>2, <1>2, <1>3 DEF RowTyped, CallRow
    <3>2. \A v \in Workers : worker'[v].at = "fallback" => worker[v].at = "fallback"
      BY <2>2, <1>7
    <3> QED BY <3>1, <3>2, <1>1, QuietStep
  <2> QED BY <2>1, <2>2
<1> QED BY <1>5, <1>8

\* The one worker on the way rings once, or is refused, and is done.
LEMMA RingInv ==
  ASSUME VoiceInv, NEW w \in Workers, RingFallback(w)
  PROVE  VoiceInv'
<1> USE DEF VoiceInv
<1>1. RowTyped'
  BY DEF RowTyped, RingFallback, Busy, Job, NotBusy
<1>2. /\ fallbacks = 0 /\ inbound.claimed
      /\ \A v \in Workers \ {w} : worker[v].at # "fallback"
  BY DEF RowTyped, Exclusive, RingFallback
<1>3. \A v \in Workers : worker'[v].at # "fallback"
  BY <1>2 DEF RingFallback, Busy, NotBusy, RowTyped
<1>4. Exclusive'
  BY <1>2, <1>3 DEF Exclusive, RingFallback
<1> QED BY <1>1, <1>4

\* What Twilio does changes neither the row nor a worker.
LEMMA TwilioInv ==
  ASSUME VoiceInv, NEW l \in Legs, Answer(l) \/ EndLeg(l) \/ Resend(l)
  PROVE  VoiceInv'
  BY DEF VoiceInv, RowTyped, Exclusive, Answer, EndLeg, Resend

-----------------------------------------------------------------------------
\* Every step keeps the invariant.
LEMMA VoiceNextInv == VoiceInv /\ [VoiceNext]_voiceVars => VoiceInv'
<1> SUFFICES ASSUME VoiceInv, [VoiceNext]_voiceVars PROVE VoiceInv'
  OBVIOUS
<1>1. CASE \E w \in Workers : Work(w)
  BY <1>1, VoiceInboundInv, ClaimInv, RingInv DEF Work
<1>2. CASE \E w \in Workers : \E online \in SUBSET Reps : VoiceInbound(w, online)
  BY <1>2, VoiceInboundInv
<1>3. CASE Report
  BY <1>3, RepStatusInv DEF Report
<1>4. CASE \E l \in Legs : Answer(l) \/ EndLeg(l) \/ Resend(l)
  BY <1>4, TwilioInv
<1>5. CASE UNCHANGED voiceVars
  BY <1>5 DEF voiceVars, VoiceInv, RowTyped, Exclusive
<1> QED BY <1>1, <1>2, <1>3, <1>4, <1>5 DEF VoiceNext

\* The flag, the workers about to ring and the legs placed exclude each other
\* in every reachable state.
THEOREM FallbackInvariant == VoiceSpec => []VoiceInv
<1>1. VoiceInit => VoiceInv
  BY VoiceInitInv
<1>2. VoiceInv /\ [VoiceNext]_voiceVars => VoiceInv'
  BY VoiceNextInv
<1> QED BY <1>1, <1>2, PTL DEF VoiceSpec

\* claim_fallback "returns True at most once per call": legs placed and
\* workers about to place one are together at most one.
THEOREM FallbackOnceHolds == VoiceSpec => []FallbackOnce
<1>1. VoiceInv => FallbackOnce
  <2> SUFFICES ASSUME VoiceInv PROVE fallbacks + Cardinality(Ringers) <= 1
    BY DEF FallbackOnce, Ringers
  <2>1. fallbacks \in Nat /\ fallbacks <= 1
    BY DEF VoiceInv, RowTyped, Exclusive
  <2>2. CASE Ringers = {}
    BY <2>1, <2>2, FS_EmptySet
  <2>3. CASE Ringers # {}
    <3>1. PICK w \in Ringers : TRUE
      BY <2>3
    <3>2. Ringers = {w}
      BY <3>1 DEF VoiceInv, Exclusive, Ringers
    <3>3. Cardinality(Ringers) = 1
      BY <3>2, FS_Singleton
    <3>4. fallbacks = 0
      BY <2>1, <3>1 DEF VoiceInv, Exclusive, Ringers
    <3> QED BY <3>3, <3>4
  <2> QED BY <2>2, <2>3
<1> QED BY <1>1, FallbackInvariant, PTL
-----------------------------------------------------------------------------
(***************************************************************************)
(* Nobody still rings.  That done >= total says something about the legs   *)
(* is a matter of counting: a callback under way, a report about to be     *)
(* counted and a report counted each stand for a leg that is over or for a *)
(* repetition, and total is the number of legs placed.  A callback under   *)
(* way is the pair of its leg and a number, so that callbacks are counted  *)
(* as the members of a set.                                                *)
(***************************************************************************)
Over == {l \in Legs : leg[l] \in {"declined", "left"}}
Placed == {l \in Legs : leg[l] # "none"}
UnderWay == {c \in Legs \X (1..(Resends + 1)) : c[2] <= callback[c[1]]}
Counters == {w \in Workers : worker[w].at = "claim"}

LegsTyped ==
    /\ leg \in [Legs -> LegState]
    /\ callback \in [Legs -> Nat]
    /\ resent \in 0..Resends
    /\ delivered <= Retries + 1
    /\ unheard \subseteq Legs
    /\ inbound.total <= Cardinality(Reps)
    /\ \A l \in Legs : callback[l] <= resent + (IF l \in Over THEN 1 ELSE 0)
    /\ \A l \in Legs : l \notin Over => callback[l] = 0
    /\ \A l \in Legs : l[1] > delivered => leg[l] = "none"

\* A worker places the legs of its own delivery, each once.
OwnLegs ==
    /\ \A w \in Workers :
          /\ worker[w].delivery <= Retries + 1
          /\ worker[w].started + Cardinality(worker[w].todo) <= Cardinality(Reps)
          /\ worker[w].at = "ring" =>
                /\ worker[w].delivery \in 1..delivered
                /\ \A r \in worker[w].todo : leg[<<worker[w].delivery, r>>] = "none"
    /\ \A v, w \in Workers :
          /\ worker[v].at = "ring" /\ worker[w].at = "ring"
          /\ worker[v].delivery = worker[w].delivery
          => v = w

Tallied ==
    Cardinality(UnderWay) + Cardinality(Counters) + inbound.done
        <= Cardinality(Over) + resent

CountInv == VoiceInv /\ LegsTyped /\ OwnLegs /\ Tallied

\* With one delivery of the inbound webhook and no answer lost, total is the
\* number of legs placed, and the claim waits for as many reports.
Whole ==
    /\ \A w \in Workers : worker[w].at = "ring" =>
          ~inbound.named /\ worker[w].started = Cardinality(Placed)
    /\ inbound.named => delivered = 1 /\ inbound.total = Cardinality(Placed)
    /\ ~inbound.named => inbound.done = 0 /\ ~inbound.claimed /\ Counters = {}
    /\ inbound.claimed => inbound.done >= inbound.total

\* There are finitely many legs, callbacks and workers to count.
LEMMA Countable ==
  /\ IsFiniteSet(Legs) /\ IsFiniteSet(Over) /\ IsFiniteSet(Placed)
  /\ IsFiniteSet(UnderWay) /\ IsFiniteSet(Counters)
  /\ Cardinality(Reps) \in Nat
<1> USE VoiceAssumption
<1>1. IsFiniteSet(1..(Retries + 1)) /\ IsFiniteSet(1..(Resends + 1))
  BY FS_Interval
<1>2. IsFiniteSet(Legs)
  BY <1>1, FS_Product DEF Legs
<1>3. IsFiniteSet(Legs \X (1..(Resends + 1)))
  BY <1>1, <1>2, FS_Product
<1>4. Over \subseteq Legs /\ Placed \subseteq Legs /\ Counters \subseteq Workers
      /\ UnderWay \subseteq Legs \X (1..(Resends + 1))
  BY DEF Over, Placed, UnderWay, Counters
<1> QED BY <1>2, <1>3, <1>4, FS_Subset, FS_CardinalityType

\* With nobody at work there is nothing to count.
LEMMA InitCount == VoiceInit => CountInv /\ Whole
<1> SUFFICES ASSUME VoiceInit PROVE CountInv /\ Whole
  OBVIOUS
<1> USE VoiceAssumption
<1>1. Over = {} /\ Placed = {} /\ UnderWay = {} /\ Counters = {}
  BY DEF VoiceInit, Over, Placed, UnderWay, Counters, NotBusy
<1>2. Cardinality({}) = 0
  BY FS_EmptySet
<1>3. LegsTyped
  BY Countable DEF VoiceInit, LegsTyped, Legs, LegState
<1>4. OwnLegs
  <2>1. \A w \in Workers : worker[w] = NotBusy
    BY DEF VoiceInit
  <2>2. /\ NotBusy.at # "ring" /\ NotBusy.delivery = 0 /\ NotBusy.started = 0
        /\ Cardinality(NotBusy.todo) = 0
    BY <1>2 DEF NotBusy
  <2> QED BY <2>1, <2>2, Countable DEF OwnLegs
<1>5. Tallied
  BY <1>1, <1>2 DEF VoiceInit, Tallied
<1>6. Whole
  BY <1>1, <1>2 DEF VoiceInit, Whole, NotBusy
<1> QED BY <1>3, <1>4, <1>5, <1>6, VoiceInitInv DEF CountInv

\* Legs, callbacks and reports that stay as they are stay counted.
LEMMA SameCount ==
  ASSUME Tallied, UNCHANGED <<callback, resent>>, inbound'.done = inbound.done,
         Over' = Over, Counters' = Counters
  PROVE  Tallied'
<1>1. UnderWay' = UnderWay
  BY DEF UnderWay
<1> QED BY <1>1 DEF Tallied

-----------------------------------------------------------------------------
\* One more leg that is over, or one more repetition, for one more callback.
LEMMA MoreCallbacks ==
  ASSUME CountInv, NEW l \in Legs,
         callback' = [callback EXCEPT ![l] = @ + 1],
         callback[l] <= Resends
  PROVE  Cardinality(UnderWay') = Cardinality(UnderWay) + 1
<1> DEFINE token == <<l, callback[l] + 1>>
<1> USE VoiceAssumption
<1>1. callback \in [Legs -> Nat]
  BY DEF CountInv, LegsTyped
<1>2. token \notin UnderWay
  BY <1>1 DEF UnderWay
<1>3. UnderWay' = UnderWay \cup {token}
  <2>1. ASSUME NEW c \in Legs \X (1..(Resends + 1))
        PROVE  c[2] <= callback'[c[1]] <=> c \in UnderWay \/ c = token
    <3>1. CASE c[1] = l
      <4>1. callback'[c[1]] = callback[l] + 1
        BY <1>1, <3>1
      <4>2. c[2] <= callback[l] + 1 <=> c[2] <= callback[l] \/ c[2] = callback[l] + 1
        BY <1>1
      <4>3. c = <<l, c[2]>>
        BY <3>1
      <4> QED BY <3>1, <4>1, <4>2, <4>3 DEF UnderWay
    <3>2. CASE c[1] # l
      BY <1>1, <3>2 DEF UnderWay
    <3> QED BY <3>1, <3>2
  <2>2. token \in Legs \X (1..(Resends + 1))
    BY <1>1
  <2> QED BY <2>1, <2>2 DEF UnderWay
<1> QED BY <1>2, <1>3, Countable, FS_AddElement

\* A callback heard is one less under way.
LEMMA FewerCallbacks ==
  ASSUME CountInv, NEW l \in Legs,
         callback' = [callback EXCEPT ![l] = @ - 1],
         callback[l] > 0
  PROVE  Cardinality(UnderWay') = Cardinality(UnderWay) - 1
<1> DEFINE token == <<l, callback[l]>>
<1> USE VoiceAssumption
<1>1. callback \in [Legs -> Nat] /\ callback[l] <= Resends + 1
  BY DEF CountInv, LegsTyped
<1>2. token \in UnderWay
  BY <1>1 DEF UnderWay
<1>3. UnderWay' = UnderWay \ {token}
  <2>1. ASSUME NEW c \in Legs \X (1..(Resends + 1))
        PROVE  c[2] <= callback'[c[1]] <=> c \in UnderWay /\ c # token
    <3>1. CASE c[1] = l
      <4>1. callback'[c[1]] = callback[l] - 1
        BY <1>1, <3>1
      <4>2. c[2] <= callback[l] - 1 <=> c[2] <= callback[l] /\ c[2] # callback[l]
        BY <1>1
      <4>3. c = <<l, c[2]>>
        BY <3>1
      <4> QED BY <3>1, <4>1, <4>2, <4>3 DEF UnderWay
    <3>2. CASE c[1] # l
      BY <1>1, <3>2 DEF UnderWay
    <3> QED BY <3>1, <3>2
  <2> QED BY <2>1 DEF UnderWay
<1> QED BY <1>2, <1>3, Countable, FS_RemoveElement
-----------------------------------------------------------------------------
\* A new delivery owns legs nobody has placed.
LEMMA InboundCount ==
  ASSUME CountInv, NEW w \in Workers, NEW online \in SUBSET Reps,
         VoiceInbound(w, online)
  PROVE  CountInv'
<1> DEFINE job == IF online = {} THEN NotBusy
                  ELSE [at |-> "ring", delivery |-> delivered + 1,
                        todo |-> online, started |-> 0]
<1> USE VoiceAssumption
<1>1. VoiceInv'
  BY VoiceInboundInv DEF CountInv
<1>2. /\ delivered' = delivered + 1 /\ delivered <= Retries
      /\ worker' = [worker EXCEPT ![w] = job] /\ worker[w] = NotBusy
      /\ UNCHANGED <<inbound, leg, callback, resent, fallbacks, unheard>>
  BY DEF VoiceInbound, Busy
<1>3. delivered \in Nat /\ worker \in [Workers -> Job]
  BY DEF CountInv, VoiceInv, RowTyped
<1>4. Over' = Over /\ Counters' = Counters
  BY <1>2, <1>3 DEF Over, Counters, NotBusy
<1>5. LegsTyped'
  BY <1>2, <1>3, <1>4 DEF CountInv, LegsTyped, Legs
<1>6. OwnLegs'
  <2>1. IsFiniteSet(online) /\ Cardinality(online) <= Cardinality(Reps)
    BY FS_Subset
  <2>2. /\ job.delivery <= Retries + 1
        /\ job.started + Cardinality(job.todo) <= Cardinality(Reps)
        /\ job.at = "ring" => job.delivery = delivered + 1
    BY <1>2, <1>3, <2>1, FS_EmptySet, FS_CardinalityType, Countable DEF NotBusy
  <2>3. \A r \in Reps : leg[<<delivered + 1, r>>] = "none"
    BY <1>2, <1>3 DEF CountInv, LegsTyped, Legs
  <2>4. job.todo \subseteq Reps
    BY DEF NotBusy
  <2>5. \A v \in Workers : worker'[v] = IF v = w THEN job ELSE worker[v]
    BY <1>2, <1>3
  <2>6. \A v \in Workers : worker[v].at = "ring" => worker[v].delivery <= delivered
    BY <1>3 DEF CountInv, OwnLegs
  <2> HIDE DEF job
  <2>7. ASSUME NEW v \in Workers
        PROVE  /\ worker'[v].delivery <= Retries + 1
               /\ worker'[v].started + Cardinality(worker'[v].todo) <= Cardinality(Reps)
               /\ worker'[v].at = "ring" =>
                     /\ worker'[v].delivery \in 1..delivered'
                     /\ \A r \in worker'[v].todo : leg'[<<worker'[v].delivery, r>>] = "none"
    <3>1. CASE v = w
      BY <3>1, <2>2, <2>3, <2>4, <2>5, <1>2, <1>3
    <3>2. CASE v # w
      BY <3>2, <2>5, <1>2, <1>3 DEF CountInv, OwnLegs
    <3> QED BY <3>1, <3>2
  <2>8. ASSUME NEW u \in Workers, NEW v \in Workers,
               worker'[u].at = "ring", worker'[v].at = "ring",
               worker'[u].delivery = worker'[v].delivery
        PROVE  u = v
    BY <2>2, <2>5, <2>6, <2>8, <1>3 DEF CountInv, OwnLegs
  <2> QED BY <2>7, <2>8 DEF OwnLegs
<1>7. Tallied'
  BY <1>2, <1>4, SameCount DEF CountInv
<1> QED BY <1>1, <1>5, <1>6, <1>7 DEF CountInv

\* A worker that does not ring and knows no legs owns none.
LEMMA IdleOwnsNone ==
  ASSUME CountInv, NEW w \in Workers, NEW job \in {NotBusy, [NotBusy EXCEPT !.at = "claim"],
                                                   [NotBusy EXCEPT !.at = "fallback"]},
         worker' = [worker EXCEPT ![w] = job],
         UNCHANGED <<leg, delivered>>
  PROVE  OwnLegs'
<1> USE VoiceAssumption
<1>1. worker \in [Workers -> Job]
  BY DEF CountInv, VoiceInv, RowTyped
<1>2. job.at # "ring" /\ job.delivery = 0 /\ job.todo = {} /\ job.started = 0
  BY DEF NotBusy
<1>3. Cardinality(job.todo) = 0
  BY <1>2, FS_EmptySet
<1>4. \A v \in Workers : worker'[v] = IF v = w THEN job ELSE worker[v]
  BY <1>1
<1>5. ASSUME NEW v \in Workers
      PROVE  /\ worker'[v].delivery <= Retries + 1
             /\ worker'[v].started + Cardinality(worker'[v].todo) <= Cardinality(Reps)
             /\ worker'[v].at = "ring" => v # w /\ worker'[v] = worker[v]
  <2>1. CASE v = w
    BY <2>1, <1>2, <1>3, <1>4, Countable
  <2>2. CASE v # w
    BY <2>2, <1>4 DEF CountInv, OwnLegs
  <2> QED BY <2>1, <2>2
<1> QED BY <1>5 DEF CountInv, OwnLegs

\* What one turn of ring_browsers does, said once for the two invariants.
LEMMA RingStep ==
  ASSUME CountInv, NEW w \in Workers, NEW r \in Reps, RingBrowser(w, r)
  PROVE  LET l == <<worker[w].delivery, r>>
         IN  /\ l \in Legs /\ leg[l] = "none"
             /\ worker[w].at = "ring" /\ r \in worker[w].todo
             /\ \A v \in Workers \ {w} : worker'[v] = worker[v]
             /\ worker'[w].at = "ring" /\ worker'[w].delivery = worker[w].delivery
             /\ worker'[w].todo = worker[w].todo \ {r}
             /\ leg' \in {leg, [leg EXCEPT ![l] = "ringing"]}
             /\ worker'[w].started \in {worker[w].started, worker[w].started + 1}
             /\ ~ResponsesLost =>
                  (leg' = leg <=> worker'[w].started = worker[w].started)
<1> USE VoiceAssumption
<1> DEFINE l == <<worker[w].delivery, r>>
<1>1. PICK placed \in BOOLEAN, known \in BOOLEAN :
         /\ known => placed
         /\ placed /\ ~known => ResponsesLost
         /\ leg' = IF placed THEN [leg EXCEPT ![l] = "ringing"] ELSE leg
         /\ worker' = [worker EXCEPT ![w] =
                [worker[w] EXCEPT !.todo = @ \ {r},
                                  !.started = IF known THEN @ + 1 ELSE @]]
  BY DEF RingBrowser, Busy
<1>2. worker[w].at = "ring" /\ r \in worker[w].todo
  BY DEF RingBrowser
<1>3. worker \in [Workers -> Job] /\ worker[w] \in Job /\ delivered \in Nat
  BY DEF CountInv, VoiceInv, RowTyped
<1>4. worker[w].delivery \in 1..(Retries + 1) /\ leg[l] = "none"
  BY <1>2, <1>3 DEF CountInv, OwnLegs, Job
<1>5. l \in Legs
  BY <1>4 DEF Legs
<1>6. /\ \A v \in Workers \ {w} : worker'[v] = worker[v]
      /\ worker'[w].at = "ring" /\ worker'[w].delivery = worker[w].delivery
      /\ worker'[w].todo = worker[w].todo \ {r}
      /\ worker'[w].started = IF known THEN worker[w].started + 1 ELSE worker[w].started
  BY <1>1, <1>2, <1>3 DEF Job
<1>7. placed => leg' # leg
  BY <1>1, <1>4, <1>5 DEF CountInv, LegsTyped
<1>8. leg' \in {leg, [leg EXCEPT ![l] = "ringing"]} /\ (leg' = leg <=> ~placed)
  BY <1>1, <1>7
<1>9. worker[w].started \in Nat
  BY <1>3 DEF Job
<1>10. /\ worker'[w].started \in {worker[w].started, worker[w].started + 1}
       /\ worker'[w].started = worker[w].started <=> ~known
  BY <1>6, <1>9
<1>11. ~ResponsesLost => (leg' = leg <=> worker'[w].started = worker[w].started)
  BY <1>1, <1>8, <1>10
<1> QED BY <1>2, <1>4, <1>5, <1>6, <1>8, <1>10, <1>11
\* A leg is placed once, by the worker that owns it.
LEMMA RingCount ==
  ASSUME CountInv, NEW w \in Workers, NEW r \in Reps, RingBrowser(w, r)
  PROVE  CountInv'
<1> DEFINE l == <<worker[w].delivery, r>>
<1> USE VoiceAssumption
<1>1. VoiceInv'
  BY VoiceInboundInv DEF CountInv
<1>2. UNCHANGED <<inbound, callback, resent, delivered, unheard>>
  BY DEF RingBrowser
<1>3. worker \in [Workers -> Job] /\ leg \in [Legs -> LegState] /\ worker[w] \in Job
  BY DEF CountInv, VoiceInv, RowTyped, LegsTyped
<1>4. /\ l \in Legs /\ leg[l] = "none" /\ worker[w].at = "ring" /\ r \in worker[w].todo
      /\ \A v \in Workers \ {w} : worker'[v] = worker[v]
      /\ worker'[w].at = "ring" /\ worker'[w].delivery = worker[w].delivery
      /\ worker'[w].todo = worker[w].todo \ {r}
      /\ leg' \in {leg, [leg EXCEPT ![l] = "ringing"]}
      /\ worker'[w].started \in {worker[w].started, worker[w].started + 1}
  BY RingStep
<1>5. Over' = Over /\ Counters' = Counters
  <2>1. \A k \in Legs : leg'[k] = leg[k] \/ (k = l /\ leg'[k] = "ringing")
    BY <1>3, <1>4
  <2>2. Over' = Over
    BY <1>4, <2>1 DEF Over
  <2>3. \A v \in Workers : worker'[v].at = worker[v].at
    BY <1>4
  <2> QED BY <2>2, <2>3 DEF Counters
<1>6. LegsTyped'
  <2>1. worker[w].delivery <= delivered
    BY <1>4 DEF CountInv, OwnLegs
  <2>2. leg' \in [Legs -> LegState]
    BY <1>3, <1>4 DEF LegState
  <2>3. ASSUME NEW k \in Legs, k[1] > delivered PROVE leg'[k] = "none"
    <3>1. k # l
      <4>1. l[1] = worker[w].delivery
        OBVIOUS
      <4>2. worker[w].delivery \in Nat /\ delivered \in Nat
        BY <1>3 DEF Job, CountInv, VoiceInv, RowTyped
      <4> QED BY <4>1, <4>2, <2>1, <2>3
    <3>2. leg[k] = "none"
      BY <2>3 DEF CountInv, LegsTyped
    <3> QED BY <3>1, <3>2, <1>3, <1>4
  <2> QED BY <1>2, <1>5, <2>2, <2>3 DEF CountInv, LegsTyped
<1>7. OwnLegs'
  <2>1. worker[w].started \in Nat /\ worker[w].todo \in SUBSET Reps
        /\ worker[w].delivery \in 1..delivered
    BY <1>3, <1>4 DEF Job, CountInv, OwnLegs
  <2>2. Cardinality(worker[w].todo \ {r}) = Cardinality(worker[w].todo) - 1
        /\ Cardinality(worker[w].todo) \in Nat
    BY <2>1, <1>4, FS_Subset, FS_RemoveElement, FS_CardinalityType
  <2>3. worker'[w].started + Cardinality(worker'[w].todo) <= Cardinality(Reps)
    BY <1>4, <2>1, <2>2, Countable DEF CountInv, OwnLegs
  <2>4. ASSUME NEW v \in Workers, worker'[v].at = "ring", NEW s \in worker'[v].todo
        PROVE  leg'[<<worker'[v].delivery, s>>] = "none"
    <3>1. worker[v].at = "ring" /\ s \in worker[v].todo
          /\ worker'[v].delivery = worker[v].delivery
      BY <1>4, <2>4
    <3>2. leg[<<worker[v].delivery, s>>] = "none" /\ (v # w => worker[v].delivery # worker[w].delivery)
      BY <3>1, <1>4 DEF CountInv, OwnLegs
    <3>3. <<worker[v].delivery, s>> # l
      BY <3>2, <1>4, <2>4
    <3>4. worker[v] \in Job /\ worker[v].delivery <= Retries + 1
      BY <1>3 DEF CountInv, OwnLegs
    <3>5. <<worker[v].delivery, s>> \in Legs
      BY <3>1, <3>4 DEF Legs, Job, CountInv, OwnLegs
    <3> QED BY <3>1, <3>2, <3>3, <3>5, <1>3, <1>4
  <2>5. ASSUME NEW v \in Workers
        PROVE  /\ worker'[v].at = worker[v].at /\ worker'[v].delivery = worker[v].delivery
               /\ worker'[v].started + Cardinality(worker'[v].todo) <= Cardinality(Reps)
    BY <1>4, <2>3 DEF CountInv, OwnLegs
  <2> QED BY <1>2, <2>4, <2>5 DEF CountInv, OwnLegs
<1>8. Tallied'
  BY <1>2, <1>5, SameCount DEF CountInv
<1> QED BY <1>1, <1>6, <1>7, <1>8 DEF CountInv

\* The row learns at most as many legs as there are representatives.
LEMMA StoreCount ==
  ASSUME CountInv, NEW w \in Workers, StoreTotal(w)
  PROVE  CountInv'
<1> USE VoiceAssumption
<1>1. VoiceInv'
  BY VoiceInboundInv DEF CountInv
<1>2. /\ worker[w].at = "ring" /\ worker' = [worker EXCEPT ![w] = NotBusy]
      /\ UNCHANGED <<leg, callback, resent, delivered, fallbacks, unheard>>
      /\ inbound' = IF worker[w].started = 0 THEN inbound
                 ELSE [inbound EXCEPT !.named = TRUE, !.total = worker[w].started]
  BY DEF StoreTotal, Busy
<1>3. worker \in [Workers -> Job] /\ worker[w] \in Job /\ inbound \in CallRow
  BY DEF CountInv, VoiceInv, RowTyped
<1>4. Over' = Over /\ Counters' = Counters
  BY <1>2, <1>3 DEF Over, Counters, NotBusy
<1>5. worker[w].started <= Cardinality(Reps)
  <2>1. Cardinality(worker[w].todo) \in Nat /\ worker[w].started \in Nat
    BY <1>3, FS_Subset, FS_CardinalityType DEF Job
  <2> QED BY <2>1, Countable DEF CountInv, OwnLegs
<1>6. inbound'.total <= Cardinality(Reps) /\ inbound'.done = inbound.done
  BY <1>2, <1>3, <1>5 DEF CallRow, CountInv, LegsTyped
<1>7. LegsTyped'
  BY <1>2, <1>4, <1>6 DEF CountInv, LegsTyped
<1>8. OwnLegs'
  BY <1>2, IdleOwnsNone
<1>9. Tallied'
  BY <1>2, <1>4, <1>6, SameCount DEF CountInv
<1> QED BY <1>1, <1>7, <1>8, <1>9 DEF CountInv

\* A callback under way becomes a report about to be counted, or nothing.
LEMMA RepStatusCount ==
  ASSUME CountInv, NEW w \in Workers, NEW l \in Legs, VoiceRepStatus(w, l)
  PROVE  CountInv'
<1> DEFINE job == IF inbound.named /\ CallStatus(l) \notin {"in-progress", "answered"}
                  THEN [NotBusy EXCEPT !.at = "claim"] ELSE NotBusy
<1> USE VoiceAssumption
<1>1. VoiceInv'
  BY RepStatusInv DEF CountInv
<1>2. /\ worker[w] = NotBusy /\ worker' = [worker EXCEPT ![w] = job]
      /\ callback[l] > 0 /\ callback' = [callback EXCEPT ![l] = @ - 1]
      /\ UNCHANGED <<inbound, leg, resent, delivered, fallbacks>>
      /\ unheard' \subseteq unheard \cup {l}
  BY DEF VoiceRepStatus, Busy
<1>3. worker \in [Workers -> Job] /\ callback \in [Legs -> Nat]
  BY DEF CountInv, VoiceInv, RowTyped, LegsTyped
<1>4. Over' = Over
  BY <1>2 DEF Over
<1>5. LegsTyped'
  <2>1. callback' \in [Legs -> Nat] /\ \A k \in Legs : callback'[k] <= callback[k]
    BY <1>2, <1>3
  <2>2. \A k \in Legs : callback[k] = 0 => callback'[k] = 0
    BY <1>3, <2>1
  <2>3. \A k \in Legs : callback'[k] <= resent + (IF k \in Over THEN 1 ELSE 0)
    BY <1>3, <2>1 DEF CountInv, LegsTyped
  <2> QED BY <1>2, <1>4, <2>1, <2>2, <2>3 DEF CountInv, LegsTyped
<1>6. OwnLegs'
  BY <1>2, IdleOwnsNone
<1>7. Tallied'
  <2>1. Counters' \subseteq Counters \cup {w}
    BY <1>2, <1>3 DEF Counters
  <2>2. Cardinality(Counters') <= Cardinality(Counters) + 1
        /\ Cardinality(Counters) \in Nat /\ Cardinality(Counters') \in Nat
    <3>1. /\ IsFiniteSet(Counters \cup {w})
          /\ Cardinality(Counters \cup {w}) <= Cardinality(Counters) + 1
          /\ Cardinality(Counters) \in Nat
      <4>1. Cardinality(Counters) \in Nat
        BY Countable, FS_CardinalityType
      <4>2. Cardinality(Counters \cup {w}) \in {Cardinality(Counters), Cardinality(Counters) + 1}
            /\ IsFiniteSet(Counters \cup {w})
        BY Countable, FS_AddElement
      <4> QED BY <4>1, <4>2
    <3>2. /\ IsFiniteSet(Counters')
          /\ Cardinality(Counters') <= Cardinality(Counters \cup {w})
      BY <2>1, <3>1, FS_Subset
    <3>3. Cardinality(Counters') \in Nat /\ Cardinality(Counters \cup {w}) \in Nat
      BY <3>1, <3>2, FS_CardinalityType
    <3> QED BY <3>1, <3>2, <3>3
  <2>3. Cardinality(UnderWay') = Cardinality(UnderWay) - 1 /\ Cardinality(UnderWay) \in Nat
    BY <1>2, FewerCallbacks, Countable, FS_CardinalityType
  <2>4. Cardinality(Over) \in Nat /\ inbound.done \in Nat /\ resent \in Nat
    BY Countable, FS_CardinalityType DEF CountInv, VoiceInv, RowTyped, CallRow, LegsTyped
  <2> QED BY <1>2, <1>4, <2>2, <2>3, <2>4 DEF CountInv, Tallied
<1> QED BY <1>1, <1>5, <1>6, <1>7 DEF CountInv

\* A report about to be counted is counted.
LEMMA ClaimCount ==
  ASSUME CountInv, NEW w \in Workers, ClaimFallback(w)
  PROVE  /\ CountInv'
         /\ inbound'.done = inbound.done + 1 /\ inbound'.total = inbound.total /\ inbound'.named = inbound.named
         /\ Counters' = Counters \ {w} /\ w \in Counters
         /\ inbound'.claimed => inbound.claimed \/ inbound'.done >= inbound'.total
<1> DEFINE counted == Counted(inbound)
           mine == AllReported(counted.done, counted.total) /\ Unclaimed(counted)
           job == IF mine THEN [NotBusy EXCEPT !.at = "fallback"] ELSE NotBusy
<1> USE VoiceAssumption
<1>1. VoiceInv'
  BY ClaimInv DEF CountInv
<1>2. /\ worker[w].at = "claim"
      /\ inbound' = [counted EXCEPT !.claimed = @ \/ mine]
      /\ worker' = [worker EXCEPT ![w] = job]
      /\ UNCHANGED <<leg, callback, resent, delivered, fallbacks, unheard>>
  BY DEF ClaimFallback, Busy
<1>3. worker \in [Workers -> Job] /\ inbound \in CallRow
  BY DEF CountInv, VoiceInv, RowTyped
<1>4. /\ counted \in CallRow /\ counted.done = inbound.done + 1 /\ counted.total = inbound.total
      /\ counted.named = inbound.named /\ counted.claimed = inbound.claimed
      /\ mine \in BOOLEAN /\ (mine => counted.done >= counted.total)
  BY <1>3 DEF Counted, CallRow, AllReported, Unclaimed
<1>5. /\ inbound'.done = inbound.done + 1 /\ inbound'.total = inbound.total /\ inbound'.named = inbound.named
      /\ inbound'.claimed => inbound.claimed \/ inbound'.done >= inbound'.total
  <2> HIDE DEF mine, counted
  <2> QED BY <1>2, <1>4 DEF CallRow
<1>6. job \in {NotBusy, [NotBusy EXCEPT !.at = "fallback"]}
  OBVIOUS
<1>7. Over' = Over /\ UnderWay' = UnderWay
  BY <1>2 DEF Over, UnderWay
<1>8. Counters' = Counters \ {w} /\ w \in Counters
  <2> HIDE DEF job
  <2>1. job.at # "claim"
    BY <1>6 DEF NotBusy
  <2> QED BY <1>2, <1>3, <2>1 DEF Counters
<1>9. LegsTyped'
  BY <1>2, <1>5, <1>7 DEF CountInv, LegsTyped
<1>10. OwnLegs'
  <2> HIDE DEF job
  <2> QED BY <1>2, <1>6, IdleOwnsNone
<1>11. Tallied'
  <2>1. Cardinality(Counters') = Cardinality(Counters) - 1 /\ Cardinality(Counters) \in Nat
    BY <1>8, Countable, FS_RemoveElement, FS_CardinalityType
  <2>2. inbound.done \in Nat /\ resent \in Nat
        /\ Cardinality(UnderWay) \in Nat /\ Cardinality(Over) \in Nat
    BY <1>3, Countable, FS_CardinalityType DEF CallRow, CountInv, LegsTyped
  <2>3. Cardinality(UnderWay) + Cardinality(Counters) + inbound.done <= Cardinality(Over) + resent
    BY DEF CountInv, Tallied
  <2>4. Cardinality(UnderWay') + Cardinality(Counters') + inbound'.done
            <= Cardinality(Over') + resent'
    <3> HIDE DEF counted, mine, job
    <3> QED BY <1>2, <1>5, <1>7, <2>1, <2>2, <2>3
  <2> QED BY <2>4 DEF Tallied
<1> QED BY <1>1, <1>5, <1>8, <1>9, <1>10, <1>11 DEF CountInv

\* Ringing the fallback counts nothing.
LEMMA RingFallbackCount ==
  ASSUME CountInv, NEW w \in Workers, RingFallback(w)
  PROVE  CountInv' /\ Counters' = Counters
<1> USE VoiceAssumption
<1>1. VoiceInv'
  BY RingInv DEF CountInv
<1>2. /\ worker[w].at = "fallback" /\ worker' = [worker EXCEPT ![w] = NotBusy]
      /\ UNCHANGED <<inbound, leg, callback, resent, delivered, unheard>>
  BY DEF RingFallback, Busy
<1>3. Over' = Over /\ Counters' = Counters
  BY <1>2 DEF Over, Counters, NotBusy, CountInv, VoiceInv, RowTyped
<1>4. LegsTyped'
  BY <1>2, <1>3 DEF CountInv, LegsTyped
<1>5. OwnLegs'
  BY <1>2, IdleOwnsNone
<1>6. Tallied'
  BY <1>2, <1>3, SameCount DEF CountInv
<1> QED BY <1>1, <1>3, <1>4, <1>5, <1>6 DEF CountInv
\* An answered leg is not over.
LEMMA AnswerCount ==
  ASSUME CountInv, NEW l \in Legs, Answer(l)
  PROVE  CountInv' /\ Placed' = Placed
<1> USE VoiceAssumption
<1>1. VoiceInv'
  BY TwilioInv DEF CountInv
<1>2. /\ leg[l] = "ringing" /\ leg' = [leg EXCEPT ![l] = "answered"]
      /\ UNCHANGED <<inbound, callback, resent, delivered, worker, fallbacks, unheard>>
  BY DEF Answer
<1>3. leg \in [Legs -> LegState]
  BY DEF CountInv, LegsTyped
<1>4. Over' = Over /\ Placed' = Placed /\ Counters' = Counters
  BY <1>2, <1>3 DEF Over, Placed, Counters
<1>5. LegsTyped'
  BY <1>2, <1>3, <1>4 DEF CountInv, LegsTyped, LegState
<1>6. OwnLegs'
  <2>1. \A k \in Legs : leg[k] = "none" => leg'[k] = "none"
    BY <1>2, <1>3
  <2>2. \A w \in Workers, r \in Reps :
           worker[w].at = "ring" => <<worker[w].delivery, r>> \in Legs
    BY DEF CountInv, VoiceInv, RowTyped, Job, LegsTyped, OwnLegs, Legs
  <2>3. \A w \in Workers : worker[w].todo \subseteq Reps
    BY DEF CountInv, VoiceInv, RowTyped, Job
  <2> QED BY <1>2, <2>1, <2>2, <2>3 DEF CountInv, OwnLegs
<1>7. Tallied'
  BY <1>2, <1>4, SameCount DEF CountInv
<1> QED BY <1>1, <1>4, <1>5, <1>6, <1>7 DEF CountInv

\* A leg that is over has its callback.
LEMMA EndCount ==
  ASSUME CountInv, NEW l \in Legs, EndLeg(l)
  PROVE  CountInv' /\ Placed' = Placed
<1> USE VoiceAssumption
<1>1. VoiceInv'
  BY TwilioInv DEF CountInv
<1>2. /\ leg[l] \in {"ringing", "answered"}
      /\ leg' = [leg EXCEPT ![l] = IF @ = "ringing" THEN "declined" ELSE "left"]
      /\ callback' = [callback EXCEPT ![l] = @ + 1]
      /\ UNCHANGED <<inbound, resent, delivered, worker, fallbacks, unheard>>
  BY DEF EndLeg
<1>3. leg \in [Legs -> LegState] /\ callback \in [Legs -> Nat] /\ resent \in 0..Resends
  BY DEF CountInv, LegsTyped
<1>4. Over' = Over \cup {l} /\ l \notin Over /\ Placed' = Placed /\ Counters' = Counters
  BY <1>2, <1>3 DEF Over, Placed, Counters
<1>5. callback[l] = 0
  BY <1>4 DEF CountInv, LegsTyped
<1>6. LegsTyped'
  <2>1. leg' \in [Legs -> LegState] /\ \A k \in Legs : leg[k] = "none" => leg'[k] = "none"
    BY <1>2, <1>3 DEF LegState
  <2>2. callback' \in [Legs -> Nat]
        /\ \A k \in Legs : callback'[k] = IF k = l THEN 1 ELSE callback[k]
    BY <1>2, <1>3, <1>5
  <2>3. \A k \in Legs : callback'[k] <= resent + (IF k \in Over' THEN 1 ELSE 0)
    BY <1>3, <1>4, <2>2 DEF CountInv, LegsTyped
  <2>4. \A k \in Legs : k \notin Over' => callback'[k] = 0
    BY <1>4, <2>2 DEF CountInv, LegsTyped
  <2> QED BY <1>2, <2>1, <2>2, <2>3, <2>4 DEF CountInv, LegsTyped
<1>7. OwnLegs'
  <2>1. \A k \in Legs : leg[k] = "none" => leg'[k] = "none"
    BY <1>2, <1>3
  <2>2. \A w \in Workers, r \in Reps :
           worker[w].at = "ring" => <<worker[w].delivery, r>> \in Legs
    BY DEF CountInv, VoiceInv, RowTyped, Job, LegsTyped, OwnLegs, Legs
  <2>3. \A w \in Workers : worker[w].todo \subseteq Reps
    BY DEF CountInv, VoiceInv, RowTyped, Job
  <2> QED BY <1>2, <2>1, <2>2, <2>3 DEF CountInv, OwnLegs
<1>8. Tallied'
  <2>1. Cardinality(UnderWay') = Cardinality(UnderWay) + 1 /\ Cardinality(UnderWay) \in Nat
    <3>1. callback[l] <= Resends
      BY <1>5
    <3> QED BY <1>2, <3>1, MoreCallbacks, Countable, FS_CardinalityType
  <2>2. Cardinality(Over') = Cardinality(Over) + 1 /\ Cardinality(Over) \in Nat
    BY <1>4, Countable, FS_AddElement, FS_CardinalityType
  <2>3. inbound.done \in Nat /\ resent \in Nat /\ Cardinality(Counters) \in Nat
    BY Countable, FS_CardinalityType DEF CountInv, VoiceInv, RowTyped, CallRow, LegsTyped
  <2> QED BY <1>2, <1>4, <2>1, <2>2, <2>3 DEF CountInv, Tallied
<1> QED BY <1>1, <1>4, <1>6, <1>7, <1>8 DEF CountInv

\* A repetition is counted as one.
LEMMA ResendCount ==
  ASSUME CountInv, NEW l \in Legs, Resend(l)
  PROVE  CountInv' /\ Placed' = Placed
<1> USE VoiceAssumption
<1>1. VoiceInv'
  BY TwilioInv DEF CountInv
<1>2. /\ leg[l] \in {"declined", "left"} /\ resent < Resends /\ resent' = resent + 1
      /\ callback' = [callback EXCEPT ![l] = @ + 1]
      /\ UNCHANGED <<inbound, leg, delivered, worker, fallbacks, unheard>>
  BY DEF Resend
<1>3. callback \in [Legs -> Nat] /\ resent \in 0..Resends /\ l \in Over
  BY <1>2 DEF CountInv, LegsTyped, Over
<1>4. Over' = Over /\ Placed' = Placed /\ Counters' = Counters
  BY <1>2 DEF Over, Placed, Counters
<1>5. callback[l] <= Resends
  BY <1>2, <1>3 DEF CountInv, LegsTyped
<1>6. LegsTyped'
  <2>1. callback' \in [Legs -> Nat]
        /\ \A k \in Legs : callback'[k] = IF k = l THEN callback[l] + 1 ELSE callback[k]
    BY <1>2, <1>3
  <2>2. \A k \in Legs : callback'[k] <= resent' + (IF k \in Over THEN 1 ELSE 0)
    BY <1>2, <1>3, <2>1 DEF CountInv, LegsTyped
  <2>3. \A k \in Legs : k \notin Over => callback'[k] = 0
    BY <1>3, <2>1 DEF CountInv, LegsTyped
  <2>4. resent' \in 0..Resends
    BY <1>2, <1>3
  <2> QED BY <1>2, <1>4, <2>1, <2>2, <2>3, <2>4 DEF CountInv, LegsTyped
<1>7. OwnLegs'
  BY <1>2 DEF CountInv, OwnLegs
<1>8. Tallied'
  <2>1. Cardinality(UnderWay') = Cardinality(UnderWay) + 1 /\ Cardinality(UnderWay) \in Nat
    BY <1>2, <1>5, MoreCallbacks, Countable, FS_CardinalityType
  <2>2. inbound.done \in Nat /\ resent \in Nat /\ Cardinality(Counters) \in Nat
        /\ Cardinality(Over) \in Nat
    BY Countable, FS_CardinalityType DEF CountInv, VoiceInv, RowTyped, CallRow, LegsTyped
  <2> QED BY <1>2, <1>4, <2>1, <2>2 DEF CountInv, Tallied
<1> QED BY <1>1, <1>4, <1>6, <1>7, <1>8 DEF CountInv

\* Every step keeps the count.
LEMMA NextCount == CountInv /\ [VoiceNext]_voiceVars => CountInv'
<1> SUFFICES ASSUME CountInv, [VoiceNext]_voiceVars PROVE CountInv'
  OBVIOUS
<1>1. CASE \E w \in Workers : Work(w)
  BY <1>1, RingCount, StoreCount, ClaimCount, RingFallbackCount DEF Work
<1>2. CASE \E w \in Workers : \E online \in SUBSET Reps : VoiceInbound(w, online)
  BY <1>2, InboundCount
<1>3. CASE Report
  BY <1>3, RepStatusCount DEF Report
<1>4. CASE \E l \in Legs : Answer(l) \/ EndLeg(l) \/ Resend(l)
  BY <1>4, AnswerCount, EndCount, ResendCount
<1>5. CASE UNCHANGED voiceVars
  <2>1. Over' = Over /\ Counters' = Counters
    BY <1>5 DEF voiceVars, Over, Counters
  <2>2. VoiceInv'
    BY <1>5, VoiceNextInv DEF CountInv
  <2>3. Tallied'
    BY <1>5, <2>1, SameCount DEF voiceVars, CountInv
  <2> QED BY <1>5, <2>1, <2>2, <2>3 DEF voiceVars, CountInv, LegsTyped, OwnLegs
<1> QED BY <1>1, <1>2, <1>3, <1>4, <1>5 DEF VoiceNext

\* The count bounds every counter of the row.
LEMMA CountTypes == CountInv => VoiceTypes
<1> SUFFICES ASSUME CountInv PROVE VoiceTypes
  OBVIOUS
<1> USE VoiceAssumption DEF CountInv
<1>1. inbound \in [named : BOOLEAN, total : 0..Cardinality(Reps),
                done : 0..(Cardinality(Legs) + Resends), claimed : BOOLEAN]
  <2>1. Cardinality(Over) <= Cardinality(Legs) /\ Cardinality(Over) \in Nat
        /\ Cardinality(Legs) \in Nat
    BY Countable, FS_Subset, FS_CardinalityType DEF Over
  <2>2. Cardinality(UnderWay) \in Nat /\ Cardinality(Counters) \in Nat
    BY Countable, FS_CardinalityType
  <2>3. inbound \in CallRow /\ inbound.total <= Cardinality(Reps) /\ resent \in 0..Resends
    BY DEF VoiceInv, RowTyped, LegsTyped
  <2>4. inbound.done <= Cardinality(Legs) + Resends
    BY <2>1, <2>2, <2>3 DEF Tallied, CallRow
  <2> QED BY <2>1, <2>3, <2>4, Countable DEF CallRow
<1>2. worker \in [Workers -> [at : {"idle", "ring", "claim", "fallback"},
                              delivery : 0..(Retries + 1), todo : SUBSET Reps,
                              started : 0..Cardinality(Reps)]]
  <2>1. worker \in [Workers -> Job]
    BY DEF VoiceInv, RowTyped
  <2>2. ASSUME NEW w \in Workers
        PROVE  worker[w].delivery <= Retries + 1 /\ worker[w].started <= Cardinality(Reps)
    <3>1. worker[w].started \in Nat /\ Cardinality(worker[w].todo) \in Nat
      BY <2>1, FS_Subset, FS_CardinalityType DEF Job
    <3> QED BY <3>1, Countable DEF OwnLegs
  <2> QED BY <2>1, <2>2, Countable DEF Job
<1>3. callback \in [Legs -> 0..(1 + Resends)]
  BY DEF LegsTyped
<1> QED BY <1>1, <1>2, <1>3 DEF VoiceTypes, VoiceInv, RowTyped, LegsTyped

\* The counters of the row and of the workers keep within the number of
\* representatives, of legs and of repetitions.
THEOREM CountInvariant == VoiceSpec => []CountInv
<1>1. VoiceInit => CountInv
  BY InitCount
<1> QED BY <1>1, NextCount, PTL DEF VoiceSpec
-----------------------------------------------------------------------------
\* One delivery of the inbound webhook, and every answer of Twilio arrives.
Undisturbed == Retries = 0 /\ ~ResponsesLost

\* Then the steps that place legs keep the total whole.
LEMMA PlaceWhole ==
  ASSUME Undisturbed, CountInv, Whole, NEW w \in Workers,
         \/ \E online \in SUBSET Reps : VoiceInbound(w, online)
         \/ \E r \in Reps : RingBrowser(w, r)
         \/ StoreTotal(w)
  PROVE  Whole'
<1> USE VoiceAssumption
<1>1. worker \in [Workers -> Job] /\ inbound \in CallRow /\ delivered \in Nat
      /\ leg \in [Legs -> LegState] /\ delivered <= 1
  BY DEF CountInv, VoiceInv, RowTyped, LegsTyped, Undisturbed
<1>2. \A v \in Workers : worker[v].at = "ring" => worker[v].delivery = 1 /\ delivered = 1
  BY <1>1 DEF CountInv, OwnLegs
<1>3. CASE \E online \in SUBSET Reps : VoiceInbound(w, online)
  <2>1. PICK online \in SUBSET Reps : VoiceInbound(w, online)
    BY <1>3
  <2>2. /\ delivered = 0 /\ delivered' = 1 /\ UNCHANGED <<inbound, leg>>
        /\ worker' = [worker EXCEPT ![w] =
              IF online = {} THEN NotBusy
              ELSE [at |-> "ring", delivery |-> delivered + 1,
                    todo |-> online, started |-> 0]]
    BY <2>1, <1>1 DEF VoiceInbound, Busy, Undisturbed
  <2>3. Placed = {} /\ Placed' = Placed
    BY <2>2, <1>1 DEF CountInv, LegsTyped, Legs, Placed
  <2>4. ~inbound.named
    BY <2>2 DEF Whole
  <2>5. Counters' = Counters
    BY <2>1, <2>2, <1>1 DEF Counters, VoiceInbound, NotBusy
  <2>6. \A v \in Workers : worker'[v].at = "ring" => worker'[v].started = 0
    BY <2>2, <1>1, <1>2 DEF NotBusy
  <2> QED BY <2>2, <2>3, <2>4, <2>5, <2>6, FS_EmptySet DEF Whole
<1>4. CASE \E r \in Reps : RingBrowser(w, r)
  <2>1. PICK r \in Reps : RingBrowser(w, r)
    BY <1>4
  <2> DEFINE l == <<worker[w].delivery, r>>
  <2>2. /\ l \in Legs /\ leg[l] = "none" /\ worker[w].at = "ring"
        /\ \A v \in Workers \ {w} : worker'[v] = worker[v]
        /\ worker'[w].at = "ring"
        /\ leg' \in {leg, [leg EXCEPT ![l] = "ringing"]}
        /\ worker'[w].started \in {worker[w].started, worker[w].started + 1}
        /\ leg' = leg <=> worker'[w].started = worker[w].started
    BY <2>1, RingStep DEF Undisturbed
  <2>3. UNCHANGED <<inbound, delivered>>
    BY <2>1 DEF RingBrowser
  <2>4. \A v \in Workers : worker'[v].at = "ring" => v = w
    BY <2>2, <1>2 DEF CountInv, OwnLegs
  <2>5. worker'[w].started = Cardinality(Placed')
    <3>1. worker[w].started = Cardinality(Placed)
      BY <2>2 DEF Whole
    <3>2. CASE leg' = leg
      BY <3>1, <3>2, <2>2 DEF Placed
    <3>3. CASE leg' # leg
      <4>1. Placed' = Placed \cup {l} /\ l \notin Placed
        BY <3>3, <2>2, <1>1 DEF Placed
      <4>2. Cardinality(Placed') = Cardinality(Placed) + 1
        BY <4>1, Countable, FS_AddElement
      <4> HIDE DEF l
      <4> QED BY <3>1, <3>3, <4>2, <2>2
    <3> QED BY <3>2, <3>3
  <2>6. Counters' = Counters
    BY <2>2 DEF Counters
  <2> QED BY <2>2, <2>3, <2>4, <2>5, <2>6 DEF Whole
<1>5. CASE StoreTotal(w)
  <2>1. /\ worker[w].at = "ring" /\ worker' = [worker EXCEPT ![w] = NotBusy]
        /\ UNCHANGED <<leg, delivered>>
        /\ inbound' = IF worker[w].started = 0 THEN inbound
                   ELSE [inbound EXCEPT !.named = TRUE, !.total = worker[w].started]
    BY <1>5 DEF StoreTotal, Busy
  <2>2. Placed' = Placed /\ Counters' = Counters
    BY <2>1, <1>1 DEF Placed, Counters, NotBusy
  <2>3. \A v \in Workers : worker'[v].at # "ring"
    BY <2>1, <1>1, <1>2 DEF CountInv, OwnLegs, NotBusy
  <2>4. ~inbound.named /\ worker[w].started = Cardinality(Placed) /\ delivered = 1
    BY <2>1, <1>2 DEF Whole
  <2>5. inbound.done = 0 /\ ~inbound.claimed /\ Counters = {}
    BY <2>4 DEF Whole
  <2>6. /\ ~inbound'.claimed /\ inbound'.done = 0
        /\ inbound'.named => inbound'.total = Cardinality(Placed)
    BY <2>1, <2>4, <2>5, <1>1 DEF CallRow
  <2> QED BY <2>1, <2>2, <2>3, <2>4, <2>5, <2>6 DEF Whole
<1> QED BY <1>3, <1>4, <1>5

\* So do the callbacks, the claim and the legs that change.
LEMMA ReportWhole ==
  ASSUME Undisturbed, CountInv, Whole, NEW w \in Workers,
         \/ \E l \in Legs : VoiceRepStatus(w, l)
         \/ ClaimFallback(w)
         \/ RingFallback(w)
  PROVE  Whole'
<1> USE VoiceAssumption
<1>1. worker \in [Workers -> Job] /\ inbound \in CallRow
  BY DEF CountInv, VoiceInv, RowTyped
<1>2. CASE \E l \in Legs : VoiceRepStatus(w, l)
  <2>1. PICK l \in Legs : VoiceRepStatus(w, l)
    BY <1>2
  <2>2. UNCHANGED <<inbound, leg, delivered>> /\ Placed' = Placed
    BY <2>1 DEF VoiceRepStatus, Placed
  <2>3. \A v \in Workers : /\ worker'[v].at = "ring" => worker'[v] = worker[v]
                           /\ ~inbound.named /\ worker'[v].at = "claim" => worker[v].at = "claim"
    BY <2>1, <1>1 DEF VoiceRepStatus, Busy, NotBusy
  <2>4. ~inbound.named /\ Counters = {} => Counters' = {}
    BY <2>3 DEF Counters
  <2> QED BY <2>2, <2>3, <2>4 DEF Whole
<1>3. CASE ClaimFallback(w)
  <2>1. /\ inbound'.done = inbound.done + 1 /\ inbound'.total = inbound.total /\ inbound'.named = inbound.named
        /\ Counters' = Counters \ {w} /\ w \in Counters
        /\ inbound'.claimed => inbound.claimed \/ inbound'.done >= inbound'.total
    BY <1>3, ClaimCount
  <2>2. UNCHANGED <<leg, delivered>> /\ Placed' = Placed
    BY <1>3 DEF ClaimFallback, Placed
  <2>3. inbound.named
    BY <2>1 DEF Whole
  <2>4. \A v \in Workers : worker'[v].at = "ring" => worker'[v] = worker[v]
    BY <1>3, <1>1 DEF ClaimFallback, Busy, NotBusy
  <2> QED BY <2>1, <2>2, <2>3, <2>4, <1>1 DEF Whole, CallRow
<1>4. CASE RingFallback(w)
  <2>1. UNCHANGED <<inbound, leg, delivered>> /\ Placed' = Placed
    BY <1>4 DEF RingFallback, Placed
  <2>2. \A v \in Workers : worker'[v].at = "ring" => worker'[v] = worker[v]
    BY <1>4, <1>1 DEF RingFallback, Busy, NotBusy
  <2>3. Counters' = Counters
    BY <1>4, RingFallbackCount
  <2> QED BY <2>1, <2>2, <2>3 DEF Whole
<1> QED BY <1>2, <1>3, <1>4

\* Every step of an undisturbed call keeps the total whole.
LEMMA NextWhole ==
  ASSUME Undisturbed, CountInv, Whole, [VoiceNext]_voiceVars
  PROVE  Whole'
<1>1. CASE \E w \in Workers : Work(w)
  BY <1>1, PlaceWhole, ReportWhole DEF Work
<1>2. CASE \E w \in Workers : \E online \in SUBSET Reps : VoiceInbound(w, online)
  BY <1>2, PlaceWhole
<1>3. CASE Report
  BY <1>3, ReportWhole DEF Report
<1>4. CASE \E l \in Legs : Answer(l) \/ EndLeg(l) \/ Resend(l)
  <2>1. Placed' = Placed
    BY <1>4, AnswerCount, EndCount, ResendCount
  <2>2. UNCHANGED <<inbound, delivered, worker>>
    BY <1>4 DEF Answer, EndLeg, Resend
  <2> QED BY <2>1, <2>2 DEF Whole, Counters
<1>5. CASE UNCHANGED voiceVars
  BY <1>5 DEF voiceVars, Whole, Placed, Counters
<1> QED BY <1>1, <1>2, <1>3, <1>4, <1>5 DEF VoiceNext

\* As many reports as legs, and none of them a repetition: every leg is over.
LEMMA ClaimedMeansOver ==
  ASSUME CountInv, Whole, inbound.claimed, resent = 0
  PROVE  \A l \in Legs : leg[l] # "ringing"
<1> USE VoiceAssumption
<1>1. inbound \in CallRow /\ inbound.named /\ inbound.done >= Cardinality(Placed)
  BY DEF CountInv, VoiceInv, RowTyped, Whole
<1>2. /\ Cardinality(UnderWay) \in Nat /\ Cardinality(Counters) \in Nat
      /\ Cardinality(Over) \in Nat /\ Cardinality(Placed) \in Nat
  BY Countable, FS_CardinalityType
<1>3. Cardinality(Over) >= Cardinality(Placed)
  BY <1>1, <1>2 DEF CountInv, Tallied, CallRow
<1>4. Over \subseteq Placed
  BY DEF Over, Placed
<1>5. Over = Placed
  <2>1. Cardinality(Over) <= Cardinality(Placed)
        /\ (Cardinality(Placed) = Cardinality(Over) => Placed = Over)
    BY <1>4, Countable, FS_Subset
  <2> QED BY <1>2, <1>3, <2>1
<1> QED BY <1>5 DEF Over, Placed

\* The caller is not pulled away from a browser that still rings: in a call
\* whose webhook came once and whose legs were all acknowledged, for any
\* workers, representatives, repetitions and order of callbacks.
THEOREM NobodyStillRingsHolds ==
  ASSUME Undisturbed
  PROVE  VoiceSpec => []NobodyStillRings
<1>1. VoiceInit => CountInv /\ Whole
  BY InitCount
<1>2. (CountInv /\ Whole) /\ [VoiceNext]_voiceVars => (CountInv /\ Whole)'
  BY NextCount, NextWhole
<1>3. CountInv /\ Whole => NobodyStillRings
  BY CountTypes, ClaimedMeansOver DEF NobodyStillRings
<1> QED BY <1>1, <1>2, <1>3, PTL DEF VoiceSpec

-----------------------------------------------------------------------------
(***************************************************************************)
(* The promises of the text thread, for any sessions, messages and         *)
(* replies: a message is stored once, a STOP stands, a delivered text      *)
(* stays delivered and a customer who waits is seen to wait.               *)
(*                                                                         *)
(* Each rests on what the transactions under way know.  A message being    *)
(* handled is not stored yet and is handled once (Keyed); a reply was      *)
(* begun while the thread's opt-out, which is the customer's last keyword, *)
(* was clear (Heeded); a reply under way has no status yet, and a status   *)
(* report was made of one that had (Reported); and as long as nobody wrote *)
(* over what he had not loaded, what staff marked read they were shown     *)
(* (Watched).                                                              *)
(***************************************************************************)
Thread == [exists : BOOLEAN, status : {"open", "pending", "resolved"},
           last : Inbound \cup {NoText}, out : BOOLEAN, linked : BOOLEAN]

Person == [known : BOOLEAN, out : BOOLEAN]

Calls ==
    {Idle}
    \cup [op : {"inbound"}, step : {"flush"}, text : Inbound, thread : Thread, who : Person]
    \cup [op : {"reply"}, step : {"send", "flush"}, reply : Replies, thread : Thread,
          against : BOOLEAN]
    \cup [op : {"patch"}, thread : Thread, status : {"open", "pending", "resolved"}]
    \cup [op : {"start"}, thread : Thread]
    \cup [op : {"read"}, texts : SUBSET Inbound]
    \cup [op : {"status"}, reply : Replies, old : {"sent", "delivered", "failed"},
          new : {"sent", "delivered", "failed"}]

Doing(s, op) == call[s].op = op

Typed ==
    /\ TypeOK
    /\ call \in [Sessions -> Calls]
    /\ verdict \in [Replies -> {"delivered", "failed"}]

\* The key of webhook_events: who handles a message is the only one, and it is
\* not stored.
Keyed ==
    /\ \A m \in Inbound : stored[m] = IF m \in ingested THEN 1 ELSE 0
    /\ \A s \in Sessions : Doing(s, "inbound") => call[s].text \notin ingested
    /\ \A s, t \in Sessions :
          Doing(s, "inbound") /\ Doing(t, "inbound") /\ call[s].text = call[t].text => s = t

\* The opt-out of the thread is the customer's last keyword, and who replies
\* found it clear.
Heeded ==
    /\ conv.out = (wish = "stop")
    /\ \A s \in Sessions : Doing(s, "reply") => ~call[s].against

\* A reply under way has no status; a report is about one that has, and says
\* what becomes of it.
Reported ==
    /\ \A r \in Replies : sent[r] \in {"none", "sent", verdict[r]} /\ (sent[r] # "none" => r \in left)
    /\ \A s \in Sessions :
          /\ Doing(s, "reply") => sent[call[s].reply] = "none"
          /\ At(s, "reply", "send") => call[s].reply \notin left
          /\ At(s, "reply", "flush") => call[s].reply \in left
          /\ Doing(s, "status") =>
                /\ sent[call[s].reply] # "none"
                /\ call[s].old \in {"sent", verdict[call[s].reply]}
                /\ call[s].new \in {"sent", verdict[call[s].reply]}
    /\ \A s, t \in Sessions :
          Doing(s, "reply") /\ Doing(t, "reply") /\ call[s].reply = call[t].reply => s = t

\* What was loaded is stored, and without a race what is read was shown.
Watched ==
    /\ \A s \in Sessions : Doing(s, "read") => call[s].texts \subseteq Stored
    /\ shown \subseteq Stored
    /\ ~raced => read \subseteq shown

IInv == Typed /\ Keyed /\ Heeded /\ Reported /\ Watched /\ UnansweredShows
-----------------------------------------------------------------------------
\* What the fields of a transaction are.
LEMMA CallShape ==
  ASSUME NEW c \in Calls
  PROVE  /\ c.op \in {"idle", "inbound", "reply", "patch", "start", "read", "status"}
         /\ c.op = "idle" => c = Idle
         /\ c.op = "inbound" => c.text \in Inbound /\ c.thread \in Thread /\ c.who \in Person
         /\ c.op = "reply" => /\ c.reply \in Replies /\ c.thread \in Thread
                              /\ c.against \in BOOLEAN /\ c.step \in {"send", "flush"}
         /\ c.op = "patch" => c.thread \in Thread /\ c.status \in {"open", "pending", "resolved"}
         /\ c.op = "start" => c.thread \in Thread
         /\ c.op = "read" => c.texts \subseteq Inbound
         /\ c.op = "status" => /\ c.reply \in Replies
                               /\ c.old \in {"sent", "delivered", "failed"}
                               /\ c.new \in {"sent", "delivered", "failed"}
  BY DEF Calls, Idle

\* An ended request is none; the others are what they were.
LEMMA EndFacts ==
  ASSUME Typed, NEW s \in Sessions, End(s)
  PROVE  /\ call' \in [Sessions -> Calls]
         /\ call'[s] = Idle
         /\ \A t \in Sessions : t # s => call'[t] = call[t]
         /\ \A t \in Sessions : call'[t].op # "idle" => t # s /\ call'[t] = call[t]
<1>1. call \in [Sessions -> Calls] /\ Idle \in Calls
  BY DEF Typed, Calls
<1>2. call' = [call EXCEPT ![s] = Idle]
  BY DEF End
<1>3. /\ call'[s] = Idle /\ \A t \in Sessions : t # s => call'[t] = call[t]
      /\ call' \in [Sessions -> Calls]
  BY <1>1, <1>2
<1>4. Idle.op = "idle"
  BY DEF Idle
<1> QED BY <1>3, <1>4

\* A request that begins leaves everything else alone, and keeps the invariant
\* when what it noted is so.
LEMMA BeginInv ==
  ASSUME IInv, NEW s \in Sessions, NEW c \in Calls, Begin(s, c),
         c.op = "inbound" => c.text \notin ingested \cup Handled,
         c.op = "reply" => /\ c.step = "send" /\ ~c.against /\ sent[c.reply] = "none" /\ c.reply \notin left
                           /\ \A t \in Sessions : Doing(t, "reply") => call[t].reply # c.reply,
         c.op = "status" => /\ sent[c.reply] # "none"
                            /\ c.old \in {"sent", verdict[c.reply]}
                            /\ c.new \in {"sent", verdict[c.reply]},
         c.op = "read" => c.texts \subseteq Stored
  PROVE  IInv'
<1> USE DEF IInv
<1>1. /\ call' = [call EXCEPT ![s] = c] /\ call[s] = Idle
      /\ UNCHANGED <<conv, contact, ingested, stored, sent, left, verdict, read,
                     wish, shown, waiting, raced>>
  BY DEF Begin
<1>2. call \in [Sessions -> Calls]
  BY DEF Typed
<1>3. /\ call' \in [Sessions -> Calls]
      /\ \A t \in Sessions : call'[t] = IF t = s THEN c ELSE call[t]
  BY <1>1, <1>2
<1>4. Typed'
  BY <1>1, <1>3 DEF Typed, TypeOK
<1>5. Keyed'
  <2>1. \A t \in Sessions : Doing(t, "inbound") /\ c.op = "inbound" => call[t].text # c.text
    BY DEF Handled, Doing
  <2> QED BY <2>1, <1>1, <1>3 DEF Keyed, Doing
<1>6. Heeded'
  BY <1>1, <1>3 DEF Heeded, Doing
<1>7. Reported'
  <2>1. \A r \in Replies : sent'[r] \in {"none", "sent", verdict'[r]}
                           /\ (sent'[r] # "none" => r \in left')
    BY <1>1 DEF Reported
  <2>2. ASSUME NEW t \in Sessions
        PROVE  /\ Doing(t, "reply")' => sent'[call'[t].reply] = "none"
               /\ At(t, "reply", "send")' => call'[t].reply \notin left'
               /\ At(t, "reply", "flush")' => call'[t].reply \in left'
               /\ Doing(t, "status")' =>
                     /\ sent'[call'[t].reply] # "none"
                     /\ call'[t].old \in {"sent", verdict'[call'[t].reply]}
                     /\ call'[t].new \in {"sent", verdict'[call'[t].reply]}
    <3>1. CASE t = s
      BY <3>1, <1>1, <1>3 DEF Doing, At
    <3>2. CASE t # s
      BY <3>2, <1>1, <1>3 DEF Doing, At, Reported
    <3> QED BY <3>1, <3>2
  <2>3. ASSUME NEW t \in Sessions, NEW u \in Sessions,
               Doing(t, "reply")', Doing(u, "reply")', call'[t].reply = call'[u].reply
        PROVE  t = u
    BY <2>3, <1>3 DEF Doing, Reported
  <2> QED BY <2>1, <2>2, <2>3 DEF Reported
<1>8. Watched'
  <2>1. Stored' = Stored
    BY <1>1 DEF Stored
  <2> QED BY <2>1, <1>1, <1>3 DEF Watched, Doing
<1>9. UnansweredShows'
  BY <1>1 DEF UnansweredShows, WaitingIsOpen, UnseenIsUnread
<1> QED BY <1>4, <1>5, <1>6, <1>7, <1>8, <1>9

\* With an empty thread and nobody at work the invariant holds.
LEMMA InitInv == Init => IInv
<1> SUFFICES ASSUME Init PROVE IInv
  OBVIOUS
<1>1. \A s \in Sessions : call[s].op = "idle"
  BY DEF Init, Idle
<1>2. Typed
  BY DEF Init, Typed, TypeOK, NoThread, Calls
<1>3. Keyed
  BY <1>1 DEF Init, Keyed, Doing
<1>4. Heeded
  BY <1>1 DEF Init, Heeded, NoThread, Doing
<1>5. Reported
  BY <1>1 DEF Init, Reported, Doing, At
<1>6. Watched
  BY <1>1 DEF Init, Watched, Doing
<1>7. UnansweredShows
  BY DEF Init, UnansweredShows, WaitingIsOpen, UnseenIsUnread
<1> QED BY <1>2, <1>3, <1>4, <1>5, <1>6, <1>7 DEF IInv

\* Every request notes what is so when it begins.
LEMMA BeginsInv ==
  ASSUME IInv, NEW s \in Sessions,
         \/ \E m \in Inbound : BeginInbound(s, m)
         \/ \E r \in Replies : BeginReply(s, r) \/ BeginStatus(s, r)
         \/ BeginPatch(s) \/ BeginStart(s) \/ BeginRead(s)
  PROVE  IInv'
<1>1. conv \in Thread /\ contact \in Person /\ Stored \subseteq Inbound
  BY DEF IInv, Typed, TypeOK, Thread, Person, Stored
<1>2. ASSUME NEW m \in Inbound, BeginInbound(s, m) PROVE IInv'
  <2>1. PICK c : c = [op |-> "inbound", step |-> "flush", text |-> m,
                      thread |-> conv, who |-> contact]
    OBVIOUS
  <2>2. c \in Calls /\ c.op = "inbound" /\ c.text = m
    BY <2>1, <1>1 DEF Calls
  <2> QED BY <2>1, <2>2, <1>2, BeginInv DEF BeginInbound, New
<1>3. ASSUME NEW r \in Replies, BeginReply(s, r) PROVE IInv'
  <2>1. PICK c : c = [op |-> "reply", step |-> "send", reply |-> r, thread |-> conv,
                      against |-> wish = "stop"]
    OBVIOUS
  <2>2. /\ c \in Calls /\ c.op = "reply" /\ c.step = "send" /\ c.reply = r
        /\ c.against = (wish = "stop")
    BY <2>1, <1>1 DEF Calls
  <2>3. ~c.against
    BY <2>2, <1>3 DEF BeginReply, OptedOut, IInv, Heeded
  <2>4. r \notin left /\ sent[r] = "none"
    BY <1>3 DEF BeginReply, IInv, Reported
  <2> QED BY <2>1, <2>2, <2>3, <2>4, <1>3, BeginInv DEF BeginReply, Doing
<1>4. ASSUME NEW r \in Replies, BeginStatus(s, r) PROVE IInv'
  <2>1. PICK new \in {"sent", verdict[r]} :
           Begin(s, [op |-> "status", reply |-> r, old |-> sent[r], new |-> new])
    BY <1>4 DEF BeginStatus
  <2>2. PICK c : c = [op |-> "status", reply |-> r, old |-> sent[r], new |-> new]
    OBVIOUS
  <2>3. sent[r] \in {"sent", verdict[r]} /\ verdict[r] \in {"delivered", "failed"}
    BY <1>4 DEF BeginStatus, IInv, Reported, Typed
  <2>4. c \in Calls /\ c.op = "status" /\ c.reply = r /\ c.old = sent[r] /\ c.new = new
    BY <2>1, <2>2, <2>3 DEF Calls
  <2> QED BY <2>1, <2>2, <2>3, <2>4, <1>4, BeginInv DEF BeginStatus
<1>5. CASE BeginPatch(s)
  <2>1. PICK status \in {"open", "pending", "resolved"} :
           Begin(s, [op |-> "patch", thread |-> conv, status |-> status])
    BY <1>5 DEF BeginPatch
  <2>2. PICK c : c = [op |-> "patch", thread |-> conv, status |-> status]
    OBVIOUS
  <2>3. c \in Calls /\ c.op = "patch"
    BY <2>2, <1>1 DEF Calls
  <2> QED BY <2>1, <2>2, <2>3, BeginInv
<1>6. CASE BeginStart(s)
  <2>1. PICK c : c = [op |-> "start", thread |-> conv]
    OBVIOUS
  <2>2. c \in Calls /\ c.op = "start"
    BY <2>1, <1>1 DEF Calls
  <2> QED BY <1>6, <2>1, <2>2, BeginInv DEF BeginStart
<1>7. CASE BeginRead(s)
  <2>1. PICK c : c = [op |-> "read", texts |-> Stored]
    OBVIOUS
  <2>2. c \in Calls /\ c.op = "read" /\ c.texts = Stored
    BY <2>1, <1>1 DEF Calls
  <2> QED BY <1>7, <2>1, <2>2, BeginInv DEF BeginRead
<1> QED BY <1>2, <1>3, <1>4, <1>5, <1>6, <1>7
-----------------------------------------------------------------------------
\* An end that leaves the variables of a conjunct alone keeps it.
LEMMA EndQuiet ==
  ASSUME IInv, NEW s \in Sessions, End(s)
  PROVE  /\ UNCHANGED <<ingested, stored>> => Keyed'
         /\ UNCHANGED wish /\ conv'.out = conv.out => Heeded'
         /\ UNCHANGED <<sent, left, verdict>> => Reported'
         /\ UNCHANGED <<stored, read, shown>> /\ (raced => raced') => Watched'
<1>1. /\ call' \in [Sessions -> Calls] /\ call'[s].op = "idle"
      /\ \A t \in Sessions : t # s => call'[t] = call[t]
  BY EndFacts DEF IInv, Idle
<1>2. ASSUME UNCHANGED <<ingested, stored>> PROVE Keyed'
  BY <1>1, <1>2 DEF IInv, Keyed, Doing
<1>3. ASSUME UNCHANGED wish, conv'.out = conv.out PROVE Heeded'
  BY <1>1, <1>3 DEF IInv, Heeded, Doing
<1>4. ASSUME UNCHANGED <<sent, left, verdict>> PROVE Reported'
  <2>1. ASSUME NEW t \in Sessions
        PROVE  /\ Doing(t, "reply")' => sent'[call'[t].reply] = "none"
               /\ At(t, "reply", "send")' => call'[t].reply \notin left'
               /\ At(t, "reply", "flush")' => call'[t].reply \in left'
               /\ Doing(t, "status")' =>
                     /\ sent'[call'[t].reply] # "none"
                     /\ call'[t].old \in {"sent", verdict'[call'[t].reply]}
                     /\ call'[t].new \in {"sent", verdict'[call'[t].reply]}
    BY <1>1, <1>4 DEF IInv, Reported, Doing, At
  <2>2. ASSUME NEW t \in Sessions, NEW u \in Sessions,
               Doing(t, "reply")', Doing(u, "reply")', call'[t].reply = call'[u].reply
        PROVE  t = u
    BY <2>2, <1>1 DEF IInv, Reported, Doing
  <2>3. \A r \in Replies : sent'[r] \in {"none", "sent", verdict'[r]}
                           /\ (sent'[r] # "none" => r \in left')
    BY <1>4 DEF IInv, Reported
  <2> QED BY <2>1, <2>2, <2>3 DEF Reported
<1>5. ASSUME UNCHANGED <<stored, read, shown>>, raced => raced' PROVE Watched'
  <2>1. Stored' = Stored
    BY <1>5 DEF Stored
  <2> QED BY <2>1, <1>1, <1>5 DEF IInv, Watched, Doing
<1> QED BY <1>2, <1>3, <1>4, <1>5

\* A message handled is stored for the first time, after whatever was read; the
\* thread it had loaded is the thread, or somebody raced.
LEMMA InboundInv ==
  ASSUME IInv, NEW s \in Sessions, CommitInbound(s)
  PROVE  IInv'
<1>1. PICK c : c = call[s]
  OBVIOUS
<1>2. PICK m : m = c.text
  OBVIOUS
<1>3. PICK linked : linked = (c.thread.linked \/ c.who.known)
  OBVIOUS
<1>4. /\ c \in Calls /\ c.op = "inbound" /\ MayWrite(c) /\ End(s)
      /\ conv' = [exists |-> TRUE,
                  status |-> Written(c.thread.status, Reopened(c.thread.status), conv.status),
                  last   |-> LastInbound(m),
                  out    |-> IF m \in Stops THEN TRUE
                             ELSE IF m \in Starts THEN FALSE ELSE conv.out,
                  linked |-> conv.linked \/ linked]
      /\ contact' = [contact EXCEPT !.out =
                        IF ~linked THEN @
                        ELSE IF m \in Stops THEN TRUE
                        ELSE IF m \in Starts THEN Written(c.who.out, FALSE, @) ELSE @]
      /\ ingested' = ingested \cup {m}
      /\ stored' = [stored EXCEPT ![m] = @ + 1]
      /\ wish' = IF m \in Stops THEN "stop" ELSE IF m \in Starts THEN "start" ELSE wish
      /\ waiting' = TRUE
      /\ raced' = (raced \/ Overtaken(c))
      /\ UNCHANGED <<sent, left, verdict, read, shown>>
  BY <1>1, <1>2, <1>3 DEF CommitInbound, IInv, Typed
<1>5. /\ m \in Inbound /\ c.thread \in Thread /\ c.who \in Person /\ linked \in BOOLEAN
      /\ conv \in Thread /\ contact \in Person
  BY <1>2, <1>3, <1>4, CallShape DEF IInv, Typed, TypeOK, Thread, Person
<1>6. m \notin ingested /\ stored[m] = 0 /\ stored \in [Inbound -> Nat]
  BY <1>1, <1>2, <1>4, <1>5 DEF IInv, Keyed, Doing, Typed, TypeOK
<1>7. /\ stored' \in [Inbound -> Nat] /\ stored'[m] = 1
      /\ \A k \in Inbound : k # m => stored'[k] = stored[k]
  BY <1>4, <1>5, <1>6
<1>8. /\ conv'.status \in {"open", "pending", "resolved"}
      /\ c.thread = conv => conv'.status = "open"
      /\ conv'.last = m
  BY <1>4, <1>5 DEF Written, Reopened, LastInbound, Thread
<1>9. /\ call' \in [Sessions -> Calls] /\ call'[s].op = "idle"
      /\ \A t \in Sessions : t # s => call'[t] = call[t]
  BY <1>4, EndFacts DEF IInv, Idle
<1>10. Typed'
  <2>1. conv' \in Thread
    BY <1>4, <1>5, <1>8 DEF Thread, Written, LastInbound
  <2>2. contact' \in Person
    BY <1>4, <1>5 DEF Person, Written
  <2> QED BY <2>1, <2>2, <1>4, <1>5, <1>7, <1>9 DEF IInv, Typed, TypeOK, Thread, Person
<1>11. Keyed'
  <2>1. \A k \in Inbound : stored'[k] = IF k \in ingested' THEN 1 ELSE 0
    BY <1>4, <1>7 DEF IInv, Keyed
  <2>2. \A t \in Sessions : t # s /\ Doing(t, "inbound") => call[t].text # m
    BY <1>1, <1>2, <1>4 DEF IInv, Keyed, Doing
  <2> QED BY <2>1, <2>2, <1>4, <1>9 DEF IInv, Keyed, Doing
<1>12. Heeded'
  <2>1. conv'.out = (wish' = "stop")
    BY <1>4 DEF IInv, Heeded
  <2> QED BY <2>1, <1>9 DEF IInv, Heeded, Doing
<1>13. Reported'
  BY <1>4, EndQuiet
<1>14. Stored' = Stored \cup {m} /\ m \notin Stored
  BY <1>5, <1>6, <1>7 DEF Stored
<1>15. Watched'
  BY <1>4, <1>9, <1>14 DEF IInv, Watched, Doing
<1>16. UnansweredShows'
  <2>1. WaitingIsOpen'
    BY <1>4, <1>8 DEF WaitingIsOpen, Overtaken
  <2>2. UnseenIsUnread'
    <3>1. ~raced' => m \notin read'
      BY <1>4, <1>14 DEF IInv, Watched
    <3> QED BY <3>1, <1>8 DEF UnseenIsUnread
  <2> QED BY <2>1, <2>2 DEF UnansweredShows
<1> QED BY <1>10, <1>11, <1>12, <1>13, <1>15, <1>16 DEF IInv

\* A thread loaded again is the thread.
LEMMA RefetchInv ==
  ASSUME IInv, NEW s \in Sessions, Refetch(s)
  PROVE  IInv'
<1>1. PICK c : c = call[s]
  OBVIOUS
<1>2. PICK d : d = [c EXCEPT !.thread = conv]
  OBVIOUS
<1>3. /\ c \in Calls /\ c.op \in {"inbound", "start"} /\ call' = [call EXCEPT ![s] = d]
      /\ UNCHANGED <<conv, contact, ingested, stored, sent, left, verdict, read,
                     wish, shown, waiting, raced>>
  BY <1>1, <1>2 DEF Refetch, IInv, Typed
<1>4. conv \in Thread
  BY DEF IInv, Typed, TypeOK, Thread
<1>5. /\ d \in Calls /\ d.op = c.op /\ d.op \in {"inbound", "start"}
      /\ d.op = "inbound" => d.text = c.text
  <2>1. CASE c.op = "inbound"
    <3>1. c \in [op : {"inbound"}, step : {"flush"}, text : Inbound, thread : Thread, who : Person]
      BY <2>1, <1>3 DEF Calls, Idle
    <3>2. d \in [op : {"inbound"}, step : {"flush"}, text : Inbound, thread : Thread, who : Person]
          /\ d.text = c.text
      BY <3>1, <1>2, <1>4
    <3> QED BY <3>2, <2>1 DEF Calls
  <2>2. CASE c.op = "start"
    <3>1. c \in [op : {"start"}, thread : Thread]
      BY <2>2, <1>3 DEF Calls, Idle
    <3>2. d \in [op : {"start"}, thread : Thread]
      BY <3>1, <1>2, <1>4
    <3> QED BY <3>2, <2>2 DEF Calls
  <2> QED BY <2>1, <2>2, <1>3
<1>6. /\ call' \in [Sessions -> Calls] /\ call'[s] = d
      /\ \A t \in Sessions : t # s => call'[t] = call[t]
  BY <1>3, <1>5 DEF IInv, Typed
<1>7. Typed'
  BY <1>3, <1>6 DEF IInv, Typed, TypeOK
<1>8. \A t \in Sessions : /\ call'[t].op = call[t].op
                          /\ call[t].op \notin {"inbound", "start"} => call'[t] = call[t]
                          /\ call[t].op = "inbound" => call'[t].text = call[t].text
  BY <1>1, <1>3, <1>5, <1>6
<1>9. Keyed'
  BY <1>3, <1>8 DEF IInv, Keyed, Doing
<1>10. Heeded'
  BY <1>3, <1>8 DEF IInv, Heeded, Doing
<1>11. Reported'
  BY <1>3, <1>8 DEF IInv, Reported, Doing, At
<1>12. Stored' = Stored
  BY <1>3 DEF Stored
<1>13. Watched'
  BY <1>3, <1>8, <1>12 DEF IInv, Watched, Doing
<1>14. UnansweredShows'
  BY <1>3 DEF IInv, UnansweredShows, WaitingIsOpen, UnseenIsUnread
<1> QED BY <1>7, <1>9, <1>10, <1>11, <1>13, <1>14 DEF IInv
\* A reply that leaves has left, and has no status yet.
LEMMA SendInv ==
  ASSUME IInv, NEW s \in Sessions, Send(s)
  PROVE  IInv'
<1>1. PICK c : c = call[s]
  OBVIOUS
<1>2. /\ c \in Calls /\ c.op = "reply" /\ c.step = "send"
      /\ UNCHANGED <<conv, contact, ingested, stored, sent, verdict, read,
                     wish, shown, waiting, raced>>
  BY <1>1 DEF Send, At, IInv, Typed
<1>3. CASE End(s) /\ UNCHANGED left
  <2>1. Typed'
    BY <1>2, <1>3, EndFacts DEF IInv, Typed, TypeOK
  <2>2. Keyed' /\ Heeded' /\ Reported' /\ Watched'
    BY <1>2, <1>3, EndQuiet
  <2>3. UnansweredShows'
    BY <1>2 DEF IInv, UnansweredShows, WaitingIsOpen, UnseenIsUnread
  <2> QED BY <2>1, <2>2, <2>3 DEF IInv
<1>4. CASE left' = left \cup {c.reply} /\ call' = [call EXCEPT ![s] = [c EXCEPT !.step = "flush"]]
  <2>1. PICK d : d = [c EXCEPT !.step = "flush"]
    OBVIOUS
  <2>2. /\ d \in Calls /\ d.op = "reply" /\ d.reply = c.reply /\ d.reply \in Replies
        /\ d.step = "flush" /\ d.against = c.against
    <3>1. c \in [op : {"reply"}, step : {"send", "flush"}, reply : Replies, thread : Thread,
                 against : BOOLEAN]
      BY <1>2 DEF Calls, Idle
    <3>2. /\ d \in [op : {"reply"}, step : {"send", "flush"}, reply : Replies, thread : Thread,
                    against : BOOLEAN]
          /\ d.reply = c.reply /\ d.step = "flush" /\ d.against = c.against
      BY <3>1, <2>1
    <3> QED BY <3>1, <3>2 DEF Calls
  <2>3. /\ call' \in [Sessions -> Calls] /\ call'[s] = d
        /\ \A t \in Sessions : t # s => call'[t] = call[t]
    BY <1>4, <2>1, <2>2 DEF IInv, Typed
  <2>4. Typed'
    BY <1>2, <1>4, <2>2, <2>3 DEF IInv, Typed, TypeOK
  <2>5. \A t \in Sessions : /\ call'[t].op = call[t].op
                            /\ call[t].op # "reply" => call'[t] = call[t]
                            /\ call[t].op = "reply" => /\ call'[t].reply = call[t].reply
                                                       /\ call'[t].against = call[t].against
    BY <1>1, <1>2, <2>2, <2>3
  <2>6. Keyed' /\ Heeded'
    BY <1>2, <2>5 DEF IInv, Keyed, Heeded, Doing
  <2>7. Reported'
    <3>1. ASSUME NEW t \in Sessions, At(t, "reply", "send")'
          PROVE  call'[t].reply \notin left'
      <4>1. t # s /\ call'[t] = call[t]
        BY <3>1, <2>2, <2>3 DEF At
      <4>2. call[t].reply # c.reply
        BY <3>1, <4>1, <1>1, <1>2 DEF IInv, Reported, At, Doing
      <4> QED BY <3>1, <4>1, <4>2, <1>4 DEF IInv, Reported, At
    <3>2. \A r \in Replies : sent'[r] \in {"none", "sent", verdict'[r]}
                             /\ (sent'[r] # "none" => r \in left')
      BY <1>2, <1>4 DEF IInv, Reported
    <3>3. \A t \in Sessions : Doing(t, "reply")' => sent'[call'[t].reply] = "none"
      BY <1>2, <2>5 DEF IInv, Reported, Doing
    <3>4. \A t \in Sessions : Doing(t, "status")' =>
             /\ sent'[call'[t].reply] # "none"
             /\ call'[t].old \in {"sent", verdict'[call'[t].reply]}
             /\ call'[t].new \in {"sent", verdict'[call'[t].reply]}
      BY <1>2, <2>5 DEF IInv, Reported, Doing
    <3>5. \A t, u \in Sessions :
             Doing(t, "reply")' /\ Doing(u, "reply")' /\ call'[t].reply = call'[u].reply => t = u
      BY <2>5 DEF IInv, Reported, Doing
    <3>6. \A t \in Sessions : At(t, "reply", "flush")' => call'[t].reply \in left'
      BY <2>2, <2>3, <1>4 DEF IInv, Reported, At
    <3> QED BY <3>1, <3>2, <3>3, <3>4, <3>5, <3>6 DEF Reported
  <2>8. Stored' = Stored
    BY <1>2 DEF Stored
  <2>9. Watched'
    BY <1>2, <2>5, <2>8 DEF IInv, Watched, Doing
  <2>10. UnansweredShows'
    BY <1>2 DEF IInv, UnansweredShows, WaitingIsOpen, UnseenIsUnread
  <2> QED BY <2>4, <2>6, <2>7, <2>9, <2>10 DEF IInv
<1> QED BY <1>1, <1>3, <1>4 DEF Send

\* A reply and a status set by staff end the wait; nothing else changes of the
\* thread but its status.
LEMMA AnswerInv ==
  ASSUME IInv, NEW s \in Sessions, CommitReply(s) \/ CommitPatch(s)
  PROVE  IInv'
<1>1. PICK c : c = call[s]
  OBVIOUS
<1>2. PICK new : new \in {"open", "pending", "resolved"}
                 /\ conv' = [conv EXCEPT !.status = Written(c.thread.status, new, @)]
  <2>1. conv \in Thread /\ c \in Calls
    BY <1>1 DEF IInv, Typed, TypeOK, Thread
  <2>2. CASE CommitReply(s)
    BY <2>1, <2>2, <1>1, CallShape DEF CommitReply, At, Thread
  <2>3. CASE CommitPatch(s)
    BY <2>1, <2>3, <1>1, CallShape DEF CommitPatch
  <2> QED BY <2>2, <2>3
<1>3. /\ End(s) /\ waiting' = FALSE /\ raced' = (raced \/ Overtaken(c))
      /\ UNCHANGED <<contact, ingested, stored, left, verdict, read, wish, shown>>
  BY <1>1 DEF CommitReply, CommitPatch
<1>4. /\ conv' \in Thread /\ conv'.out = conv.out /\ conv'.last = conv.last
  BY <1>2 DEF IInv, Typed, TypeOK, Thread, Written
<1>5. /\ call' \in [Sessions -> Calls] /\ call'[s].op = "idle"
      /\ \A t \in Sessions : t # s => call'[t] = call[t]
  BY <1>3, EndFacts DEF IInv, Idle
<1>6. Keyed' /\ Heeded' /\ Watched'
  BY <1>3, <1>4, EndQuiet
<1>7. Reported' /\ sent' \in [Replies -> {"none", "sent", "delivered", "failed"}]
  <2>1. CASE CommitPatch(s)
    BY <2>1, <1>3, EndQuiet DEF CommitPatch, IInv, Typed, TypeOK
  <2>2. CASE CommitReply(s)
    <3>1. PICK r : r = c.reply
      OBVIOUS
    <3>2. c.op = "reply" /\ c.step = "flush" /\ sent' = [sent EXCEPT ![r] = "sent"]
      BY <2>2, <3>1, <1>1 DEF CommitReply, At
    <3>3. r \in Replies
      BY <3>1, <3>2, <1>1, CallShape DEF IInv, Typed
    <3>4. /\ sent' \in [Replies -> {"none", "sent", "delivered", "failed"}]
          /\ \A q \in Replies : sent'[q] = IF q = r THEN "sent" ELSE sent[q]
      BY <3>2, <3>3 DEF IInv, Typed, TypeOK
    <3>5. \A t \in Sessions : t # s /\ Doing(t, "reply") => call[t].reply # r
      BY <3>1, <3>2, <1>1 DEF IInv, Reported, Doing
    <3>6. r \in left'
      BY <3>1, <3>2, <1>1, <1>3 DEF IInv, Reported, At
    <3>7. \A q \in Replies : sent'[q] \in {"none", "sent", verdict'[q]}
                             /\ (sent'[q] # "none" => q \in left')
      BY <3>4, <3>6, <1>3 DEF IInv, Reported
    <3>8. ASSUME NEW t \in Sessions
          PROVE  /\ Doing(t, "reply")' => sent'[call'[t].reply] = "none"
                 /\ At(t, "reply", "send")' => call'[t].reply \notin left'
                 /\ At(t, "reply", "flush")' => call'[t].reply \in left'
                 /\ Doing(t, "status")' =>
                       /\ sent'[call'[t].reply] # "none"
                       /\ call'[t].old \in {"sent", verdict'[call'[t].reply]}
                       /\ call'[t].new \in {"sent", verdict'[call'[t].reply]}
      <4>1. CASE t = s
        BY <4>1, <1>5 DEF Doing, At
      <4>2. CASE t # s
        <5>1. call'[t] = call[t] /\ call[t] \in Calls
          BY <4>2, <1>5 DEF IInv, Typed
        <5>2. /\ Doing(t, "reply") => call[t].reply \in Replies /\ call[t].reply # r
              /\ Doing(t, "status") => call[t].reply \in Replies
          BY <4>2, <5>1, <3>5, CallShape DEF Doing
        <5> QED BY <5>1, <5>2, <3>4, <1>3 DEF IInv, Reported, Doing, At
      <4> QED BY <4>1, <4>2
    <3>9. \A t, u \in Sessions :
             Doing(t, "reply")' /\ Doing(u, "reply")' /\ call'[t].reply = call'[u].reply => t = u
      BY <1>5 DEF IInv, Reported, Doing
    <3> QED BY <3>4, <3>7, <3>8, <3>9 DEF Reported
  <2> QED BY <2>1, <2>2
<1>8. Typed'
  BY <1>3, <1>4, <1>5, <1>7 DEF IInv, Typed, TypeOK, Thread
<1>9. UnansweredShows'
  BY <1>3, <1>4 DEF IInv, UnansweredShows, WaitingIsOpen, UnseenIsUnread
<1> QED BY <1>6, <1>7, <1>8, <1>9 DEF IInv

\* Linking a thread, and a request that comes to nothing, change nothing that
\* the promises are about.
LEMMA QuietInv ==
  ASSUME IInv, NEW s \in Sessions, CommitStart(s) \/ Die(s)
  PROVE  IInv'
<1>1. /\ End(s)
      /\ UNCHANGED <<contact, ingested, stored, sent, left, verdict, read,
                     wish, shown, waiting, raced>>
      /\ conv' \in Thread /\ conv'.out = conv.out /\ conv'.last = conv.last
      /\ conv'.status = conv.status
  BY DEF CommitStart, Die, IInv, Typed, TypeOK, Thread
<1>2. call' \in [Sessions -> Calls]
  BY <1>1, EndFacts DEF IInv
<1>3. Typed'
  BY <1>1, <1>2 DEF IInv, Typed, TypeOK, Thread
<1>4. Keyed' /\ Heeded' /\ Reported' /\ Watched'
  BY <1>1, EndQuiet
<1>5. UnansweredShows'
  BY <1>1 DEF IInv, UnansweredShows, WaitingIsOpen, UnseenIsUnread
<1> QED BY <1>3, <1>4, <1>5 DEF IInv

\* Without a race what was read is what was loaded, and that is everything.
LEMMA ReadInv ==
  ASSUME IInv, NEW s \in Sessions, CommitRead(s)
  PROVE  IInv'
<1>1. PICK c : c = call[s]
  OBVIOUS
<1>2. /\ c \in Calls /\ c.op = "read" /\ End(s)
      /\ read' = read \cup Stored \cup Handled
      /\ shown' = shown \cup c.texts
      /\ raced' = (raced \/ Stored \cup Handled # c.texts)
      /\ UNCHANGED <<conv, contact, ingested, stored, sent, left, verdict, wish, waiting>>
  BY <1>1 DEF CommitRead, IInv, Typed
<1>3. /\ call' \in [Sessions -> Calls] /\ call'[s].op = "idle"
      /\ \A t \in Sessions : t # s => call'[t] = call[t]
  BY <1>2, EndFacts DEF IInv, Idle
<1>4. c.texts \subseteq Stored /\ Stored \subseteq Inbound /\ Stored' = Stored
  BY <1>1, <1>2 DEF IInv, Watched, Doing, Stored
<1>5. Handled \subseteq Inbound
  BY CallShape DEF Handled, IInv, Typed
<1>6. Typed'
  BY <1>2, <1>3, <1>4, <1>5 DEF IInv, Typed, TypeOK
<1>7. Keyed' /\ Heeded' /\ Reported'
  BY <1>2, EndQuiet
<1>8. Watched'
  BY <1>2, <1>3, <1>4 DEF IInv, Watched, Doing
<1>9. UnansweredShows'
  <2>1. ~raced' => \A m \in Inbound : stored'[m] > 0 => m \in shown'
    BY <1>2 DEF Stored
  <2> QED BY <2>1, <1>2 DEF IInv, UnansweredShows, WaitingIsOpen, UnseenIsUnread
<1> QED BY <1>6, <1>7, <1>8, <1>9 DEF IInv

\* A report never writes over "delivered": of a text that is delivered it says
\* so, or found it sent and writes nothing.
LEMMA StatusWrites ==
  ASSUME IInv, NEW s \in Sessions, CommitStatus(s)
  PROVE  LET r == call[s].reply
         IN  /\ r \in Replies /\ sent'[r] \in {sent[r], "sent", verdict[r]}
             /\ sent[r] = "delivered" => sent'[r] = "delivered"
             /\ sent[r] # "none" /\ sent'[r] # "none"
             /\ \A q \in Replies : q # r => sent'[q] = sent[q]
             /\ sent' \in [Replies -> {"none", "sent", "delivered", "failed"}]
<1>1. PICK c : c = call[s]
  OBVIOUS
<1>2. PICK r : r = c.reply
  OBVIOUS
<1>3. /\ c \in Calls /\ c.op = "status" /\ r \in Replies
      /\ sent' = [sent EXCEPT ![r] = Written(c.old, NextStatus(c.old, c.new), @)]
  BY <1>1, <1>2, CallShape DEF CommitStatus, IInv, Typed
<1>4. /\ c.old \in {"sent", verdict[r]} /\ c.new \in {"sent", verdict[r]}
      /\ sent[r] \in {"sent", verdict[r]} /\ verdict[r] \in {"delivered", "failed"}
  BY <1>1, <1>2, <1>3 DEF IInv, Reported, Doing, Typed
<1>5. sent \in [Replies -> {"none", "sent", "delivered", "failed"}]
  BY DEF IInv, Typed, TypeOK
<1>6. PICK new : new = Written(c.old, NextStatus(c.old, c.new), sent[r])
  OBVIOUS
<1>7. /\ new \in {sent[r], "sent", verdict[r]} /\ new \in {"sent", "delivered", "failed"}
      /\ sent[r] = "delivered" => new = "delivered"
  BY <1>4, <1>6 DEF Written, NextStatus
<1>8. /\ sent' \in [Replies -> {"none", "sent", "delivered", "failed"}]
      /\ \A q \in Replies : sent'[q] = IF q = r THEN new ELSE sent[q]
  BY <1>3, <1>5, <1>6, <1>7
<1> QED BY <1>1, <1>2, <1>3, <1>4, <1>7, <1>8
\* So a report keeps what the others know of their replies.
LEMMA StatusInv ==
  ASSUME IInv, NEW s \in Sessions, CommitStatus(s)
  PROVE  IInv'
<1>1. PICK r : r = call[s].reply
  OBVIOUS
<1>2. /\ r \in Replies /\ sent'[r] \in {sent[r], "sent", verdict[r]}
      /\ sent[r] # "none" /\ sent'[r] # "none"
      /\ \A q \in Replies : q # r => sent'[q] = sent[q]
      /\ sent' \in [Replies -> {"none", "sent", "delivered", "failed"}]
  BY <1>1, StatusWrites
<1>3. /\ End(s)
      /\ UNCHANGED <<conv, contact, ingested, stored, left, verdict, read,
                     wish, shown, waiting, raced>>
  BY DEF CommitStatus
<1>4. /\ call' \in [Sessions -> Calls] /\ call'[s].op = "idle"
      /\ \A t \in Sessions : t # s => call'[t] = call[t]
  BY <1>3, EndFacts DEF IInv, Idle
<1>5. Typed'
  BY <1>2, <1>3, <1>4 DEF IInv, Typed, TypeOK
<1>6. Keyed' /\ Heeded' /\ Watched'
  BY <1>3, EndQuiet
<1>7. Reported'
  <2>1. \A q \in Replies : /\ sent'[q] \in {"none", "sent", verdict'[q]}
                           /\ sent'[q] # "none" <=> sent[q] # "none"
    BY <1>2, <1>3 DEF IInv, Reported
  <2>2. ASSUME NEW t \in Sessions
        PROVE  /\ Doing(t, "reply")' => sent'[call'[t].reply] = "none"
               /\ At(t, "reply", "send")' => call'[t].reply \notin left'
               /\ At(t, "reply", "flush")' => call'[t].reply \in left'
               /\ Doing(t, "status")' =>
                     /\ sent'[call'[t].reply] # "none"
                     /\ call'[t].old \in {"sent", verdict'[call'[t].reply]}
                     /\ call'[t].new \in {"sent", verdict'[call'[t].reply]}
    <3>1. CASE t = s
      BY <3>1, <1>4 DEF Doing, At
    <3>2. CASE t # s
      <4>1. call'[t] = call[t] /\ call[t] \in Calls
        BY <3>2, <1>4 DEF IInv, Typed
      <4>2. Doing(t, "reply") \/ Doing(t, "status") => call[t].reply \in Replies
        BY <4>1, CallShape DEF Doing
      <4> QED BY <4>1, <4>2, <2>1, <1>3 DEF IInv, Reported, Doing, At
    <3> QED BY <3>1, <3>2
  <2>3. \A t, u \in Sessions :
           Doing(t, "reply")' /\ Doing(u, "reply")' /\ call'[t].reply = call'[u].reply => t = u
    BY <1>4 DEF IInv, Reported, Doing
  <2> QED BY <2>1, <2>2, <2>3, <1>3 DEF IInv, Reported
<1>8. UnansweredShows'
  BY <1>3 DEF IInv, UnansweredShows, WaitingIsOpen, UnseenIsUnread
<1> QED BY <1>5, <1>6, <1>7, <1>8 DEF IInv

\* A number that becomes known, or nothing at all, changes no request.
LEMMA WorldInv ==
  ASSUME IInv, BecomeKnown \/ UNCHANGED vars
  PROVE  IInv'
<1>1. /\ UNCHANGED <<conv, ingested, stored, sent, left, verdict, read, call,
                     wish, shown, waiting, raced>>
      /\ contact' \in [known : BOOLEAN, out : BOOLEAN]
  BY DEF BecomeKnown, vars, IInv, Typed, TypeOK
<1>2. Typed'
  BY <1>1 DEF IInv, Typed, TypeOK
<1>3. Keyed' /\ Heeded'
  BY <1>1 DEF IInv, Keyed, Heeded, Doing
<1>4. Reported'
  BY <1>1 DEF IInv, Reported, Doing, At
<1>5. Stored' = Stored
  BY <1>1 DEF Stored
<1>6. Watched'
  BY <1>1, <1>5 DEF IInv, Watched, Doing
<1>7. UnansweredShows'
  BY <1>1 DEF IInv, UnansweredShows, WaitingIsOpen, UnseenIsUnread
<1> QED BY <1>2, <1>3, <1>4, <1>6, <1>7 DEF IInv

\* Every step keeps the invariant.
LEMMA NextInv == IInv /\ [Next]_vars => IInv'
  BY BeginsInv, RefetchInv, InboundInv, SendInv, AnswerInv, QuietInv, ReadInv,
     StatusInv, WorldInv DEF Next

-----------------------------------------------------------------------------
\* What the requests under way know of messages, opt-out, replies and the
\* watermark holds in every reachable state.
THEOREM ThreadInvariant == Spec => []IInv
<1>1. Init => IInv
  BY InitInv
<1> QED BY <1>1, NextInv, PTL DEF Spec

\* However often and to whichever process Twilio delivers a message, it is
\* stored once, and only once it is stored is it taken for stored.
THEOREM StoredOnceHolds == Spec => []StoredOnce
<1>1. IInv => StoredOnce
  BY DEF IInv, Typed, Keyed, StoredOnce
<1> QED BY <1>1, ThreadInvariant, PTL

\* The inbox never hides a customer who waits, unless somebody wrote over a
\* thread, or marked read a text, that he had not loaded.
THEOREM UnansweredShowsHolds == Spec => []UnansweredShows
<1>1. IInv => UnansweredShows
  BY DEF IInv
<1> QED BY <1>1, ThreadInvariant, PTL

\* Once a STOP is committed, no request that starts later sends a text, until
\* a START: the reply that leaves was begun with the opt-out clear.
THEOREM StopStandsHolds == Spec => StopStands
<1>1. IInv /\ [Next]_vars =>
        [\A s \in Sessions :
            (At(s, "reply", "send") /\ call[s].reply \in left' \ left) => ~call[s].against]_vars
  BY DEF IInv, Heeded, At, Doing
<1> QED BY <1>1, ThreadInvariant, PTL DEF Spec, StopStands

\* What any step does to a delivered text: nothing.
LEMMA DeliveredStays ==
  ASSUME IInv, [Next]_vars, NEW r \in Replies, sent[r] = "delivered"
  PROVE  sent'[r] = "delivered"
<1>1. ASSUME NEW s \in Sessions, CommitReply(s) PROVE sent'[r] = "delivered"
  <2>1. sent[call[s].reply] = "none" /\ sent' = [sent EXCEPT ![call[s].reply] = "sent"]
    BY <1>1 DEF CommitReply, At, IInv, Reported, Doing
  <2> QED BY <2>1 DEF IInv, Typed, TypeOK
<1>2. ASSUME NEW s \in Sessions, CommitStatus(s) PROVE sent'[r] = "delivered"
  BY <1>2, StatusWrites
<1>3. CASE UNCHANGED sent
  BY <1>3
<1>4. \/ UNCHANGED sent
      \/ \E s \in Sessions : CommitReply(s) \/ CommitStatus(s)
  BY DEF Next, vars, Begin, BeginInbound, Refetch, CommitInbound, BeginReply, BeginStatus, Send,
         BeginPatch, CommitPatch, BeginStart, CommitStart, BeginRead, CommitRead, Die, BecomeKnown
<1> QED BY <1>1, <1>2, <1>3, <1>4

\* A text that was delivered is never shown as anything else again, however
\* late, often and out of order the reports come.
THEOREM DeliveredIsFinalHolds == Spec => DeliveredIsFinal
<1>1. IInv /\ [Next]_vars =>
        [\A r \in Replies : sent[r] = "delivered" => sent'[r] = "delivered"]_vars
  BY DeliveredStays
<1> QED BY <1>1, ThreadInvariant, PTL DEF Spec, DeliveredIsFinal
=============================================================================
