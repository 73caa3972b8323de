----------------------- MODULE WebhookDeliveryProofs ------------------------
(***************************************************************************)
(* Proofs about WebhookDelivery for any numbers of events, sweeps and      *)
(* attempts.                                                               *)
(*                                                                         *)
(* A sweep that still owes the record of its attempt Holds its event: the  *)
(* row is 'processing' and its count is the one that was claimed.  At most *)
(* one sweep holds an event, and a sweep that holds none although it is    *)
(* not idle is one whose commit's answer was lost: its attempt is already  *)
(* recorded, so its recovery can write nothing.                            *)
(***************************************************************************)
EXTENDS WebhookDelivery, TLAPS

Holds(w) == /\ work[w].phase # "idle"
            /\ status[work[w].event] = "processing"
            /\ count[work[w].event] = work[w].base

Work ==
  /\ \A w \in Workers : work[w].phase # "idle" =>
       /\ work[w].base < MaxAttempts
       /\ Holds(w) \/ (work[w].phase = "recover" /\ work[w].base < count[work[w].event])
  /\ \A v, w \in Workers : Holds(v) /\ Holds(w) /\ work[v].event = work[w].event => v = w

Verdict ==
  \A w \in Workers :
    /\ work[w].phase = "recover" => work[w].verdict = "error"
    /\ work[w].phase = "answered" =>
         /\ work[w].verdict \in {"ok", "error", "inactive"}
         /\ work[w].verdict = "ok" => work[w].event \in accepted

PostsMade ==
  /\ \A e \in Events : /\ status[e] = "processing" => posts[e] <= count[e] + 1 /\ count[e] < MaxAttempts
                       /\ status[e] # "processing" => posts[e] <= count[e]
  /\ \A w \in Workers : work[w].phase = "claimed" => posts[work[w].event] <= count[work[w].event]

IInv == /\ TypeOK /\ AttemptsMatchCount /\ Work /\ Verdict /\ PostsMade
        /\ DeliveredWasAccepted /\ BackoffDefined

-----------------------------------------------------------------------------
LEMMA InitIInv == Init => IInv
<1> SUFFICES ASSUME Init PROVE IInv
  OBVIOUS
<1> USE AttemptsAssumption, FailuresAssumption
<1>1. \A w \in Workers : work[w] = Idle /\ work[w].phase = "idle"
  BY DEF Init, Idle
<1>2. TypeOK
  BY DEF Init, TypeOK, Statuses
<1>3. AttemptsMatchCount /\ PostsMade /\ DeliveredWasAccepted /\ BackoffDefined
  BY <1>1 DEF Init, AttemptsMatchCount, PostsMade, DeliveredWasAccepted, BackoffDefined
<1>4. Work /\ Verdict
  BY <1>1 DEF Work, Verdict, Holds
<1>5. QED
  BY <1>2, <1>3, <1>4 DEF IInv

\* What is known of a sweep that is not idle.
LEMMA Busy ==
  ASSUME TypeOK, NEW w \in Workers, work[w].phase # "idle"
  PROVE  work[w] \in Job
  BY DEF TypeOK, Idle

LEMMA BusyHasEvent ==
  ASSUME TypeOK, NEW w \in Workers, work[w].phase # "idle"
  PROVE  /\ work[w].event \in Events /\ work[w].base \in Nat
         /\ work[w].phase \in Phases /\ work[w].verdict \in Verdicts
         /\ work[w].active \in BOOLEAN
  BY Busy, AttemptsAssumption DEF Job

\* An attempt that is not recorded yet is one whose sweep holds the event.
LEMMA UnrecordedHolds ==
  ASSUME IInv, NEW w \in Workers, work[w].phase # "idle",
         ~Recorded(work[w].event, Number(w))
  PROVE  Holds(w)
<1> DEFINE e == work[w].event
<1>1. e \in Events /\ work[w].base \in Nat /\ count[e] \in Nat
  BY BusyHasEvent, AttemptsAssumption DEF IInv, TypeOK
<1>2. attempts[e] = 1..count[e]
  BY <1>1 DEF IInv, AttemptsMatchCount
<1>3. ~(work[w].base < count[e])
  BY <1>1, <1>2 DEF Recorded, Number
<1>4. QED
  BY <1>3 DEF IInv, Work

\* What a record that is written does to the event of the sweep.
LEMMA RecordEffect ==
  ASSUME IInv, NEW w \in Workers, work[w].phase \in {"answered", "recover"},
         NEW v \in {"ok", "error", "inactive"},
         v = "ok" => work[w].event \in accepted,
         Record(work[w].event, Number(w), v)
  PROVE  /\ Holds(w)
         /\ status' = [status EXCEPT ![work[w].event] = NewStatus(v, work[w].base + 1)]
         /\ count' = [count EXCEPT ![work[w].event] = work[w].base + 1]
         /\ attempts' = [attempts EXCEPT ![work[w].event] = 1..(work[w].base + 1)]
         /\ due' = [due EXCEPT ![work[w].event] = FALSE]
         /\ NewStatus(v, work[w].base + 1) \in {"delivered", "dead_letter", "retrying"}
         /\ NewStatus(v, work[w].base + 1) = "delivered" => work[w].event \in accepted
         /\ NewStatus(v, work[w].base + 1) = "retrying" => work[w].base + 1 \in 1..Backoffs
<1> DEFINE e == work[w].event
<1> DEFINE n == work[w].base + 1
<1>1. Holds(w)
  BY UnrecordedHolds DEF Record
<1>2. e \in Events /\ work[w].base \in Nat /\ n \in 1..MaxAttempts
  BY BusyHasEvent, AttemptsAssumption DEF IInv, Work
<1>3. attempts[e] = 1..work[w].base
  BY <1>1, <1>2 DEF IInv, AttemptsMatchCount, Holds
<1>4. attempts[e] \cup {n} = 1..n
  BY <1>2, <1>3
<1>5. /\ NewStatus(v, n) \in {"delivered", "dead_letter", "retrying"}
      /\ NewStatus(v, n) = "delivered" => v = "ok"
      /\ NewStatus(v, n) = "retrying" => n < MaxAttempts
  BY <1>2, AttemptsAssumption DEF NewStatus, FailedStatus
<1>6. attempts' = [attempts EXCEPT ![e] = 1..n]
  BY <1>4 DEF Record, Number
<1>7. NewStatus(v, n) = "retrying" => n \in 1..Backoffs
  BY <1>2, <1>5, AttemptsAssumption
<1>8. QED
  BY <1>1, <1>5, <1>6, <1>7 DEF Record, Number, NewCount

(* A written record keeps the part of the invariant about the rows, and the
   claims of the other sweeps. *)
LEMMA RecordKeeps ==
  ASSUME IInv, NEW w \in Workers, work[w].phase \in {"answered", "recover"},
         NEW v \in {"ok", "error", "inactive"},
         v = "ok" => work[w].event \in accepted,
         Record(work[w].event, Number(w), v),
         UNCHANGED <<active, posts, accepted, dropped>>,
         NEW j \in Job \cup {Idle}, work' = [work EXCEPT ![w] = j],
         j.phase = "recover" \/ j = Idle,
         j.phase = "recover" => /\ j.verdict = "error"
                                /\ j.event = work[w].event /\ j.base = work[w].base,
         failures' \in 0..MaxFailures
  PROVE  IInv'
<1> DEFINE e == work[w].event
<1> DEFINE n == work[w].base + 1
<1> DEFINE st == NewStatus(v, n)
<1> HIDE DEF st
<1>1. /\ Holds(w)
      /\ status' = [status EXCEPT ![e] = st]
      /\ count' = [count EXCEPT ![e] = n]
      /\ attempts' = [attempts EXCEPT ![e] = 1..n]
      /\ due' = [due EXCEPT ![e] = FALSE]
      /\ st \in {"delivered", "dead_letter", "retrying"}
      /\ st = "delivered" => e \in accepted
      /\ st = "retrying" => n \in 1..Backoffs
  BY RecordEffect DEF st
<1>2. e \in Events /\ work[w].base \in Nat /\ n \in 1..MaxAttempts
  BY BusyHasEvent, AttemptsAssumption DEF IInv, Work
<1>3. TypeOK'
  <2>1. work' \in [Workers -> Job \cup {Idle}]
    BY DEF IInv, TypeOK
  <2>2. /\ status' \in [Events -> Statuses]
        /\ count' \in [Events -> 0..MaxAttempts]
        /\ due' \in [Events -> BOOLEAN]
    BY <1>1, <1>2, AttemptsAssumption DEF IInv, TypeOK, Statuses
  <2>3. attempts' \in [Events -> SUBSET (1..MaxAttempts)]
    <3>1. 1..n \in SUBSET (1..MaxAttempts)
      BY <1>2, AttemptsAssumption
    <3>2. QED
      BY <1>1, <1>2, <3>1 DEF IInv, TypeOK
  <2>4. QED
    BY <2>1, <2>2, <2>3 DEF IInv, TypeOK
<1>4. \A x \in Workers : x # w => work'[x] = work[x]
  BY DEF IInv, TypeOK
<1>5. work'[w] = j
  BY DEF IInv, TypeOK
<1>6. \A d \in Events : d # e => /\ status'[d] = status[d] /\ count'[d] = count[d]
                                 /\ attempts'[d] = attempts[d]
  BY <1>1 DEF IInv, TypeOK
<1>7. status'[e] = st /\ count'[e] = n /\ attempts'[e] = 1..n
  BY <1>1, <1>2 DEF IInv, TypeOK
<1>8. AttemptsMatchCount' /\ DeliveredWasAccepted' /\ BackoffDefined'
  BY <1>1, <1>6, <1>7 DEF IInv, AttemptsMatchCount, DeliveredWasAccepted, BackoffDefined
<1>9. Idle.phase = "idle"
  BY DEF Idle
<1>10. \A x \in Workers : x # w /\ work[x].phase # "idle" /\ work[x].event = e
                         => work[x].phase = "recover" /\ work[x].base < n
  <2> SUFFICES ASSUME NEW x \in Workers, x # w, work[x].phase # "idle", work[x].event = e
      PROVE work[x].phase = "recover" /\ work[x].base < n
    OBVIOUS
  <2>1. ~Holds(x)
    BY <1>1 DEF IInv, Work
  <2>2. work[x].phase = "recover" /\ work[x].base < count[e]
    BY <2>1 DEF IInv, Work
  <2>3. count[e] = work[w].base /\ work[x].base \in Nat
    BY <1>1, BusyHasEvent DEF Holds, IInv
  <2>4. QED
    BY <1>2, <2>2, <2>3
<1>11. ~Holds(w)'
  BY <1>1, <1>5, <1>7, <1>9 DEF Holds
<1>12. \A x \in Workers : x # w => (Holds(x)' => Holds(x))
  <2> SUFFICES ASSUME NEW x \in Workers, x # w, Holds(x)' PROVE Holds(x)
    OBVIOUS
  <2>1. work'[x] = work[x] /\ work[x].phase # "idle"
    BY <1>4 DEF Holds
  <2>2. work[x].event # e
    BY <1>1, <1>4, <1>7 DEF Holds
  <2>3. work[x].event \in Events
    BY <2>1, BusyHasEvent DEF IInv
  <2>4. QED
    BY <1>6, <2>1, <2>2, <2>3 DEF Holds
<1>13. Work'
  <2>1. ASSUME NEW x \in Workers, work'[x].phase # "idle"
        PROVE  /\ work'[x].base < MaxAttempts
               /\ Holds(x)' \/ (work'[x].phase = "recover" /\ work'[x].base < count'[work'[x].event])
    <3>1. CASE x = w
      <4>1. j.phase = "recover" /\ j.event = e /\ j.base = work[w].base
        BY <2>1, <3>1, <1>5, <1>9
      <4>2. QED
        BY <1>2, <1>5, <1>7, <3>1, <4>1, AttemptsAssumption
    <3>2. CASE x # w /\ work[x].event = e
      <4>1. work[x].base < MaxAttempts
        BY <2>1, <1>4, <3>2 DEF IInv, Work
      <4>2. QED
        BY <1>4, <1>7, <1>10, <2>1, <3>2, <4>1
    <3>3. CASE x # w /\ work[x].event # e
      <4>1. work'[x] = work[x] /\ work[x].phase # "idle"
        BY <1>4, <2>1, <3>3
      <4>2. work[x].event \in Events
        BY <4>1, BusyHasEvent DEF IInv
      <4>3. /\ status'[work[x].event] = status[work[x].event]
            /\ count'[work[x].event] = count[work[x].event]
        BY <1>6, <3>3, <4>2
      <4>4. QED
        BY <4>1, <4>3 DEF IInv, Work, Holds
    <3>4. QED
      BY <3>1, <3>2, <3>3
  <2>2. ASSUME NEW x \in Workers, NEW y \in Workers,
               Holds(x)', Holds(y)', work'[x].event = work'[y].event
        PROVE  x = y
    BY <2>2, <1>4, <1>11, <1>12 DEF IInv, Work
  <2>3. QED
    BY <2>1, <2>2 DEF Work
<1>14. Verdict'
  BY <1>4, <1>5, <1>9 DEF IInv, Verdict
<1>15. PostsMade'
  <2>1. posts[e] <= n
    BY <1>1, <1>2 DEF IInv, PostsMade, Holds
  <2>2. ASSUME NEW d \in Events
        PROVE /\ status'[d] = "processing" => posts'[d] <= count'[d] + 1 /\ count'[d] < MaxAttempts
              /\ status'[d] # "processing" => posts'[d] <= count'[d]
    BY <1>1, <1>6, <1>7, <2>1 DEF IInv, PostsMade
  <2>3. ASSUME NEW x \in Workers, work'[x].phase = "claimed"
        PROVE posts'[work'[x].event] <= count'[work'[x].event]
    <3>1. x # w /\ work'[x] = work[x]
      BY <2>3, <1>4, <1>5, <1>9
    <3>2. work[x].event # e /\ work[x].event \in Events
      BY <2>3, <3>1, <1>10, BusyHasEvent DEF IInv
    <3>3. QED
      BY <2>3, <3>1, <3>2, <1>6 DEF IInv, PostsMade
  <2>4. QED
    BY <2>2, <2>3 DEF PostsMade
<1>16. QED
  BY <1>3, <1>8, <1>13, <1>14, <1>15 DEF IInv
-----------------------------------------------------------------------------
\* The rows of events no sweep works on change, or nothing but the clock.
LEMMA RowsIInv ==
  ASSUME IInv, NEW e \in Events,
         Enqueue(e) \/ BackoffEnds(e) \/ (\E a \in BOOLEAN : SetActive(a))
  PROVE  IInv'
<1>1. CASE Enqueue(e)
  <2>1. TypeOK'
    BY <1>1 DEF Enqueue, IInv, TypeOK, Statuses
  <2>2. AttemptsMatchCount' /\ DeliveredWasAccepted' /\ BackoffDefined'
    BY <1>1 DEF Enqueue, IInv, TypeOK, AttemptsMatchCount, DeliveredWasAccepted, BackoffDefined
  <2>3. \A w \in Workers : Holds(w)' <=> Holds(w)
    BY <1>1, BusyHasEvent DEF Enqueue, IInv, TypeOK, Holds
  <2>4. Work' /\ Verdict'
    BY <1>1, <2>3 DEF Enqueue, IInv, Work, Verdict
  <2>5. PostsMade'
    BY <1>1 DEF Enqueue, IInv, TypeOK, PostsMade
  <2>6. QED
    BY <2>1, <2>2, <2>4, <2>5 DEF IInv
<1>2. CASE BackoffEnds(e) \/ (\E a \in BOOLEAN : SetActive(a))
  <2>1. /\ UNCHANGED <<status, count, attempts, work, failures, posts, accepted, dropped>>
        /\ active' \in BOOLEAN /\ due' \in [Events -> BOOLEAN]
    BY <1>2 DEF BackoffEnds, SetActive, IInv, TypeOK
  <2>2. TypeOK'
    BY <2>1 DEF IInv, TypeOK
  <2>3. QED
    BY <2>1, <2>2 DEF IInv, AttemptsMatchCount, DeliveredWasAccepted, BackoffDefined, Work,
                      Holds, Verdict, PostsMade
<1>3. QED
  BY <1>1, <1>2

LEMMA ClaimIInv ==
  ASSUME IInv, NEW w \in Workers, NEW e \in Events, Claim(w, e)
  PROVE  IInv'
<1> DEFINE j == [event |-> e, base |-> count[e], active |-> active,
                 phase |-> "claimed", verdict |-> "unknown"]
<1>1. count[e] \in 0..MaxAttempts /\ count[e] < MaxAttempts
  BY DEF Claim, IInv, TypeOK
<1>2. work' = [work EXCEPT ![w] = j] /\ j \in Job
  BY <1>1 DEF Claim, IInv, TypeOK, Job, Phases, Verdicts
<1>3. work'[w] = j /\ \A x \in Workers : x # w => work'[x] = work[x]
  BY <1>2 DEF IInv, TypeOK
<1>4. /\ status' = [status EXCEPT ![e] = "processing"] /\ status'[e] = "processing"
      /\ status[e] \in {"pending", "retrying"}
      /\ UNCHANGED <<active, count, due, attempts, failures, posts, accepted, dropped>>
  BY DEF Claim, Claimable, IInv, TypeOK
<1>5. TypeOK'
  BY <1>2, <1>4 DEF IInv, TypeOK, Statuses
<1>6. AttemptsMatchCount' /\ DeliveredWasAccepted' /\ BackoffDefined'
  BY <1>4 DEF IInv, TypeOK, AttemptsMatchCount, DeliveredWasAccepted, BackoffDefined
<1>7. Holds(w)' /\ work'[w].event = e
  BY <1>3, <1>4 DEF Holds
<1>8. \A x \in Workers : x # w /\ work[x].phase # "idle" =>
        /\ ~(Holds(x) /\ work[x].event = e)
        /\ work[x].event = e => work[x].phase = "recover" /\ work[x].base < count[e]
        /\ work[x].event # e => (Holds(x)' <=> Holds(x))
  BY <1>3, <1>4, BusyHasEvent DEF IInv, TypeOK, Holds, Work
<1>9. \A x \in Workers : x # w /\ work[x].phase # "idle" /\ work[x].event = e => ~Holds(x)'
  BY <1>3, <1>4, <1>8, BusyHasEvent DEF IInv, Holds
<1>10. Work'
  <2>1. \A x \in Workers : work'[x].phase # "idle" =>
           /\ work'[x].base < MaxAttempts
           /\ Holds(x)' \/ (work'[x].phase = "recover" /\ work'[x].base < count'[work'[x].event])
    BY <1>1, <1>3, <1>4, <1>7, <1>8 DEF IInv, Work
  <2>2. ASSUME NEW x \in Workers, NEW y \in Workers,
               Holds(x)', Holds(y)', work'[x].event = work'[y].event
        PROVE  x = y
    <3>1. CASE x # w /\ y # w
      <4>1. Holds(x) /\ Holds(y) /\ work[x].event = work[y].event
        BY <2>2, <3>1, <1>3, <1>8, <1>9 DEF Holds
      <4>2. QED
        BY <4>1 DEF IInv, Work
    <3>2. CASE x = w \/ y = w
      BY <2>2, <3>2, <1>3, <1>7, <1>9 DEF Holds
    <3>3. QED
      BY <3>1, <3>2
  <2>3. QED
    BY <2>1, <2>2 DEF Work
<1>11. Verdict'
  BY <1>3, <1>4 DEF IInv, Verdict
<1>12. PostsMade'
  <2>1. posts[e] <= count[e]
    BY <1>4 DEF IInv, PostsMade
  <2>2. \A d \in Events : d # e => status'[d] = status[d]
    BY <1>4 DEF IInv, TypeOK
  <2>3. count[e] \in Nat /\ posts[e] \in Nat
    BY <1>1, AttemptsAssumption DEF IInv, TypeOK
  <2>4. QED
    BY <1>1, <1>3, <1>4, <2>1, <2>2, <2>3 DEF IInv, PostsMade
<1>13. QED
  BY <1>5, <1>6, <1>10, <1>11, <1>12 DEF IInv

LEMMA AnswerIInv ==
  ASSUME IInv, NEW w \in Workers, SkipPost(w) \/ Post(w)
  PROVE  IInv'
<1> DEFINE e == work[w].event
<1>1. work[w].phase = "claimed" /\ work[w].phase # "idle"
  BY DEF SkipPost, Post
<1>2. work[w] \in Job /\ e \in Events
  BY <1>1, Busy, BusyHasEvent DEF IInv
<1>3. PICK v \in {"ok", "error", "inactive"} :
        /\ Answered(w, v)
        /\ v = "ok" => e \in accepted'
  BY DEF SkipPost, Post
<1>4. /\ UNCHANGED <<active, status, count, due, attempts, failures, dropped>>
      /\ accepted \subseteq accepted' /\ accepted' \in SUBSET Events
      /\ posts' = posts \/ posts' = [posts EXCEPT ![e] = @ + 1]
  BY <1>2 DEF SkipPost, Post, IInv, TypeOK
<1>5. /\ work'[w] = [work[w] EXCEPT !.phase = "answered", !.verdict = v]
      /\ \A x \in Workers : x # w => work'[x] = work[x]
  BY <1>3 DEF Answered, IInv, TypeOK
<1>6. /\ work'[w].event = e /\ work'[w].base = work[w].base
      /\ work'[w].phase = "answered" /\ work'[w].verdict = v /\ work'[w] \in Job
  BY <1>2, <1>5 DEF Job, Phases, Verdicts
<1>7. TypeOK'
  <2>1. work' \in [Workers -> Job \cup {Idle}]
    BY <1>3, <1>5, <1>6 DEF Answered, IInv, TypeOK
  <2>2. posts' \in [Events -> Nat]
    BY <1>2, <1>4 DEF IInv, TypeOK
  <2>3. QED
    BY <1>4, <2>1, <2>2 DEF IInv, TypeOK
<1>8. AttemptsMatchCount' /\ DeliveredWasAccepted' /\ BackoffDefined'
  BY <1>4 DEF IInv, AttemptsMatchCount, DeliveredWasAccepted, BackoffDefined
<1>9. \A x \in Workers : /\ (Holds(x)' <=> Holds(x))
                         /\ work'[x].event = work[x].event /\ work'[x].base = work[x].base
  BY <1>1, <1>4, <1>5, <1>6 DEF Holds
<1>10. Holds(w)
  BY <1>1 DEF IInv, Work
<1>11. Work'
  BY <1>1, <1>4, <1>5, <1>6, <1>9, <1>10 DEF IInv, Work
<1>12. Verdict'
  BY <1>3, <1>4, <1>5, <1>6 DEF IInv, Verdict
<1>13. PostsMade'
  <2>1. posts[e] <= count[e] /\ posts[e] \in Nat /\ count[e] \in Nat /\ status[e] = "processing"
    BY <1>1, <1>2, <1>10, AttemptsAssumption DEF IInv, TypeOK, PostsMade, Holds
  <2>2. posts'[e] <= count[e] + 1 /\ \A d \in Events : d # e => posts'[d] = posts[d]
    BY <1>2, <1>4, <2>1 DEF IInv, TypeOK
  <2>3. ASSUME NEW d \in Events
        PROVE /\ status'[d] = "processing" => posts'[d] <= count'[d] + 1 /\ count'[d] < MaxAttempts
              /\ status'[d] # "processing" => posts'[d] <= count'[d]
    BY <1>4, <2>1, <2>2 DEF IInv, PostsMade
  <2>4. ASSUME NEW x \in Workers, work'[x].phase = "claimed"
        PROVE posts'[work'[x].event] <= count'[work'[x].event]
    <3>1. x # w /\ work'[x] = work[x] /\ work[x].phase = "claimed"
      BY <2>4, <1>5, <1>6
    <3>2. Holds(x) /\ work[x].event \in Events
      BY <3>1, BusyHasEvent DEF IInv, Work
    <3>3. work[x].event # e
      BY <1>10, <3>1, <3>2 DEF IInv, Work
    <3>4. QED
      BY <1>4, <2>2, <3>1, <3>2, <3>3 DEF IInv, PostsMade
  <2>5. QED
    BY <2>3, <2>4 DEF PostsMade
<1>14. QED
  BY <1>7, <1>8, <1>11, <1>12, <1>13 DEF IInv

\* A sweep that leaves its event as it is, or keeps it for its recovery.
LEMMA LeaveIInv ==
  ASSUME IInv, NEW w \in Workers,
         UNCHANGED <<active, status, count, due, attempts, posts, accepted>>,
         failures' \in 0..MaxFailures, dropped' \in SUBSET Events,
         NEW j \in Job \cup {Idle}, work' = [work EXCEPT ![w] = j],
         j = Idle \/ (/\ j.phase = "recover" /\ j.verdict = "error"
                      /\ j.event = work[w].event /\ j.base = work[w].base
                      /\ work[w].phase = "answered")
  PROVE  IInv'
<1>1. work'[w] = j /\ \A x \in Workers : x # w => work'[x] = work[x]
  BY DEF IInv, TypeOK
<1>2. Idle.phase = "idle"
  BY DEF Idle
<1>3. TypeOK'
  BY DEF IInv, TypeOK
<1>4. \A x \in Workers : Holds(x)' => Holds(x) /\ work'[x].event = work[x].event
  BY <1>1, <1>2 DEF Holds
<1>5. \A x \in Workers : x # w => (Holds(x) <=> Holds(x)')
  BY <1>1 DEF Holds
<1>6. Work'
  <2>1. ASSUME NEW x \in Workers, work'[x].phase # "idle"
        PROVE  /\ work'[x].base < MaxAttempts
               /\ Holds(x)' \/ (work'[x].phase = "recover" /\ work'[x].base < count'[work'[x].event])
    <3>1. CASE x # w
      BY <1>1, <1>5, <2>1, <3>1 DEF IInv, Work
    <3>2. CASE x = w
      <4>1. work[w].phase = "answered" /\ j.event = work[w].event /\ j.base = work[w].base
        BY <1>1, <1>2, <2>1, <3>2
      <4>2. Holds(w) /\ work[w].base < MaxAttempts
        BY <4>1 DEF IInv, Work
      <4>3. QED
        BY <1>1, <2>1, <3>2, <4>1, <4>2 DEF Holds
    <3>3. QED
      BY <3>1, <3>2
  <2>2. \A x, y \in Workers : Holds(x)' /\ Holds(y)' /\ work'[x].event = work'[y].event => x = y
    BY <1>4 DEF IInv, Work
  <2>3. QED
    BY <2>1, <2>2 DEF Work
<1>7. Verdict' /\ PostsMade'
  BY <1>1, <1>2 DEF IInv, Verdict, PostsMade
<1>8. QED
  BY <1>3, <1>6, <1>7 DEF IInv, AttemptsMatchCount, DeliveredWasAccepted, BackoffDefined

\* The job a failed record leaves for the recovery.
LEMMA RecoveryJob ==
  ASSUME TypeOK, NEW w \in Workers, work[w].phase = "answered",
         work' = [work EXCEPT ![w].phase = "recover", ![w].verdict = "error"]
  PROVE  \E j \in Job : /\ work' = [work EXCEPT ![w] = j]
                        /\ j.phase = "recover" /\ j.verdict = "error"
                        /\ j.event = work[w].event /\ j.base = work[w].base
<1> DEFINE j == [work[w] EXCEPT !.phase = "recover", !.verdict = "error"]
<1>1. work[w] \in Job
  BY Busy
<1>2. /\ j \in Job /\ j.phase = "recover" /\ j.verdict = "error"
      /\ j.event = work[w].event /\ j.base = work[w].base
  BY <1>1 DEF Job, Phases, Verdicts
<1>3. work' = [work EXCEPT ![w] = j]
  BY DEF TypeOK
<1>4. QED
  BY <1>2, <1>3

LEMMA StepIInv == IInv /\ [Next]_vars => IInv'
<1> SUFFICES ASSUME IInv, [Next]_vars PROVE IInv'
  OBVIOUS
<1>1. ASSUME NEW e \in Events, Enqueue(e) \/ BackoffEnds(e) PROVE IInv'
  BY <1>1, RowsIInv
<1>2. ASSUME NEW a \in BOOLEAN, SetActive(a) PROVE IInv'
  <2>1. CASE Events # {}
    BY <1>2, <2>1, RowsIInv
  <2>2. CASE Events = {}
    BY <1>2, <2>2 DEF SetActive, IInv, TypeOK, AttemptsMatchCount, DeliveredWasAccepted,
                      BackoffDefined, Work, Holds, Verdict, PostsMade
  <2>3. QED
    BY <2>1, <2>2
<1>3. ASSUME NEW w \in Workers, NEW e \in Events, Claim(w, e) PROVE IInv'
  BY <1>3, ClaimIInv
<1>4. ASSUME NEW w \in Workers, SkipPost(w) \/ Post(w) PROVE IInv'
  BY <1>4, AnswerIInv
<1>5. ASSUME NEW w \in Workers, Finalize(w) PROVE IInv'
  <2>1. /\ work[w].phase = "answered" /\ work[w].verdict \in {"ok", "error", "inactive"}
        /\ work[w].verdict = "ok" => work[w].event \in accepted
        /\ failures' \in 0..MaxFailures
    BY <1>5 DEF Finalize, IInv, Verdict, TypeOK
  <2>2. Idle \in Job \cup {Idle} /\ Idle.phase # "recover"
    BY DEF Idle
  <2>3. QED
    BY <1>5, <2>1, <2>2, RecordKeeps DEF Finalize
<1>6. ASSUME NEW w \in Workers, FinalizeRaises(w) PROVE IInv'
  <2>1. /\ work[w].phase = "answered" /\ work[w].verdict \in {"ok", "error", "inactive"}
        /\ work[w].verdict = "ok" => work[w].event \in accepted
        /\ failures' \in 0..MaxFailures /\ dropped' \in SUBSET Events
    BY <1>6, FailuresAssumption DEF FinalizeRaises, IInv, Verdict, TypeOK
  <2>2. PICK j \in Job : /\ work' = [work EXCEPT ![w] = j]
                         /\ j.phase = "recover" /\ j.verdict = "error"
                         /\ j.event = work[w].event /\ j.base = work[w].base
    BY <1>6, <2>1, RecoveryJob DEF FinalizeRaises, IInv
  <2>3. CASE Record(work[w].event, Number(w), work[w].verdict)
    BY <1>6, <2>1, <2>2, <2>3, RecordKeeps DEF FinalizeRaises
  <2>4. CASE UNCHANGED <<attempts, status, count, due>>
    BY <1>6, <2>1, <2>2, <2>4, LeaveIInv DEF FinalizeRaises
  <2>5. QED
    BY <1>6, <2>3, <2>4 DEF FinalizeRaises
<1>7. ASSUME NEW w \in Workers, Recover(w) PROVE IInv'
  <2>1. failures' \in 0..MaxFailures /\ dropped' \in SUBSET Events
    BY <1>7 DEF Recover, IInv, TypeOK
  <2>2. Idle \in Job \cup {Idle} /\ Idle.phase # "recover"
    BY DEF Idle
  <2>3. CASE Record(work[w].event, Number(w), "error")
    BY <1>7, <2>1, <2>2, <2>3, RecordKeeps DEF Recover
  <2>4. CASE UNCHANGED <<attempts, status, count, due>>
    BY <1>7, <2>1, <2>2, <2>4, LeaveIInv DEF Recover
  <2>5. QED
    BY <1>7, <2>3, <2>4 DEF Recover
<1>8. ASSUME NEW w \in Workers, RecoverFails(w) \/ Crash(w) PROVE IInv'
  <2>1. work[w].phase # "idle"
    BY <1>8 DEF RecoverFails, Crash, IInv, TypeOK, Job, Phases
  <2>2. failures' \in 0..MaxFailures /\ dropped' \in SUBSET Events
    BY <1>8, <2>1, BusyHasEvent, FailuresAssumption DEF RecoverFails, Crash, IInv, TypeOK
  <2>3. QED
    BY <1>8, <2>2, LeaveIInv DEF RecoverFails, Crash
<1>9. CASE UNCHANGED vars
  BY <1>9 DEF vars, IInv, TypeOK, AttemptsMatchCount, DeliveredWasAccepted, BackoffDefined,
              Work, Holds, Verdict, PostsMade
<1>10. QED
  BY <1>1, <1>2, <1>3, <1>4, <1>5, <1>6, <1>7, <1>8, <1>9 DEF Next, Deliver, Fail

LEMMA Inductive == Spec => []IInv
  BY InitIInv, StepIInv, PTL DEF Spec

-----------------------------------------------------------------------------
\* Type correctness, for every number of events, sweeps and attempts.
THEOREM TypesHold == Spec => []TypeOK
<1>1. IInv => TypeOK
  BY DEF IInv
<1>2. QED
  BY <1>1, Inductive, PTL

(* The attempt rows are numbered without gap or double and attempt_count says
   how many there are (finalize_push_webhook_delivery_attempt). *)
THEOREM AttemptsCounted == Spec => []AttemptsMatchCount
<1>1. IInv => AttemptsMatchCount
  BY DEF IInv
<1>2. QED
  BY <1>1, Inductive, PTL

(* No event is posted more often than the maximum, whatever the sweeps claim,
   the database loses and the processes survive (_deliver_one_http). *)
THEOREM PostsAreBounded == Spec => []BoundedPosts
<1>1. IInv => BoundedPosts
  <2> SUFFICES ASSUME IInv, NEW e \in Events PROVE posts[e] <= MaxAttempts
    BY DEF BoundedPosts
  <2>1. count[e] \in 0..MaxAttempts /\ posts[e] \in Nat
    BY DEF IInv, TypeOK
  <2>2. QED
    BY <2>1, AttemptsAssumption DEF IInv, PostsMade
<1>2. QED
  BY <1>1, Inductive, PTL

(* Delivered means accepted, and no retry is scheduled past the end of the
   backoff table (deliver_one_due_event, _next_retry_utc). *)
THEOREM VerdictsAreSound == Spec => [](DeliveredWasAccepted /\ BackoffDefined)
<1>1. IInv => DeliveredWasAccepted /\ BackoffDefined
  BY DEF IInv
<1>2. QED
  BY <1>1, Inductive, PTL

(* A settled event is never taken up again: the recovery of a commit whose
   answer was lost finds its attempt recorded. *)
THEOREM SettledForGood == Spec => FinalIsFinal
<1>1. ASSUME IInv, [Next]_vars, NEW e \in Events, status[e] \in Final
      PROVE  status'[e] = status[e]
  <2>1. status[e] \in {"delivered", "dead_letter"}
    BY <1>1 DEF Final
  <2>2. ASSUME NEW w \in Workers, work[w].phase \in {"answered", "recover"},
               NEW v, Record(work[w].event, Number(w), v)
        PROVE  status'[e] = status[e]
    <3>1. Holds(w) /\ work[w].event # e
      BY <1>1, <2>1, <2>2, UnrecordedHolds DEF Record, Holds
    <3>2. QED
      BY <1>1, <2>2, <3>1 DEF Record, IInv, TypeOK
  <2>3. ASSUME NEW d \in Events, Enqueue(d) PROVE status'[e] = status[e]
    BY <1>1, <2>1, <2>3 DEF Enqueue, IInv, TypeOK
  <2>4. ASSUME NEW w \in Workers, NEW d \in Events, Claim(w, d) PROVE status'[e] = status[e]
    BY <1>1, <2>1, <2>4 DEF Claim, Claimable, IInv, TypeOK
  <2>5. ASSUME NEW w \in Workers, Finalize(w) \/ FinalizeRaises(w) \/ Recover(w)
        PROVE status'[e] = status[e]
    BY <2>2, <2>5 DEF Finalize, FinalizeRaises, Recover
  <2>6. ASSUME NEW w \in Workers, SkipPost(w) \/ Post(w) \/ RecoverFails(w) \/ Crash(w)
        PROVE status'[e] = status[e]
    BY <2>6 DEF SkipPost, Post, RecoverFails, Crash
  <2>7. QED
    BY <1>1, <2>3, <2>4, <2>5, <2>6 DEF Next, Deliver, Fail, BackoffEnds, SetActive, vars
<1>2. IInv /\ [Next]_vars => [\A e \in Events : status[e] \in Final => status'[e] = status[e]]_vars
  BY <1>1
<1>3. QED
  BY <1>2, Inductive, PTL DEF Spec, FinalIsFinal

-----------------------------------------------------------------------------
(* The refinement of BoundedDelivery.                                      *)

\* An event that a sweep holds is in the phase the sweep is in.
LEMMA StageOfHeld ==
  ASSUME IInv, NEW w \in Workers, Holds(w)
  PROVE  LET e == work[w].event
         IN /\ e \in Events /\ status[e] = "processing"
            /\ Stage(e) = IF work[w].phase = "claimed" THEN "open"
                          ELSE IF work[w].phase = "answered" /\ work[w].verdict = "inactive"
                               THEN "refused" ELSE "spent"
<1> DEFINE e == work[w].event
<1>1. e \in Events /\ status[e] = "processing"
  BY BusyHasEvent DEF Holds, IInv
<1>2. \A x \in Workers : work[x].event = e /\ work[x].phase \in {"claimed", "answered"} => x = w
  BY DEF IInv, Work
<1>3. At(e, "claimed") <=> work[w].phase = "claimed"
  BY <1>2 DEF At
<1>4. Refused(e) <=> (work[w].phase = "answered" /\ work[w].verdict = "inactive")
  BY <1>2 DEF Refused
<1>5. QED
  BY <1>1, <1>3, <1>4 DEF Stage, Final

\* A row that is not being processed says by itself where the delivery is.
LEMMA StageOfRow ==
  ASSUME NEW e \in Events, status[e] \in Statuses \ {"processing"}
  PROVE  /\ status[e] = "none" <=> Stage(e) = "absent"
         /\ status[e] \in {"pending", "retrying"} <=> Stage(e) = "waiting"
         /\ \A s \in Final : status[e] = s <=> Stage(e) = s
  BY DEF Stage, Statuses, Final

\* The phase of an event is that of its row and of the sweeps that hold it.
LEMMA StageFrame ==
  ASSUME NEW d, status'[d] = status[d],
         \A x \in Workers : work[x].event = d \/ work'[x].event = d => work'[x] = work[x]
  PROVE  Stage(d)' = Stage(d)
<1>1. At(d, "claimed")' <=> At(d, "claimed")
  BY DEF At
<1>2. Refused(d)' <=> Refused(d)
  BY DEF Refused
<1>3. QED
  BY <1>1, <1>2 DEF Stage


Staged == [e \in Events |-> Stage(e)]

LEMMA OneMoves ==
  ASSUME NEW e \in Events, NEW p, Stage(e)' = p, \A d \in Events \ {e} : Stage(d)' = Stage(d)
  PROVE  Promise!Move(e, p) /\ Staged[e] = Stage(e)
<1>1. Staged' = [Staged EXCEPT ![e] = p]
  BY DEF Staged
<1>2. QED
  BY <1>1 DEF Promise!Move, Staged

LEMMA NoneMoves ==
  ASSUME \A d \in Events : Stage(d)' = Stage(d)
  PROVE  Staged' = Staged
  BY DEF Staged

\* A sweep that has something in hand changes the phase of its event only.
LEMMA OthersStay ==
  ASSUME IInv, NEW w \in Workers, NEW e \in Events,
         \A d \in Events \ {e} : status'[d] = status[d],
         \A x \in Workers \ {w} : work'[x] = work[x],
         work[w].event \in {e, None}, work'[w].event \in {e, None}
  PROVE  \A d \in Events \ {e} : Stage(d)' = Stage(d)
<1> SUFFICES ASSUME NEW d \in Events \ {e} PROVE Stage(d)' = Stage(d)
  OBVIOUS
<1>1. \A x \in Workers : work[x].event = d \/ work'[x].event = d => work'[x] = work[x]
  BY NoneAssumption
<1>2. QED
  BY <1>1, StageFrame

LEMMA AskStep ==
  ASSUME IInv, NEW e \in Events, Enqueue(e)
  PROVE  Promise!Ask(e)
<1>1. /\ status[e] = "none" /\ status'[e] = "pending" /\ work' = work
      /\ \A d \in Events \ {e} : status'[d] = status[d]
      /\ UNCHANGED <<count, posts, accepted>>
  BY DEF Enqueue, IInv, TypeOK
<1>2. \A d \in Events \ {e} : Stage(d)' = Stage(d)
  BY <1>1, StageFrame
<1>3. Stage(e) = "absent" /\ Stage(e)' = "waiting"
  BY <1>1 DEF Stage, Final
<1>4. QED
  BY <1>1, <1>2, <1>3, OneMoves DEF Promise!Ask, Staged

LEMMA OpenStep ==
  ASSUME IInv, NEW w \in Workers, NEW e \in Events, Claim(w, e)
  PROVE  Promise!Open(e)
<1>1. /\ status[e] \in {"pending", "retrying"} /\ status'[e] = "processing"
      /\ \A d \in Events \ {e} : status'[d] = status[d]
      /\ count[e] < MaxAttempts
      /\ UNCHANGED <<count, posts, accepted>>
  BY DEF Claim, Claimable, IInv, TypeOK
<1>2. /\ work[w].event = None /\ work'[w].event = e /\ work'[w].phase = "claimed"
      /\ \A x \in Workers \ {w} : work'[x] = work[x]
  BY DEF Claim, Idle, IInv, TypeOK
<1>3. \A d \in Events \ {e} : Stage(d)' = Stage(d)
  BY <1>1, <1>2, OthersStay
<1>4. At(e, "claimed")'
  BY <1>2 DEF At
<1>5. Stage(e) = "waiting" /\ Stage(e)' = "open"
  BY <1>1, <1>4 DEF Stage, Final
<1>6. QED
  BY <1>1, <1>3, <1>5, OneMoves DEF Promise!Open, Staged

\* What a sweep makes of the round it holds, when it leaves the row alone.
LEMMA HeldRoundIsSpent ==
  ASSUME IInv, NEW w \in Workers, Holds(w), status' = status,
         \A x \in Workers \ {w} : work'[x] = work[x],
         work'[w].phase # "claimed",
         NEW e, e = work[w].event, work'[w].event \in {e, None}
  PROVE  /\ \A d \in Events \ {e} : Stage(d)' = Stage(d)
         /\ Stage(e)' = IF /\ work'[w].event = e /\ work'[w].phase = "answered"
                           /\ work'[w].verdict = "inactive"
                        THEN "refused" ELSE "spent"
<1>1. e \in Events /\ status[e] = "processing"
  BY StageOfHeld
<1>2. \A d \in Events \ {e} : Stage(d)' = Stage(d)
  BY <1>1, OthersStay
<1>3. \A x \in Workers \ {w} : work[x].event = e => work[x].phase \notin {"claimed", "answered"}
  BY <1>1 DEF IInv, Work, Holds
<1>4. ~At(e, "claimed")'
  BY <1>3 DEF At
<1>5. Refused(e)' <=> (/\ work'[w].event = e /\ work'[w].phase = "answered"
                       /\ work'[w].verdict = "inactive")
  BY <1>3 DEF Refused
<1>6. QED
  BY <1>1, <1>2, <1>4, <1>5 DEF Stage, Final

LEMMA AnswerStep ==
  ASSUME IInv, NEW w \in Workers, SkipPost(w) \/ Post(w), NEW e, e = work[w].event
  PROVE  Promise!Skip(e) \/ Promise!Send(e)
<1>1. /\ work[w].phase = "claimed" /\ e \in Events /\ Holds(w)
  BY BusyHasEvent DEF SkipPost, Post, IInv, Work
<1>2. PICK v : Answered(w, v) /\ (Post(w) => v # "inactive")
  BY DEF SkipPost, Post
<1>3. /\ work'[w].event = e /\ work'[w].phase = "answered" /\ work'[w].verdict = v
      /\ \A x \in Workers \ {w} : work'[x] = work[x]
  <2>1. work[w] \in Job
    BY <1>1, Busy DEF IInv
  <2>2. QED
    BY <1>2, <2>1 DEF Answered, IInv, TypeOK, Job
<1>4. status' = status /\ count' = count
  BY DEF SkipPost, Post
<1>5. Stage(e) = "open"
  BY <1>1, StageOfHeld
<1>6. /\ \A d \in Events \ {e} : Stage(d)' = Stage(d)
      /\ Stage(e)' = IF v = "inactive" THEN "refused" ELSE "spent"
  BY <1>1, <1>3, <1>4, HeldRoundIsSpent
<1>7. Promise!Move(e, IF v = "inactive" THEN "refused" ELSE "spent") /\ Staged[e] = "open"
  BY <1>1, <1>5, <1>6, OneMoves
<1>8. CASE SkipPost(w)
  <2>1. posts' = posts /\ accepted' = accepted
    BY <1>8 DEF SkipPost
  <2>2. Promise!Skip(e)
    BY <1>4, <1>7, <2>1 DEF Promise!Skip, Staged
  <2>3. QED
    BY <2>2
<1>9. CASE Post(w)
  <2>1. /\ posts' = [posts EXCEPT ![e] = @ + 1]
        /\ accepted' \in {accepted, accepted \cup {e}}
    BY <1>9 DEF Post
  <2>2. Promise!Send(e)
    BY <1>2, <1>4, <1>7, <1>9, <2>1 DEF Promise!Send, Staged
  <2>3. QED
    BY <2>2
<1>10. QED
  BY <1>8, <1>9

\* A record that is written closes the round of the event.
LEMMA CloseStep ==
  ASSUME IInv, NEW w \in Workers, work[w].phase \in {"answered", "recover"},
         NEW e, e = work[w].event,
         NEW v, v = (IF work[w].phase = "answered" THEN work[w].verdict ELSE "error"),
         NEW n, n = work[w].base + 1,
         Record(e, Number(w), v), UNCHANGED <<posts, accepted>>,
         \A x \in Workers \ {w} : work'[x] = work[x],
         work'[w].event \in {e, None}
  PROVE  Promise!Close(e)
<1>1. v \in {"ok", "error", "inactive"} /\ (v = "ok" => e \in accepted)
  BY DEF IInv, Verdict
<1>2. /\ Holds(w)
      /\ status' = [status EXCEPT ![e] = NewStatus(v, n)]
      /\ count' = [count EXCEPT ![e] = n]
  BY <1>1, RecordEffect
<1>3. e \in Events /\ count[e] = n - 1 /\ n \in 1..MaxAttempts
  BY <1>2, BusyHasEvent, AttemptsAssumption DEF Holds, IInv, Work
<1>4. /\ status'[e] = NewStatus(v, n)
      /\ \A d \in Events \ {e} : status'[d] = status[d]
  BY <1>2, <1>3 DEF IInv, TypeOK
<1>5. \A d \in Events \ {e} : Stage(d)' = Stage(d)
  BY <1>3, <1>4, OthersStay
<1>6. Stage(e) = IF v = "inactive" THEN "refused" ELSE "spent"
  BY <1>2, StageOfHeld
<1>7. count' = [count EXCEPT ![e] = @ + 1] /\ count[e] + 1 = n
  <2>1. count[e] + 1 = n
    BY <1>3, AttemptsAssumption
  <2>2. QED
    BY <1>2, <2>1
<1>8. CASE v = "ok"
  <2>1. Stage(e)' = "delivered"
    BY <1>4, <1>8 DEF Stage, NewStatus, Final
  <2>2. Promise!Move(e, "delivered") /\ Staged[e] = "spent"
    BY <1>3, <1>5, <1>6, <1>8, <2>1, OneMoves
  <2>3. QED
    BY <1>1, <1>7, <1>8, <2>2 DEF Promise!Close, Staged
<1>9. CASE v = "inactive" \/ (v = "error" /\ n = MaxAttempts)
  <2>1. Stage(e)' = "dead_letter"
    BY <1>4, <1>9, AttemptsAssumption DEF Stage, NewStatus, FailedStatus, Final
  <2>2. Promise!Move(e, "dead_letter") /\ Staged[e] = Stage(e)
    BY <1>3, <1>5, <2>1, OneMoves
  <2>3. Staged[e] = "refused" \/ (Staged[e] = "spent" /\ count[e] + 1 = MaxAttempts)
    BY <1>6, <1>7, <1>9, <2>2
  <2>4. QED
    BY <1>7, <2>2, <2>3 DEF Promise!Close, Staged
<1>10. CASE v = "error" /\ n # MaxAttempts
  <2>1. n < MaxAttempts
    BY <1>3, <1>10, AttemptsAssumption
  <2>2. Stage(e)' = "waiting"
    BY <1>3, <1>4, <1>10, <2>1, AttemptsAssumption DEF Stage, NewStatus, FailedStatus, Final
  <2>3. Promise!Move(e, "waiting") /\ Staged[e] = "spent"
    BY <1>3, <1>5, <1>6, <1>10, <2>2, OneMoves
  <2>4. QED
    BY <1>7, <2>1, <2>3 DEF Promise!Close, Staged
<1>11. QED
  BY <1>1, <1>8, <1>9, <1>10

\* A sweep that ends, or fails, without a record leaves the round as it is.
LEMMA LeaveStep ==
  ASSUME IInv, NEW w \in Workers, work[w].phase # "idle",
         UNCHANGED <<status, count, posts, accepted>>,
         \A x \in Workers \ {w} : work'[x] = work[x],
         work'[w].phase \in {"recover", "idle"},
         NEW e, e = work[w].event, work'[w].event \in {e, None}
  PROVE  Promise!Skip(e) \/ Staged' = Staged
<1>1. e \in Events
  BY BusyHasEvent DEF IInv
<1>2. CASE Holds(w)
  <2>1. Stage(e) \in {"open", "refused", "spent"}
    BY <1>2, StageOfHeld
  <2>2. /\ \A d \in Events \ {e} : Stage(d)' = Stage(d)
        /\ Stage(e)' = "spent"
    BY <1>2, HeldRoundIsSpent
  <2>3. CASE Stage(e) = "spent"
    BY <2>2, <2>3, NoneMoves
  <2>4. CASE Stage(e) # "spent"
    <3>1. Promise!Move(e, "spent") /\ Staged[e] \in {"open", "refused"}
      BY <1>1, <2>1, <2>2, <2>4, OneMoves
    <3>2. QED
      BY <3>1 DEF Promise!Skip, Staged
  <2>5. QED
    BY <2>3, <2>4
<1>3. CASE ~Holds(w)
  <2>1. work[w].phase = "recover"
    BY <1>3 DEF IInv, Work
  <2>2. At(e, "claimed")' = At(e, "claimed") /\ Refused(e)' = Refused(e)
    BY <2>1 DEF At, Refused
  <2>3. Stage(e)' = Stage(e)
    BY <2>2 DEF Stage
  <2>4. \A d \in Events \ {e} : Stage(d)' = Stage(d)
    BY <1>1, OthersStay
  <2>5. QED
    BY <2>3, <2>4, NoneMoves
<1>4. QED
  BY <1>2, <1>3

LEMMA StepRefines ==
  ASSUME IInv, [Next]_vars
  PROVE  Promise!Next \/ UNCHANGED <<Staged, count, posts, accepted>>
<1> DEFINE Same == UNCHANGED <<Staged, count, posts, accepted>>
<1>1. ASSUME NEW e \in Events, Enqueue(e) PROVE Promise!Next
  BY <1>1, AskStep DEF Promise!Next
<1>2. ASSUME NEW w \in Workers, NEW e \in Events, Claim(w, e) PROVE Promise!Next
  BY <1>2, OpenStep DEF Promise!Next
<1>3. ASSUME NEW w \in Workers, work[w].phase # "idle" PROVE work[w].event \in Events
  BY <1>3, BusyHasEvent DEF IInv
<1>4. ASSUME NEW w \in Workers, SkipPost(w) \/ Post(w) PROVE Promise!Next
  <2>1. work[w].event \in Events
    BY <1>3, <1>4 DEF SkipPost, Post
  <2>2. QED
    BY <1>4, <2>1, AnswerStep DEF Promise!Next
<1>5. ASSUME NEW w \in Workers, Finalize(w) \/ FinalizeRaises(w) \/ Recover(w)
      PROVE  Promise!Next \/ Same
  <2>1. /\ work[w].phase \in {"answered", "recover"} /\ work[w].event \in Events
        /\ posts' = posts /\ accepted' = accepted
    BY <1>3, <1>5 DEF Finalize, FinalizeRaises, Recover
  <2>2. /\ \A x \in Workers \ {w} : work'[x] = work[x]
        /\ work'[w].event \in {work[w].event, None}
        /\ work'[w].phase \in {"recover", "idle"}
    <3>1. work[w] \in Job
      BY <2>1, Busy DEF IInv
    <3>2. CASE work' = [work EXCEPT ![w] = Idle]
      BY <3>2 DEF IInv, TypeOK, Idle
    <3>3. CASE work' = [work EXCEPT ![w].phase = "recover", ![w].verdict = "error"]
      BY <3>1, <3>3 DEF IInv, TypeOK, Job
    <3>4. QED
      BY <1>5, <3>2, <3>3 DEF Finalize, FinalizeRaises, Recover
  <2>3. DEFINE v == IF work[w].phase = "answered" THEN work[w].verdict ELSE "error"
  <2>4. CASE Record(work[w].event, Number(w), v)
    BY <2>1, <2>2, <2>4, CloseStep DEF Promise!Next
  <2>5. CASE UNCHANGED <<attempts, status, count, due>>
    BY <2>1, <2>2, <2>5, LeaveStep DEF Promise!Next
  <2>6. QED
    BY <1>5, <2>4, <2>5 DEF Finalize, FinalizeRaises, Recover
<1>6. ASSUME NEW w \in Workers, RecoverFails(w) \/ Crash(w) PROVE Promise!Next \/ Same
  <2>1. work[w].phase # "idle" /\ work[w].event \in Events
    <3>1. work[w] # Idle => work[w] \in Job
      BY DEF IInv, TypeOK
    <3>2. work[w].phase # "idle"
      BY <1>6, <3>1 DEF RecoverFails, Crash, Job, Phases
    <3>3. QED
      BY <1>3, <3>2
  <2>2. /\ work' = [work EXCEPT ![w] = Idle]
        /\ UNCHANGED <<status, count, posts, accepted>>
    BY <1>6 DEF RecoverFails, Crash
  <2>3. /\ \A x \in Workers \ {w} : work'[x] = work[x]
        /\ work'[w].event = None /\ work'[w].phase = "idle"
    BY <2>2 DEF IInv, TypeOK, Idle
  <2>4. QED
    BY <2>1, <2>2, <2>3, LeaveStep DEF Promise!Next
<1>7. CASE \/ \E e \in Events : BackoffEnds(e)
           \/ \E a \in BOOLEAN : SetActive(a)
           \/ UNCHANGED vars
  <2>1. UNCHANGED <<status, work, count, posts, accepted>>
    BY <1>7 DEF BackoffEnds, SetActive, vars
  <2>2. \A d \in Events : Stage(d)' = Stage(d)
    BY <2>1, StageFrame
  <2>3. QED
    BY <2>1, <2>2, NoneMoves
<1>8. QED
  BY <1>1, <1>2, <1>4, <1>5, <1>6, <1>7 DEF Next, Deliver, Fail

(* The delivery of every event is a run of BoundedDelivery: rounds of at most
   one POST, one at a time and no more than the maximum, and a verdict that is
   final (get_next_due_push_webhook_delivery, deliver_one_due_event). *)
THEOREM DeliveryIsBounded == Spec => RefinesBoundedDelivery
<1>1. Init => Promise!Init
  <2> SUFFICES ASSUME Init PROVE Promise!Init
    OBVIOUS
  <2>1. \A e \in Events : Stage(e) = "absent"
    BY DEF Init, Stage, Final
  <2>2. QED
    BY <2>1 DEF Init, Promise!Init
<1>2. IInv /\ [Next]_vars => [Promise!Next]_(Promise!vars)
  BY StepRefines DEF Promise!vars, Staged
<1>3. QED
  BY InitIInv, StepIInv, <1>1, <1>2, PTL DEF Spec, RefinesBoundedDelivery, Promise!Spec

-----------------------------------------------------------------------------
(* What SettledOrDropped rests on.                                         *)

(* No event waits for what cannot come: a row in 'processing' is in the hands
   of a sweep that still records it, unless a sweep died or failed over the
   event, and a row that waits may be claimed as soon as it is due. *)
NothingIsStuck ==
  \A e \in Events :
    /\ status[e] = "processing" =>
         e \in dropped \/ \E w \in Workers : Holds(w) /\ work[w].event = e
    /\ status[e] \in {"none", "pending", "retrying"} => count[e] < MaxAttempts
    /\ status[e] = "pending" => due[e]

\* What a written record leaves of an event is no row in 'processing'.
LEMMA RecordUnsticks ==
  ASSUME IInv, NothingIsStuck, NEW w \in Workers, work[w].phase \in {"answered", "recover"},
         NEW v \in {"ok", "error", "inactive"}, v = "ok" => work[w].event \in accepted,
         Record(work[w].event, Number(w), v), dropped' = dropped,
         \A x \in Workers \ {w} : work'[x] = work[x]
  PROVE  NothingIsStuck'
<1> DEFINE e == work[w].event
           n == work[w].base + 1
<1>1. /\ Holds(w)
      /\ status' = [status EXCEPT ![e] = NewStatus(v, n)]
      /\ count' = [count EXCEPT ![e] = n]
      /\ due' = [due EXCEPT ![e] = FALSE]
      /\ NewStatus(v, n) \in {"delivered", "dead_letter", "retrying"}
      /\ NewStatus(v, n) = "retrying" => n \in 1..Backoffs
  BY RecordEffect
<1>2. e \in Events
  BY BusyHasEvent DEF IInv
<1> HIDE DEF e, n
<1>3. SUFFICES ASSUME NEW d \in Events
      PROVE  /\ status'[d] = "processing" =>
                  d \in dropped' \/ \E x \in Workers : Holds(x)' /\ work'[x].event = d
             /\ status'[d] \in {"none", "pending", "retrying"} => count'[d] < MaxAttempts
             /\ status'[d] = "pending" => due'[d]
  BY DEF NothingIsStuck
<1>4. CASE d = e
  <2>1. status'[d] = NewStatus(v, n) /\ count'[d] = n
    BY <1>1, <1>2, <1>4 DEF IInv, TypeOK
  <2>2. NewStatus(v, n) = "retrying" => n < MaxAttempts
    BY <1>1, AttemptsAssumption
  <2>3. QED
    BY <1>1, <2>1, <2>2
<1>5. CASE d # e
  <2>1. status'[d] = status[d] /\ count'[d] = count[d] /\ due'[d] = due[d]
    BY <1>1, <1>5 DEF IInv, TypeOK
  <2>2. ASSUME NEW x \in Workers, Holds(x), work[x].event = d
        PROVE  Holds(x)' /\ work'[x].event = d
    BY <1>5, <2>1, <2>2 DEF Holds, e
  <2>3. QED
    BY <2>1, <2>2 DEF NothingIsStuck
<1>6. QED
  BY <1>4, <1>5

\* A sweep that leaves its row alone holds it still, or has dropped it.
LEMMA LeaveUnstuck ==
  ASSUME IInv, NothingIsStuck, NEW w \in Workers,
         UNCHANGED <<status, count, due>>, dropped \subseteq dropped',
         \A x \in Workers \ {w} : work'[x] = work[x],
         Holds(w) => \/ work[w].event \in dropped'
                     \/ /\ work'[w].phase # "idle" /\ work'[w].event = work[w].event
                        /\ work'[w].base = work[w].base
  PROVE  NothingIsStuck'
<1> SUFFICES ASSUME NEW d \in Events, status[d] = "processing", d \notin dropped'
             PROVE  \E x \in Workers : Holds(x)' /\ work'[x].event = d
  BY DEF NothingIsStuck
<1>1. PICK x \in Workers : Holds(x) /\ work[x].event = d
  BY DEF NothingIsStuck
<1>2. CASE x = w
  <2>1. /\ work'[w].phase # "idle" /\ work'[w].event = d
        /\ work'[w].base = work[w].base
    BY <1>1, <1>2
  <2>2. Holds(w)'
    BY <1>1, <1>2, <2>1 DEF Holds
  <2>3. QED
    BY <2>1, <2>2
<1>3. CASE x # w
  <2>1. work'[x] = work[x]
    BY <1>3
  <2>2. Holds(x)'
    BY <1>1, <2>1 DEF Holds
  <2>3. QED
    BY <1>1, <2>1, <2>2
<1>4. QED
  BY <1>2, <1>3

LEMMA StepUnstuck ==
  ASSUME IInv, NothingIsStuck, [Next]_vars
  PROVE  NothingIsStuck'
<1>1. ASSUME NEW e \in Events, Enqueue(e) PROVE NothingIsStuck'
  <2>1. /\ status[e] = "none" /\ UNCHANGED <<count, work, dropped>>
        /\ status' = [status EXCEPT ![e] = "pending"] /\ due' = [due EXCEPT ![e] = TRUE]
    BY <1>1 DEF Enqueue
  <2>2. \A w \in Workers : Holds(w) => Holds(w)'
    BY <2>1, BusyHasEvent DEF IInv, TypeOK, Holds
  <2>3. QED
    BY <2>1, <2>2 DEF IInv, TypeOK, NothingIsStuck
<1>2. ASSUME NEW w \in Workers, NEW e \in Events, Claim(w, e) PROVE NothingIsStuck'
  <2>1. /\ work[w] = Idle /\ status[e] # "processing"
        /\ status' = [status EXCEPT ![e] = "processing"] /\ UNCHANGED <<count, due, dropped>>
        /\ \A x \in Workers \ {w} : work'[x] = work[x]
        /\ work'[w].event = e /\ work'[w].phase = "claimed" /\ work'[w].base = count[e]
    BY <1>2 DEF Claim, Claimable, IInv, TypeOK
  <2>2. Holds(w)' /\ ~Holds(w)
    BY <2>1 DEF Holds, Idle, IInv, TypeOK
  <2>3. \A x \in Workers \ {w} : Holds(x) => Holds(x)'
    BY <2>1, BusyHasEvent DEF IInv, TypeOK, Holds
  <2>4. QED
    BY <2>1, <2>2, <2>3 DEF IInv, TypeOK, NothingIsStuck
<1>3. ASSUME NEW w \in Workers, SkipPost(w) \/ Post(w) PROVE NothingIsStuck'
  <2>1. work[w] \in Job
    BY <1>3, Busy DEF SkipPost, Post, IInv
  <2>2. /\ UNCHANGED <<status, count, due, dropped>>
        /\ \A x \in Workers \ {w} : work'[x] = work[x]
        /\ work'[w].phase = "answered" /\ work'[w].event = work[w].event
        /\ work'[w].base = work[w].base
    BY <1>3, <2>1 DEF SkipPost, Post, Answered, IInv, TypeOK, Job
  <2>3. QED
    BY <2>2, LeaveUnstuck
<1>4. ASSUME NEW w \in Workers, Finalize(w) \/ FinalizeRaises(w) \/ Recover(w)
      PROVE  NothingIsStuck'
  <2> DEFINE v == IF work[w].phase = "answered" THEN work[w].verdict ELSE "error"
  <2>1. /\ work[w].phase \in {"answered", "recover"} /\ dropped' = dropped
        /\ v \in {"ok", "error", "inactive"} /\ (v = "ok" => work[w].event \in accepted)
    BY <1>4 DEF Finalize, FinalizeRaises, Recover, IInv, Verdict
  <2>2. work[w] \in Job
    BY <2>1, Busy DEF IInv
  <2>3. \A x \in Workers \ {w} : work'[x] = work[x]
    BY <1>4 DEF Finalize, FinalizeRaises, Recover, IInv, TypeOK
  <2>4. CASE Record(work[w].event, Number(w), v)
    BY <2>1, <2>3, <2>4, RecordUnsticks
  <2>5. CASE FinalizeRaises(w) /\ UNCHANGED <<attempts, status, count, due>>
    <3>1. /\ work'[w].phase = "recover" /\ work'[w].event = work[w].event
          /\ work'[w].base = work[w].base
      BY <2>2, <2>5 DEF FinalizeRaises, IInv, TypeOK, Job
    <3>2. QED
      BY <2>1, <2>3, <2>5, <3>1, LeaveUnstuck
  <2>6. CASE /\ Recorded(work[w].event, Number(w))
             /\ UNCHANGED <<attempts, status, count, due>>
    <3>1. ~Holds(w)
      <4>1. /\ work[w].event \in Events /\ work[w].base \in Nat
            /\ attempts[work[w].event] = 1..count[work[w].event]
        BY <2>1, BusyHasEvent DEF IInv, AttemptsMatchCount
      <4>2. QED
        BY <2>6, <4>1 DEF Recorded, Number, Holds
    <3>2. QED
      BY <2>1, <2>3, <2>6, <3>1, LeaveUnstuck
  <2>7. QED
    BY <1>4, <2>1, <2>4, <2>5, <2>6 DEF Finalize, FinalizeRaises, Recover
<1>5. ASSUME NEW w \in Workers, RecoverFails(w) \/ Crash(w) PROVE NothingIsStuck'
  <2>1. /\ UNCHANGED <<status, count, due>> /\ dropped' = dropped \cup {work[w].event}
        /\ \A x \in Workers \ {w} : work'[x] = work[x]
    BY <1>5 DEF RecoverFails, Crash, IInv, TypeOK
  <2>2. QED
    BY <2>1, LeaveUnstuck
<1>6. ASSUME NEW e \in Events, BackoffEnds(e) PROVE NothingIsStuck'
  BY <1>6 DEF BackoffEnds, NothingIsStuck, Holds, IInv, TypeOK
<1>7. CASE (\E a \in BOOLEAN : SetActive(a)) \/ UNCHANGED vars
  BY <1>7 DEF SetActive, vars, NothingIsStuck, Holds
<1>8. QED
  BY <1>1, <1>2, <1>3, <1>4, <1>5, <1>6, <1>7 DEF Next, Deliver, Fail

(* The safety half of SettledOrDropped: whatever fails, an event that is not
   settled can be claimed, is on its way, or was dropped by a sweep
   (process_due_push_webhook_deliveries). *)
THEOREM NoEventIsStuck == Spec => []NothingIsStuck
<1>1. Init => NothingIsStuck
  BY AttemptsAssumption DEF Init, NothingIsStuck
<1>2. QED
  BY InitIInv, StepIInv, StepUnstuck, <1>1, PTL DEF Spec
=============================================================================
