-------------------------- MODULE WebhookDelivery ---------------------------
(***************************************************************************)
(* The outbound push webhooks: the queue odb.push_webhook_delivery_events, *)
(* filled by enqueue_push_webhook_delivery, and the sweep of every REST    *)
(* process (main.py) that claims due events, posts them and records the    *)
(* attempt (push_webhook_delivery.py).  Workers is the set of sweeps.      *)
(*                                                                         *)
(* Claim, POST and record are separate steps: the claim and the record are *)
(* a transaction each.  The database can refuse a transaction, or lose the *)
(* connection after it committed, and a process can die at any point.      *)
(***************************************************************************)
EXTENDS Naturals, FiniteSets

CONSTANTS Events, Workers,
          MaxAttempts, \* WEBHOOK_MAX_DELIVERY_ATTEMPTS
          Backoffs,    \* length of BACKOFF_AFTER_FAILURE_SEC
          MaxFailures, \* bound: transactions the database fails
          None

ASSUME AttemptsAssumption == MaxAttempts \in Nat \ {0} /\ Backoffs = MaxAttempts - 1
ASSUME FailuresAssumption == MaxFailures \in Nat
ASSUME NoneAssumption == None \notin Events

VARIABLES
  active,   \* the subscription of the events is active
  status,   \* per event: its status, "none" before it is enqueued
  count,    \* per event: attempt_count
  due,      \* per event: next_retry_at has come
  attempts, \* per event: attempt numbers in push_webhook_delivery_attempts
  work,     \* per worker: the claimed row and how far its delivery is
  failures, \* transactions that failed so far
  posts,    \* history: POSTs the endpoint got, per event
  accepted, \* history: events the endpoint answered with 2xx
  dropped   \* history: events whose worker died or gave up

vars == <<active, status, count, due, attempts, work, failures, posts, accepted, dropped>>

Statuses == {"none", "pending", "retrying", "processing", "delivered", "dead_letter"}
Final    == {"delivered", "dead_letter"}
Phases   == {"claimed", "answered", "recover"}
Verdicts == {"unknown", "ok", "error", "inactive"}

\* base: attempt_count of the claimed row.
Job  == [event : Events, base : 0..MaxAttempts, active : BOOLEAN,
         phase : Phases, verdict : Verdicts]
Idle == [event |-> None, base |-> 0, active |-> FALSE, phase |-> "idle", verdict |-> "unknown"]

TypeOK ==
  /\ active \in BOOLEAN
  /\ status \in [Events -> Statuses]
  /\ count \in [Events -> 0..MaxAttempts]
  /\ due \in [Events -> BOOLEAN]
  /\ attempts \in [Events -> SUBSET (1..MaxAttempts)]
  /\ work \in [Workers -> Job \cup {Idle}]
  /\ failures \in 0..MaxFailures
  /\ posts \in [Events -> Nat]
  /\ accepted \in SUBSET Events
  /\ dropped \in SUBSET Events

Init ==
  /\ active = TRUE
  /\ status = [e \in Events |-> "none"]
  /\ count = [e \in Events |-> 0]
  /\ due = [e \in Events |-> FALSE]
  /\ attempts = [e \in Events |-> {}]
  /\ work = [w \in Workers |-> Idle]
  /\ failures = 0
  /\ posts = [e \in Events |-> 0]
  /\ accepted = {}
  /\ dropped = {}

-----------------------------------------------------------------------------
\* enqueue_push_webhook_delivery refuses an inactive subscription.
Enqueue(e) ==
  /\ status[e] = "none" /\ active
  /\ status' = [status EXCEPT ![e] = "pending"]
  /\ due' = [due EXCEPT ![e] = TRUE]
  /\ UNCHANGED <<active, count, attempts, work, failures, posts, accepted, dropped>>

\* update_push_webhook_subscription
SetActive(a) ==
  /\ active # a
  /\ active' = a
  /\ UNCHANGED <<status, count, due, attempts, work, failures, posts, accepted, dropped>>

\* next_retry_at <= CURRENT_TIMESTAMP
BackoffEnds(e) ==
  /\ status[e] = "retrying" /\ ~due[e]
  /\ due' = [due EXCEPT ![e] = TRUE]
  /\ UNCHANGED <<active, status, count, attempts, work, failures, posts, accepted, dropped>>

(* The rows a claim may take; FOR UPDATE SKIP LOCKED makes the claim atomic.
   Mutants: rows another worker is processing too; no row that is retried. *)
ClaimableOnce(e) == status[e] = "pending"
ClaimableAnew(e) == status[e] \in {"pending", "retrying", "processing"}
Claimable(e) == status[e] \in {"pending", "retrying"}

\* get_next_due_push_webhook_delivery
Claim(w, e) ==
  /\ work[w] = Idle
  /\ Claimable(e) /\ due[e] /\ count[e] < MaxAttempts
  /\ status' = [status EXCEPT ![e] = "processing"]
  /\ work' = [work EXCEPT ![w] = [event |-> e, base |-> count[e], active |-> active,
                                  phase |-> "claimed", verdict |-> "unknown"]]
  /\ UNCHANGED <<active, count, due, attempts, failures, posts, accepted, dropped>>

Answered(w, verdict) ==
  work' = [work EXCEPT ![w].phase = "answered", ![w].verdict = verdict]

(* deliver_one_due_event up to its record: no POST for a subscription that was
   inactive when claimed or whose secret cannot be decrypted. *)
SkipPost(w) ==
  /\ work[w].phase = "claimed"
  /\ Answered(w, IF work[w].active THEN "error" ELSE "inactive")
  /\ UNCHANGED <<active, status, count, due, attempts, failures, posts, accepted, dropped>>

(* _deliver_one_http: 2xx, another status, or no answer within the timeout,
   which the endpoint may have accepted all the same. *)
Post(w) ==
  LET e == work[w].event IN
  /\ work[w].phase = "claimed" /\ work[w].active
  /\ posts' = [posts EXCEPT ![e] = @ + 1]
  /\ \/ accepted' = accepted \cup {e} /\ Answered(w, "ok")
     \/ accepted' = accepted \cup {e} /\ Answered(w, "error")
     \/ accepted' = accepted /\ Answered(w, "error")
  /\ UNCHANGED <<active, status, count, due, attempts, failures, dropped>>

\* The status a failed attempt n leads to.
FailedStatus(n) == IF n >= MaxAttempts THEN "dead_letter" ELSE "retrying"

NewStatus(verdict, n) ==
  CASE verdict = "ok"       -> "delivered"
    [] verdict = "inactive" -> "dead_letter"
    [] verdict = "error"    -> FailedStatus(n)

(* UNIQUE (delivery_event_id, attempt_number).  Mutant: no constraint. *)
NeverRecorded(e, n) == FALSE
Recorded(e, n) == n \in attempts[e]

(* The count an attempt leaves.  Mutant: an internal error is not counted. *)
CountUnlessError(verdict, n) == IF verdict = "error" THEN n - 1 ELSE n
NewCount(verdict, n) == n

\* finalize_push_webhook_delivery_attempt: the attempt row and the event row.
Record(e, n, verdict) ==
  /\ ~Recorded(e, n)
  /\ attempts' = [attempts EXCEPT ![e] = @ \cup {n}]
  /\ status' = [status EXCEPT ![e] = NewStatus(verdict, n)]
  /\ count' = [count EXCEPT ![e] = NewCount(verdict, n)]
  /\ due' = [due EXCEPT ![e] = FALSE]

(* The number of the attempt a worker makes.  Mutant: of the one before. *)
NumberOfLast(w) == work[w].base
Number(w) == work[w].base + 1

Finalize(w) ==
  /\ work[w].phase = "answered"
  /\ Record(work[w].event, Number(w), work[w].verdict)
  /\ work' = [work EXCEPT ![w] = Idle]
  /\ UNCHANGED <<active, failures, posts, accepted, dropped>>

\* The record raises: nothing was written, or the commit's answer was lost.
FinalizeRaises(w) ==
  /\ work[w].phase = "answered" /\ failures < MaxFailures
  /\ failures' = failures + 1
  /\ \/ Record(work[w].event, Number(w), work[w].verdict)
     \/ UNCHANGED <<attempts, status, count, due>>
  /\ work' = [work EXCEPT ![w].phase = "recover", ![w].verdict = "error"]
  /\ UNCHANGED <<active, posts, accepted, dropped>>

\* process_due_push_webhook_deliveries: the internal error is an attempt too.
Recover(w) ==
  /\ work[w].phase = "recover"
  /\ \/ Record(work[w].event, Number(w), "error")
     \/ /\ Recorded(work[w].event, Number(w))
        /\ UNCHANGED <<attempts, status, count, due>>
  /\ work' = [work EXCEPT ![w] = Idle]
  /\ UNCHANGED <<active, failures, posts, accepted, dropped>>

\* The second record fails as well: logged, and the sweep goes on.
RecoverFails(w) ==
  /\ work[w].phase = "recover" /\ failures < MaxFailures
  /\ failures' = failures + 1
  /\ work' = [work EXCEPT ![w] = Idle]
  /\ dropped' = dropped \cup {work[w].event}
  /\ UNCHANGED <<active, status, count, due, attempts, posts, accepted>>

\* The process dies; a new one starts its sweep with nothing in hand.
Crash(w) ==
  /\ work[w] # Idle /\ failures < MaxFailures
  /\ failures' = failures + 1
  /\ work' = [work EXCEPT ![w] = Idle]
  /\ dropped' = dropped \cup {work[w].event}
  /\ UNCHANGED <<active, status, count, due, attempts, posts, accepted>>

Deliver(w) == SkipPost(w) \/ Post(w) \/ Finalize(w) \/ Recover(w)
Fail(w) == FinalizeRaises(w) \/ RecoverFails(w) \/ Crash(w)

Next ==
  \/ \E e \in Events : Enqueue(e) \/ BackoffEnds(e)
  \/ \E a \in BOOLEAN : SetActive(a)
  \/ \E w \in Workers : Deliver(w) \/ Fail(w) \/ \E e \in Events : Claim(w, e)

Spec == Init /\ [][Next]_vars

(* The sweep runs every 15 seconds for ever, the backoff is a clock, and a
   claimed event is worked on until it is recorded. *)
FairSpec ==
  /\ Spec
  /\ \A e \in Events : WF_vars(BackoffEnds(e))
  /\ \A w \in Workers : WF_vars(Deliver(w)) /\ WF_vars(\E e \in Events : Claim(w, e))

-----------------------------------------------------------------------------
(* The attempt rows of an event are numbered 1, 2, ... without gap or double,
   and attempt_count says how many there are, through retries, recorded
   internal errors and commits whose answer was lost. *)
AttemptsMatchCount == \A e \in Events : attempts[e] = 1..count[e]

(* An event is never posted more often than the configured maximum. *)
BoundedPosts == \A e \in Events : posts[e] <= MaxAttempts

(* Only an event the endpoint answered with 2xx is delivered. *)
DeliveredWasAccepted == \A e \in Events : status[e] = "delivered" => e \in accepted

(* A delivered or dead-lettered event stays so: no recovery of a lost commit
   and no other worker takes it up again. *)
FinalIsFinal ==
  [][\A e \in Events : status[e] \in Final => status'[e] = status[e]]_vars

(* A retry is scheduled only where the backoff table has a delay for it. *)
BackoffDefined ==
  \A e \in Events : status[e] = "retrying" => count[e] \in 1..Backoffs

(* An enqueued event is delivered or dead-lettered in the end, unless its
   worker died or could record nothing. *)
SettledOrDropped ==
  \A e \in Events : status[e] # "none" ~> (status[e] \in Final \/ e \in dropped)

-----------------------------------------------------------------------------
(* The phase of an event's delivery, from its row and from what the sweep that
   claimed it is doing. *)
At(e, phase) == \E w \in Workers : work[w].event = e /\ work[w].phase = phase
Refused(e) ==
  \E w \in Workers :
    work[w].event = e /\ work[w].phase = "answered" /\ work[w].verdict = "inactive"

Stage(e) ==
  CASE status[e] = "none"                    -> "absent"
    [] status[e] \in {"pending", "retrying"} -> "waiting"
    [] status[e] = "processing"              -> IF At(e, "claimed") THEN "open"
                                                ELSE IF Refused(e) THEN "refused" ELSE "spent"
    [] status[e] \in Final                   -> status[e]

(* Whatever the sweeps, the database and the processes do, an event is
   delivered as BoundedDelivery promises: a lost commit opens no second round,
   a dead worker leaves its round as it is, and no event is given up before its
   last attempt unless its subscription was inactive and nothing was posted. *)
Promise == INSTANCE BoundedDelivery WITH
  Rounds  <- MaxAttempts,
  phase   <- [e \in Events |-> Stage(e)],
  rounds  <- count,
  posts   <- posts,
  reached <- accepted

RefinesBoundedDelivery == Promise!Spec
=============================================================================
