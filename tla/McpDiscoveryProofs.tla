-------------------------- MODULE McpDiscoveryProofs -------------------------
(***************************************************************************)
(* Proofs about McpDiscovery for any numbers of jobs, clients, surfaces    *)
(* and upsets.                                                             *)
(*                                                                         *)
(* What a thread carries from its read to its writes may be out of date,   *)
(* but it is out of date only together with its job: a deletion takes the  *)
(* snapshots and the job rows at once, and a row is not used again while a *)
(* thread is at work on it.  Carried says so, and is what makes            *)
(* CompletedNamesItsSnapshot inductive.                                    *)
(***************************************************************************)
EXTENDS McpDiscovery, TLAPS

Names(v, s) == v \in 1..Latest /\ versions[v] = s

Seen ==
  \A t \in Threads : thread[t].pc \in {"read", "touch", "record", "finish"} => thread[t].seen \in Surfaces

Carried ==
  \A t \in Threads :
    thread[t].pc \in {"touch", "finish"} /\ job[t[1]].state # "none"
      => Names(thread[t].version, thread[t].seen)

IInv == /\ TypeOK /\ Seen /\ Carried
        /\ QuarantineFollowsCount /\ CurrentIsLatest /\ CompletedNamesItsSnapshot

-----------------------------------------------------------------------------
LEMMA InitIInv == Init => IInv
<1> SUFFICES ASSUME Init PROVE IInv
  OBVIOUS
<1>1. surface \in Surfaces
  BY SurfacesAssumption DEF Init
<1>2. TypeOK
  BY <1>1, NumbersAssumption
  DEF Init, TypeOK, JobStates, RunSteps, NoJob, NoTask, Resting
<1>3. \A t \in Threads : thread[t].pc = "none"
  BY DEF Init, NoTask
<1>4. Seen /\ Carried
  BY <1>3 DEF Seen, Carried
<1>5. QuarantineFollowsCount /\ CurrentIsLatest /\ CompletedNamesItsSnapshot
  BY NumbersAssumption DEF Init, QuarantineFollowsCount, CurrentIsLatest, CompletedNamesItsSnapshot, Latest, NoJob
<1>6. QED
  BY <1>2, <1>4, <1>5 DEF IInv

\* The backoff is a number, whatever the count.
LEMMA BackoffInt ==
  ASSUME NEW n \in Nat \ {0}, NEW r \in Nat
  PROVE  Backoff(n, r) \in Int
<1>1. n - 1 \in Nat
  OBVIOUS
<1>2. 2^(n - 1) \in Int
  BY <1>1
<1> DEFINE p == 2^(n - 1)
<1>3. p \in Int
  BY <1>2
<1> HIDE DEF p
<1>4. Base * p \in Int
  BY <1>3, NumbersAssumption
<1>5. QED
  BY <1>4, NumbersAssumption DEF Backoff, Larger, Smaller, p

\* A snapshot that is named stays named when another is appended.
LEMMA NamesAppend ==
  ASSUME versions \in Seq(Surfaces), NEW s \in Surfaces, versions' = Append(versions, s)
  PROVE  /\ versions' \in Seq(Surfaces)
         /\ Latest' = Latest + 1 /\ Latest \in Nat
         /\ versions'[Latest + 1] = s
         /\ \A v \in 1..Latest : v \in 1..Latest' /\ versions'[v] = versions[v]
<1>1. versions' \in Seq(Surfaces) /\ Len(versions') = Len(versions) + 1 /\ Len(versions) \in Nat
  OBVIOUS
<1>2. versions'[Len(versions) + 1] = s /\ \A v \in 1..Len(versions) : versions'[v] = versions[v]
  OBVIOUS
<1>3. QED
  BY <1>1, <1>2 DEF Latest

-----------------------------------------------------------------------------
\* Steps of the callers and of the world that touch neither rows nor threads.
Calls ==
  \/ \E c \in Callers : Request(c) \/ Look(c)
  \/ List \/ TickEnds \/ ServerChanges

LEMMA CallsKeep ==
  ASSUME IInv, Calls
  PROVE  IInv'
<1>1. UNCHANGED <<endpoint, versions, job, thread>>
  BY DEF Calls, Request, Look, List, TickEnds, ServerChanges, Elsewhere
<1>2. caller' \in [Callers -> [pc : {"idle", "ready", "looked", "driving", "limited"}, job : Jobs \cup {0}]]
  <2>1. ASSUME NEW c \in Callers, Request(c) \/ Look(c)
        PROVE  \E pc \in {"ready", "idle", "looked"} : Steps(c, pc)
    BY <2>1 DEF Request, Look
  <2>2. List => Steps(Sweep, "ready")
    BY DEF List
  <2>3. TickEnds => caller' = [caller EXCEPT ![Sweep] = Resting]
    BY DEF TickEnds
  <2>4. ServerChanges => caller' = caller
    BY DEF ServerChanges
  <2>5. ASSUME NEW c \in Callers, NEW pc \in {"ready", "idle", "looked"}, Steps(c, pc)
        PROVE  caller' \in [Callers -> [pc : {"idle", "ready", "looked", "driving", "limited"}, job : Jobs \cup {0}]]
    BY <2>5 DEF Steps, IInv, TypeOK
  <2>6. CASE \E c \in Callers : Request(c) \/ Look(c)
    BY <2>1, <2>5, <2>6
  <2>7. CASE List
    BY <2>2, <2>5, <2>7 DEF Callers
  <2>8. CASE TickEnds \/ ServerChanges
    BY <2>3, <2>4, <2>8 DEF Resting, IInv, TypeOK
  <2>9. QED
    BY <2>6, <2>7, <2>8 DEF Calls
<1>3. surface' \in Surfaces /\ events' \in 0..MaxEvents /\ lost' \subseteq Jobs
  BY NumbersAssumption
  DEF Calls, Request, Look, List, TickEnds, ServerChanges, Elsewhere, Upset, IInv, TypeOK
<1>4. TypeOK'
  BY <1>1, <1>2, <1>3 DEF IInv, TypeOK
<1>5. Seen' /\ Carried'
  BY <1>1 DEF IInv, Seen, Carried, Names, Latest
<1>6. QuarantineFollowsCount' /\ CurrentIsLatest' /\ CompletedNamesItsSnapshot'
  BY <1>1 DEF IInv, QuarantineFollowsCount, CurrentIsLatest, CompletedNamesItsSnapshot, Latest
<1>7. QED
  BY <1>4, <1>5, <1>6 DEF IInv

\* A row is taken that no thread is at work on.
LEMMA InsertKeeps ==
  ASSUME IInv, NEW c \in Callers, Insert(c)
  PROVE  IInv'
<1> DEFINE j == CHOOSE k \in Spare : TRUE
<1>1. j \in Spare /\ j \in Jobs
  BY DEF Insert, Spare
<1>2. /\ job' = [job EXCEPT ![j] = [NoJob EXCEPT !.state = "queued"]]
      /\ thread' = [thread EXCEPT ![<<j, "drive">>] = [NoTask EXCEPT !.pc = "queued"]]
      /\ caller' = [caller EXCEPT ![c] = IF c = Sweep THEN [pc |-> "driving", job |-> j] ELSE Resting]
      /\ lost' = lost \ {j}
      /\ UNCHANGED <<endpoint, versions, surface, events>>
  BY DEF Insert, Elsewhere
<1> HIDE DEF j
<1>3. \A k \in {"drive", "late"} : <<j, k>> \in Threads /\ thread[<<j, k>>].pc = "none"
  BY <1>1 DEF Spare, Threads
<1>4. TypeOK'
  <2>1. job' \in [Jobs -> [state : JobStates, version : Nat, surface : Surfaces \cup {NoSurface}]]
    BY <1>1, <1>2 DEF IInv, TypeOK, NoJob, JobStates
  <2>2. thread' \in [Threads -> [pc : RunSteps, seen : Surfaces \cup {NoSurface}, version : Nat]]
    BY <1>2 DEF IInv, TypeOK, NoTask, RunSteps
  <2>3. caller' \in [Callers -> [pc : {"idle", "ready", "looked", "driving", "limited"}, job : Jobs \cup {0}]]
    BY <1>1, <1>2 DEF IInv, TypeOK, Resting
  <2>4. QED
    BY <1>2, <2>1, <2>2, <2>3 DEF IInv, TypeOK
<1>5. \A t \in Threads : thread'[t] = thread[t] \/ (t[1] = j /\ thread'[t].pc = "queued")
  BY <1>2 DEF IInv, TypeOK, NoTask
<1>6. \A t \in Threads : t[1] = j => thread'[t].pc \in {"none", "queued"}
  BY <1>3, <1>5 DEF Threads
<1>7. \A k \in Jobs : k # j => job'[k] = job[k]
  BY <1>1, <1>2 DEF IInv, TypeOK
<1>8. job'[j].state = "queued"
  BY <1>1, <1>2 DEF IInv, TypeOK, NoJob
<1>9. \A t \in Threads : t[1] \in Jobs
  BY DEF Threads
<1>10. Seen'
  BY <1>5 DEF IInv, Seen
<1>11. Carried'
  BY <1>2, <1>5, <1>6, <1>7, <1>9 DEF IInv, Carried, Names, Latest
<1>12. CompletedNamesItsSnapshot'
  BY <1>2, <1>7, <1>8 DEF IInv, CompletedNamesItsSnapshot, Latest
<1>13. QuarantineFollowsCount' /\ CurrentIsLatest'
  BY <1>2 DEF IInv, QuarantineFollowsCount, CurrentIsLatest, Latest
<1>14. QED
  BY <1>4, <1>10, <1>11, <1>12, <1>13 DEF IInv

-----------------------------------------------------------------------------
\* What Goes and Turns leave of the threads.
LEMMA OneThread ==
  ASSUME TypeOK, NEW t \in Threads, NEW pc \in RunSteps, Goes(t, pc) \/ Turns(t, pc)
  PROVE  /\ thread' \in [Threads -> [pc : RunSteps, seen : Surfaces \cup {NoSurface}, version : Nat]]
         /\ \A u \in Threads : u # t => thread'[u] = thread[u]
         /\ thread'[t].pc = pc
         /\ Goes(t, pc) => thread'[t].seen = thread[t].seen /\ thread'[t].version = thread[t].version
<1>1. thread[t] \in [pc : RunSteps, seen : Surfaces \cup {NoSurface}, version : Nat]
  BY DEF TypeOK
<1>2. CASE Goes(t, pc)
  BY <1>1, <1>2 DEF TypeOK, Goes
<1>3. CASE ~Goes(t, pc) /\ Turns(t, pc)
  <2>1. [NoTask EXCEPT !.pc = pc] \in [pc : RunSteps, seen : Surfaces \cup {NoSurface}, version : Nat]
    BY DEF NoTask
  <2>2. thread' = [thread EXCEPT ![t] = [NoTask EXCEPT !.pc = pc]] /\ [NoTask EXCEPT !.pc = pc].pc = pc
    BY <1>3 DEF Turns, NoTask
  <2>3. QED
    BY <1>3, <2>1, <2>2 DEF TypeOK
<1>4. QED
  BY <1>2, <1>3

\* A thread that changes its own place only, to one where it carries nothing
\* new.
LEMMA MovesKeep ==
  ASSUME IInv, NEW t \in Threads,
         \E pc \in {"none", "failing", "failed", "net"} : Goes(t, pc) \/ Turns(t, pc),
         versions' = versions, \A j \in Jobs : job'[j].state # "none" => job[j].state # "none"
  PROVE  Seen' /\ Carried'
<1>1. PICK pc \in {"none", "failing", "failed", "net"} : Goes(t, pc) \/ Turns(t, pc)
  OBVIOUS
<1>2. pc \in RunSteps
  BY DEF RunSteps
<1>3. /\ \A u \in Threads : u # t => thread'[u] = thread[u]
      /\ thread'[t].pc = pc
  BY <1>1, <1>2, OneThread DEF IInv
<1>4. \A u \in Threads : u[1] \in Jobs
  BY DEF Threads
<1>5. Seen'
  BY <1>3 DEF IInv, Seen
<1>6. Carried'
  BY <1>3, <1>4 DEF IInv, Carried, Names, Latest
<1>7. QED
  BY <1>5, <1>6

-----------------------------------------------------------------------------
(* The steps of a run. *)

LEMMA JobRow ==
  ASSUME TypeOK, NEW j \in Jobs,
         NEW row \in [state : JobStates, version : Nat, surface : Surfaces \cup {NoSurface}],
         Finished(j, row), row.state # "none"
  PROVE  /\ job' \in [Jobs -> [state : JobStates, version : Nat, surface : Surfaces \cup {NoSurface}]]
         /\ \A k \in Jobs : k # j => job'[k] = job[k]
         /\ job'[j] = IF job[j].state = "none" THEN job[j] ELSE row
         /\ \A k \in Jobs : job'[k].state # "none" => job[k].state # "none"
  BY DEF TypeOK, Finished

LEMMA StartKeeps ==
  ASSUME IInv, NEW t \in Threads, Start(t)
  PROVE  IInv'
<1>1. t[1] \in Jobs /\ {"none", "net"} \subseteq RunSteps
  BY DEF Threads, RunSteps
<1>2. UNCHANGED <<endpoint, versions, caller, surface, events, lost>>
  BY DEF Start, World
<1>3. \E pc \in {"none", "net"} : Goes(t, pc) \/ Turns(t, pc)
  BY DEF Start
<1>4. /\ job' \in [Jobs -> [state : JobStates, version : Nat, surface : Surfaces \cup {NoSurface}]]
      /\ \A j \in Jobs : job'[j].state # "none" => job[j].state # "none"
      /\ \A j \in Jobs : job'[j].state = "completed" => job'[j] = job[j]
  <2>1. PICK j \in Jobs : job' = job \/ (job[j].state = "queued" /\ job' = [job EXCEPT ![j].state = "running"])
    BY <1>1 DEF Start
  <2>2. job[j] \in [state : JobStates, version : Nat, surface : Surfaces \cup {NoSurface}] /\ "running" \in JobStates
    BY DEF IInv, TypeOK, JobStates
  <2>3. \A k \in Jobs : k # j => job'[k] = job[k]
    BY <2>1 DEF IInv, TypeOK
  <2>4. job'[j] = job[j] \/ (job[j].state = "queued" /\ job'[j] = [job[j] EXCEPT !.state = "running"])
    BY <2>1 DEF IInv, TypeOK
  <2>5. job'[j] \in [state : JobStates, version : Nat, surface : Surfaces \cup {NoSurface}]
    BY <2>2, <2>4
  <2>6. /\ job'[j].state # "none" => job[j].state # "none"
        /\ job'[j].state = "completed" => job'[j] = job[j]
    BY <2>2, <2>4
  <2>7. job' \in [Jobs -> [state : JobStates, version : Nat, surface : Surfaces \cup {NoSurface}]]
    <3>1. job' = [k \in Jobs |-> job'[k]]
      BY <2>1 DEF IInv, TypeOK
    <3>2. \A k \in Jobs : job'[k] \in [state : JobStates, version : Nat, surface : Surfaces \cup {NoSurface}]
      BY <2>3, <2>5 DEF IInv, TypeOK
    <3>3. QED
      BY <3>1, <3>2
  <2>8. QED
    BY <2>3, <2>6, <2>7
<1>5. thread' \in [Threads -> [pc : RunSteps, seen : Surfaces \cup {NoSurface}, version : Nat]]
  BY <1>1, <1>3, OneThread DEF IInv
<1>6. TypeOK'
  BY <1>2, <1>4, <1>5 DEF IInv, TypeOK
<1>7. Seen' /\ Carried'
  BY <1>2, <1>3, <1>4, MovesKeep
<1>8. CompletedNamesItsSnapshot' /\ QuarantineFollowsCount' /\ CurrentIsLatest'
  BY <1>2, <1>4 DEF IInv, CompletedNamesItsSnapshot, QuarantineFollowsCount, CurrentIsLatest, Latest
<1>9. QED
  BY <1>6, <1>7, <1>8 DEF IInv

\* Steps that end a run or turn it into a failure, and nothing else.
LEMMA GiveUpKeeps ==
  ASSUME IInv, NEW t \in Threads, NetworkFails(t) \/ PersistRaises(t) \/ RecordingRaises(t)
  PROVE  IInv'
<1>1. t[1] \in Jobs /\ {"none", "failing"} \subseteq RunSteps
  BY DEF Threads, RunSteps
<1>2. \E pc \in {"none", "failing"} : Turns(t, pc)
  BY DEF NetworkFails, PersistRaises, RecordingRaises
<1>3. UNCHANGED <<endpoint, versions, job, caller, surface, events>> /\ lost' \subseteq Jobs
  BY <1>1 DEF NetworkFails, PersistRaises, RecordingRaises, World, IInv, TypeOK
<1>4. thread' \in [Threads -> [pc : RunSteps, seen : Surfaces \cup {NoSurface}, version : Nat]]
  BY <1>1, <1>2, OneThread DEF IInv
<1>5. TypeOK'
  BY <1>3, <1>4 DEF IInv, TypeOK
<1>6. Seen' /\ Carried'
  BY <1>2, <1>3, MovesKeep
<1>7. CompletedNamesItsSnapshot' /\ QuarantineFollowsCount' /\ CurrentIsLatest'
  BY <1>3 DEF IInv, CompletedNamesItsSnapshot, QuarantineFollowsCount, CurrentIsLatest, Latest
<1>8. QED
  BY <1>5, <1>6, <1>7 DEF IInv

\* The server's answer arrives: nothing is carried yet.
LEMMA DiscoverKeeps ==
  ASSUME IInv, NEW t \in Threads, Discover(t)
  PROVE  IInv'
<1>1. /\ thread' = [thread EXCEPT ![t].pc = "read", ![t].seen = surface]
      /\ UNCHANGED <<endpoint, versions, job, caller, surface, events, lost>>
  BY DEF Discover, World
<1>2. /\ \A u \in Threads : u # t => thread'[u] = thread[u]
      /\ thread'[t].pc = "read" /\ thread'[t].seen \in Surfaces
      /\ thread' \in [Threads -> [pc : RunSteps, seen : Surfaces \cup {NoSurface}, version : Nat]]
  <2>1. /\ thread \in [Threads -> [pc : RunSteps, seen : Surfaces \cup {NoSurface}, version : Nat]]
        /\ surface \in Surfaces /\ "read" \in RunSteps
    BY DEF IInv, TypeOK, RunSteps
  <2>2. QED
    BY <1>1, <2>1
<1>3. TypeOK'
  BY <1>1, <1>2 DEF IInv, TypeOK
<1>4. Seen' /\ Carried'
  BY <1>1, <1>2 DEF IInv, Seen, Carried, Names, Latest
<1>5. CompletedNamesItsSnapshot' /\ QuarantineFollowsCount' /\ CurrentIsLatest'
  BY <1>1 DEF IInv, CompletedNamesItsSnapshot, QuarantineFollowsCount, CurrentIsLatest, Latest
<1>6. QED
  BY <1>3, <1>4, <1>5 DEF IInv

\* The latest snapshot is read: what is carried from now on is named.
LEMMA ThreadRow ==
  ASSUME TypeOK, NEW t \in Threads, NEW pc \in RunSteps, NEW v \in Nat,
         thread' = [thread EXCEPT ![t].pc = pc, ![t].version = v]
  PROVE  /\ \A u \in Threads : u # t => thread'[u] = thread[u]
         /\ thread'[t].pc = pc
         /\ thread'[t].seen = thread[t].seen /\ thread'[t].version = v
         /\ thread' \in [Threads -> [pc : RunSteps, seen : Surfaces \cup {NoSurface}, version : Nat]]
<1>1. thread[t] \in [pc : RunSteps, seen : Surfaces \cup {NoSurface}, version : Nat]
  BY DEF TypeOK
<1>2. thread'[t] = [thread[t] EXCEPT !.pc = pc, !.version = v] /\ DOMAIN thread' = Threads
  BY DEF TypeOK
<1>3. /\ thread'[t].pc = pc /\ thread'[t].seen = thread[t].seen /\ thread'[t].version = v
      /\ thread'[t] \in [pc : RunSteps, seen : Surfaces \cup {NoSurface}, version : Nat]
  BY <1>1, <1>2
<1>4. \A u \in Threads : u # t => thread'[u] = thread[u]
  BY DEF TypeOK
<1>5. QED
  BY <1>2, <1>3, <1>4 DEF TypeOK

LEMMA ReadLatestKeeps ==
  ASSUME IInv, NEW t \in Threads, ReadLatest(t)
  PROVE  IInv'
<1>1. /\ thread' = [thread EXCEPT ![t].pc = IF Unchanged(t) THEN "touch" ELSE "record", ![t].version = Latest]
      /\ UNCHANGED <<endpoint, versions, job, caller, surface, events, lost>>
      /\ thread[t].pc = "read" /\ Latest \in Nat
  BY DEF ReadLatest, World, IInv, TypeOK, Latest
<1>2. /\ \A u \in Threads : u # t => thread'[u] = thread[u]
      /\ thread'[t].pc = IF Unchanged(t) THEN "touch" ELSE "record"
      /\ thread'[t].seen = thread[t].seen /\ thread'[t].version = Latest
      /\ thread' \in [Threads -> [pc : RunSteps, seen : Surfaces \cup {NoSurface}, version : Nat]]
  <2> DEFINE pc == IF Unchanged(t) THEN "touch" ELSE "record"
  <2>1. pc \in RunSteps
    BY DEF RunSteps
  <2>2. thread' = [thread EXCEPT ![t].pc = pc, ![t].version = Latest]
    BY <1>1
  <2> HIDE DEF pc
  <2>3. /\ \A u \in Threads : u # t => thread'[u] = thread[u]
        /\ thread'[t].pc = pc
        /\ thread'[t].seen = thread[t].seen /\ thread'[t].version = Latest
        /\ thread' \in [Threads -> [pc : RunSteps, seen : Surfaces \cup {NoSurface}, version : Nat]]
    BY <1>1, <2>1, <2>2, ThreadRow DEF IInv
  <2>4. QED
    BY <2>3 DEF pc
<1>3. TypeOK'
  BY <1>1, <1>2 DEF IInv, TypeOK
<1>4. Unchanged(t) => Names(Latest, thread[t].seen)
  BY <1>1 DEF Unchanged, Names
<1>5. Seen'
  BY <1>1, <1>2 DEF IInv, Seen
<1>6. Carried'
  BY <1>1, <1>2, <1>4 DEF IInv, Carried, Names, Latest
<1>7. CompletedNamesItsSnapshot' /\ QuarantineFollowsCount' /\ CurrentIsLatest'
  BY <1>1 DEF IInv, CompletedNamesItsSnapshot, QuarantineFollowsCount, CurrentIsLatest, Latest
<1>8. QED
  BY <1>3, <1>5, <1>6, <1>7 DEF IInv

LEMMA HealthyRow ==
  ASSUME TypeOK
  PROVE  /\ Healthy(endpoint) \in [deleted : BOOLEAN, enabled : BOOLEAN, current : Nat, failures : 0..MaxFailures,
                                    quarantined : BOOLEAN, rest : Nat]
         /\ Healthy(endpoint).failures = 0 /\ Healthy(endpoint).quarantined = FALSE
         /\ Healthy(endpoint).current = endpoint.current
<1>1. endpoint \in [deleted : BOOLEAN, enabled : BOOLEAN, current : Nat, failures : 0..MaxFailures,
                    quarantined : BOOLEAN, rest : Nat]
  BY DEF TypeOK
<1>2. Cadence \in Nat /\ 0 \in 0..MaxFailures
  BY NumbersAssumption
<1>3. QED
  BY <1>1, <1>2 DEF Healthy

LEMMA TouchKeeps ==
  ASSUME IInv, NEW t \in Threads, Touch(t)
  PROVE  IInv'
<1>1. /\ endpoint' = Healthy(endpoint) /\ Goes(t, "finish") /\ thread[t].pc = "touch"
      /\ UNCHANGED <<versions, job, caller, surface, events, lost>>
      /\ "finish" \in RunSteps
  BY DEF Touch, World, RunSteps
<1>2. /\ \A u \in Threads : u # t => thread'[u] = thread[u]
      /\ thread'[t].pc = "finish"
      /\ thread'[t].seen = thread[t].seen /\ thread'[t].version = thread[t].version
      /\ thread' \in [Threads -> [pc : RunSteps, seen : Surfaces \cup {NoSurface}, version : Nat]]
  BY <1>1, OneThread DEF IInv
<1>3. TypeOK'
  BY <1>1, <1>2, HealthyRow DEF IInv, TypeOK
<1>4. Seen' /\ Carried'
  BY <1>1, <1>2 DEF IInv, Seen, Carried, Names, Latest
<1>5. QuarantineFollowsCount' /\ CurrentIsLatest'
  <2>1. endpoint'.failures = 0 /\ endpoint'.quarantined = FALSE /\ endpoint'.current = endpoint.current
    BY <1>1, HealthyRow DEF IInv
  <2>2. QuarantineFollowsCount'
    BY <2>1, NumbersAssumption DEF QuarantineFollowsCount
  <2>3. CurrentIsLatest'
    BY <1>1, <2>1 DEF IInv, CurrentIsLatest, Latest
  <2>4. QED
    BY <2>2, <2>3
<1>6. CompletedNamesItsSnapshot'
  BY <1>1 DEF IInv, CompletedNamesItsSnapshot, Latest
<1>7. QED
  BY <1>3, <1>4, <1>5, <1>6 DEF IInv

\* A snapshot is appended: the numbers given out so far keep their meaning.
LEMMA RecordKeeps ==
  ASSUME IInv, NEW t \in Threads, Record(t)
  PROVE  IInv'
<1>1. /\ thread[t].pc = "record" /\ thread[t].seen \in Surfaces /\ versions \in Seq(Surfaces)
      /\ versions' = Append(versions, thread[t].seen)
      /\ endpoint' = [Healthy(endpoint) EXCEPT !.current = Latest + 1]
      /\ thread' = [thread EXCEPT ![t].pc = "finish", ![t].version = Latest + 1]
      /\ UNCHANGED <<job, caller, surface, events, lost>>
  BY DEF Record, World, IInv, Seen, TypeOK
<1>2. /\ versions' \in Seq(Surfaces) /\ Latest' = Latest + 1 /\ Latest \in Nat
      /\ versions'[Latest + 1] = thread[t].seen
      /\ \A v \in 1..Latest : v \in 1..Latest' /\ versions'[v] = versions[v]
  BY <1>1, NamesAppend
<1>3. /\ \A u \in Threads : u # t => thread'[u] = thread[u]
      /\ thread'[t].pc = "finish"
      /\ thread'[t].seen = thread[t].seen /\ thread'[t].version = Latest + 1
      /\ thread' \in [Threads -> [pc : RunSteps, seen : Surfaces \cup {NoSurface}, version : Nat]]
  <2>1. "finish" \in RunSteps /\ Latest + 1 \in Nat
    BY <1>2 DEF RunSteps
  <2>2. QED
    BY <1>1, <2>1, ThreadRow DEF IInv
<1>4. /\ endpoint' \in [deleted : BOOLEAN, enabled : BOOLEAN, current : Nat, failures : 0..MaxFailures,
                        quarantined : BOOLEAN, rest : Nat]
      /\ endpoint'.failures = 0 /\ endpoint'.quarantined = FALSE /\ endpoint'.current = Latest + 1
  <2> DEFINE h == Healthy(endpoint)
  <2>1. /\ h \in [deleted : BOOLEAN, enabled : BOOLEAN, current : Nat, failures : 0..MaxFailures,
                   quarantined : BOOLEAN, rest : Nat]
        /\ h.failures = 0 /\ h.quarantined = FALSE
    BY HealthyRow DEF IInv
  <2>2. endpoint' = [h EXCEPT !.current = Latest + 1] /\ Latest + 1 \in Nat
    BY <1>1, <1>2
  <2> HIDE DEF h
  <2>3. QED
    BY <2>1, <2>2
<1>5. TypeOK'
  BY <1>1, <1>2, <1>3, <1>4 DEF IInv, TypeOK
<1>6. Seen'
  BY <1>1, <1>3 DEF IInv, Seen
<1>7. Carried'
  <2>1. SUFFICES ASSUME NEW u \in Threads, thread'[u].pc \in {"touch", "finish"}, job'[u[1]].state # "none"
                 PROVE  thread'[u].version \in 1..Latest' /\ versions'[thread'[u].version] = thread'[u].seen
    BY DEF Carried, Names
  <2>2. CASE u = t
    BY <1>2, <1>3, <2>2
  <2>3. CASE u # t
    <3>1. thread[u].version \in 1..Latest /\ versions[thread[u].version] = thread[u].seen
      BY <1>1, <1>3, <2>1, <2>3 DEF IInv, Carried, Names
    <3>2. QED
      BY <1>2, <1>3, <2>3, <3>1
  <2>4. QED
    BY <2>2, <2>3
<1>8. CompletedNamesItsSnapshot'
  BY <1>1, <1>2 DEF IInv, CompletedNamesItsSnapshot
<1>9. QuarantineFollowsCount' /\ CurrentIsLatest'
  BY <1>2, <1>4, NumbersAssumption DEF QuarantineFollowsCount, CurrentIsLatest
<1>10. QED
  BY <1>5, <1>6, <1>7, <1>8, <1>9 DEF IInv

LEMMA FinishKeeps ==
  ASSUME IInv, NEW t \in Threads, Finish(t)
  PROVE  IInv'
<1> DEFINE row == [state |-> "completed", version |-> thread[t].version, surface |-> thread[t].seen]
<1>1. /\ thread[t].pc = "finish" /\ Finished(t[1], row) /\ Turns(t, "none")
      /\ UNCHANGED <<endpoint, versions, caller, surface, events, lost>>
      /\ t[1] \in Jobs /\ "none" \in RunSteps
  BY DEF Finish, World, Threads, RunSteps
<1>2. row \in [state : JobStates, version : Nat, surface : Surfaces \cup {NoSurface}] /\ row.state # "none"
  BY DEF IInv, TypeOK, JobStates
<1>3. row.version = thread[t].version /\ row.surface = thread[t].seen
  OBVIOUS
<1> HIDE DEF row
<1>4. /\ job' \in [Jobs -> [state : JobStates, version : Nat, surface : Surfaces \cup {NoSurface}]]
      /\ \A k \in Jobs : k # t[1] => job'[k] = job[k]
      /\ job'[t[1]] = IF job[t[1]].state = "none" THEN job[t[1]] ELSE row
      /\ \A k \in Jobs : job'[k].state # "none" => job[k].state # "none"
  BY <1>1, <1>2, JobRow DEF IInv
<1>5. thread' \in [Threads -> [pc : RunSteps, seen : Surfaces \cup {NoSurface}, version : Nat]]
  BY <1>1, OneThread DEF IInv
<1>6. TypeOK'
  BY <1>1, <1>4, <1>5 DEF IInv, TypeOK
<1>7. Seen' /\ Carried'
  BY <1>1, <1>4, MovesKeep
<1>8. CompletedNamesItsSnapshot'
  <2>1. SUFFICES ASSUME NEW j \in Jobs, job'[j].state = "completed"
                 PROVE  job'[j].version \in 1..Latest /\ versions[job'[j].version] = job'[j].surface
    BY <1>1 DEF CompletedNamesItsSnapshot, Latest
  <2>2. CASE j = t[1] /\ job[j].state # "none"
    <3>1. Names(thread[t].version, thread[t].seen)
      BY <1>1, <2>2 DEF IInv, Carried
    <3>2. QED
      BY <1>3, <1>4, <2>2, <3>1 DEF Names
  <2>3. CASE ~(j = t[1] /\ job[j].state # "none")
    BY <1>4, <2>1, <2>3 DEF IInv, CompletedNamesItsSnapshot
  <2>4. QED
    BY <2>2, <2>3
<1>9. QuarantineFollowsCount' /\ CurrentIsLatest'
  BY <1>1 DEF IInv, QuarantineFollowsCount, CurrentIsLatest, Latest
<1>10. QED
  BY <1>6, <1>7, <1>8, <1>9 DEF IInv

LEMMA FinishFailedKeeps ==
  ASSUME IInv, NEW t \in Threads, FinishFailed(t)
  PROVE  IInv'
<1> DEFINE row == [state |-> "failed", version |-> 0, surface |-> NoSurface]
<1>1. /\ Finished(t[1], row) /\ Turns(t, "none")
      /\ UNCHANGED <<endpoint, versions, caller, surface, events, lost>>
      /\ t[1] \in Jobs /\ "none" \in RunSteps
  BY DEF FinishFailed, World, Threads, RunSteps
<1>2. /\ row \in [state : JobStates, version : Nat, surface : Surfaces \cup {NoSurface}]
      /\ row.state = "failed"
  BY DEF JobStates
<1> HIDE DEF row
<1>3. /\ job' \in [Jobs -> [state : JobStates, version : Nat, surface : Surfaces \cup {NoSurface}]]
      /\ \A k \in Jobs : k # t[1] => job'[k] = job[k]
      /\ job'[t[1]] = IF job[t[1]].state = "none" THEN job[t[1]] ELSE row
      /\ \A k \in Jobs : job'[k].state # "none" => job[k].state # "none"
  BY <1>1, <1>2, JobRow DEF IInv
<1>4. thread' \in [Threads -> [pc : RunSteps, seen : Surfaces \cup {NoSurface}, version : Nat]]
  BY <1>1, OneThread DEF IInv
<1>5. TypeOK'
  BY <1>1, <1>3, <1>4 DEF IInv, TypeOK
<1>6. Seen' /\ Carried'
  BY <1>1, <1>3, MovesKeep
<1>7. CompletedNamesItsSnapshot'
  BY <1>1, <1>2, <1>3 DEF IInv, CompletedNamesItsSnapshot, Latest
<1>8. QuarantineFollowsCount' /\ CurrentIsLatest'
  BY <1>1 DEF IInv, QuarantineFollowsCount, CurrentIsLatest, Latest
<1>9. QED
  BY <1>5, <1>6, <1>7, <1>8 DEF IInv

LEMMA RecordFailureKeeps ==
  ASSUME IInv, NEW t \in Threads, RecordFailure(t)
  PROVE  IInv'
<1> DEFINE n == Smaller(endpoint.failures + 1, MaxFailures)
<1>1. PICK r \in RetryAfter :
        endpoint' = [endpoint EXCEPT !.failures = n, !.rest = Larger(Cadence, Backoff(n, r)),
                                     !.quarantined = @ \/ (Threshold > 0 /\ n >= Threshold)]
  BY DEF RecordFailure
<1>2. /\ Goes(t, "failed") /\ "failed" \in RunSteps
      /\ UNCHANGED <<versions, job, caller, surface, events, lost>>
  BY DEF RecordFailure, World, RunSteps
<1>3. /\ endpoint \in [deleted : BOOLEAN, enabled : BOOLEAN, current : Nat, failures : 0..MaxFailures,
                       quarantined : BOOLEAN, rest : Nat]
      /\ n \in 1..MaxFailures /\ n >= endpoint.failures
  BY NumbersAssumption DEF IInv, TypeOK, Smaller
<1> HIDE DEF n
<1>4. Larger(Cadence, Backoff(n, r)) \in Nat
  <2>1. Backoff(n, r) \in Int
    BY <1>3, BackoffInt, NumbersAssumption
  <2>2. QED
    BY <2>1, NumbersAssumption DEF Larger
<1>5. /\ endpoint' \in [deleted : BOOLEAN, enabled : BOOLEAN, current : Nat, failures : 0..MaxFailures,
                        quarantined : BOOLEAN, rest : Nat]
      /\ endpoint'.failures = n /\ endpoint'.current = endpoint.current
      /\ endpoint'.quarantined = (endpoint.quarantined \/ (Threshold > 0 /\ n >= Threshold))
  <2> DEFINE q == endpoint.quarantined \/ (Threshold > 0 /\ n >= Threshold)
             b == Larger(Cadence, Backoff(n, r))
  <2>1. endpoint' = [endpoint EXCEPT !.failures = n, !.rest = b, !.quarantined = q]
    BY <1>1
  <2>2. q \in BOOLEAN /\ b \in Nat /\ n \in 0..MaxFailures
    BY <1>3, <1>4
  <2>3. q = (endpoint.quarantined \/ (Threshold > 0 /\ n >= Threshold))
    OBVIOUS
  <2> HIDE DEF q, b
  <2>4. /\ endpoint' \in [deleted : BOOLEAN, enabled : BOOLEAN, current : Nat, failures : 0..MaxFailures,
                          quarantined : BOOLEAN, rest : Nat]
        /\ endpoint'.failures = n /\ endpoint'.current = endpoint.current /\ endpoint'.quarantined = q
    BY <1>3, <2>1, <2>2
  <2>5. QED
    BY <2>3, <2>4
<1>6. TypeOK'
  BY <1>2, <1>5, OneThread DEF IInv, TypeOK
<1>7. Seen' /\ Carried'
  BY <1>2, MovesKeep
<1>8. QuarantineFollowsCount'
  BY <1>3, <1>5, NumbersAssumption DEF IInv, QuarantineFollowsCount
<1>9. CurrentIsLatest' /\ CompletedNamesItsSnapshot'
  BY <1>2, <1>5 DEF IInv, CurrentIsLatest, CompletedNamesItsSnapshot, Latest
<1>10. QED
  BY <1>6, <1>7, <1>8, <1>9 DEF IInv

\* The limit copies what the run carries to the thread that is left behind.
LEMMA TimeLimitKeeps ==
  ASSUME IInv, TimeLimit
  PROVE  IInv'
<1> DEFINE j == caller[Sweep].job
           t == <<j, "drive">>
           left == IF thread[t].pc \in {"queued", "net"} THEN NoTask ELSE thread[t]
           fails == [NoTask EXCEPT !.pc = "failing"]
<1>1. /\ caller' = [caller EXCEPT ![Sweep].pc = "limited"]
      /\ thread' = [thread EXCEPT ![<<j, "late">>] = left, ![<<j, "drive">>] = fails]
      /\ UNCHANGED <<endpoint, versions, job, surface, lost>>
      /\ events' \in 0..MaxEvents
  BY NumbersAssumption DEF TimeLimit, Upset, IInv, TypeOK
<1>2. \A u \in Threads : \/ thread'[u] = thread[u]
                         \/ thread'[u].pc = "failing" /\ thread'[u] = fails
                         \/ thread'[u].pc = "none" /\ thread'[u] = NoTask
                         \/ t \in Threads /\ u[1] = j /\ thread'[u] = thread[t]
  <2>1. SUFFICES ASSUME NEW u \in Threads, thread'[u] # thread[u]
                 PROVE  \/ thread'[u].pc = "failing" /\ thread'[u] = fails
                        \/ thread'[u].pc = "none" /\ thread'[u] = NoTask
                        \/ t \in Threads /\ u[1] = j /\ thread'[u] = thread[t]
    OBVIOUS
  <2>2. u \in {<<j, "late">>, <<j, "drive">>} /\ u[1] = j /\ j \in Jobs
    BY <1>1, <2>1 DEF IInv, TypeOK, Threads
  <2>3. t \in Threads
    BY <2>2 DEF Threads
  <2>4. thread'[u] = left \/ thread'[u] = fails
    BY <1>1, <2>2 DEF IInv, TypeOK
  <2>5. fails.pc = "failing" /\ NoTask.pc = "none"
    BY DEF NoTask
  <2>6. QED
    BY <2>2, <2>3, <2>4, <2>5
<1>3. TypeOK'
  <2>1. /\ fails \in [pc : RunSteps, seen : Surfaces \cup {NoSurface}, version : Nat]
        /\ NoTask \in [pc : RunSteps, seen : Surfaces \cup {NoSurface}, version : Nat]
    BY DEF NoTask, RunSteps
  <2>2. thread' \in [Threads -> [pc : RunSteps, seen : Surfaces \cup {NoSurface}, version : Nat]]
    <3>1. thread' = [u \in Threads |-> thread'[u]]
      <4>1. thread = [u \in Threads |-> thread[u]]
        BY DEF IInv, TypeOK
      <4> HIDE DEF left, fails
      <4>2. QED
        BY <1>1, <4>1
    <3>2. \A u \in Threads : thread'[u] \in [pc : RunSteps, seen : Surfaces \cup {NoSurface}, version : Nat]
      BY <1>2, <2>1 DEF IInv, TypeOK
    <3>3. QED
      BY <3>1, <3>2
  <2>3. caller' \in [Callers -> [pc : {"idle", "ready", "looked", "driving", "limited"}, job : Jobs \cup {0}]]
    <3> DEFINE CallerOf == [pc : {"idle", "ready", "looked", "driving", "limited"}, job : Jobs \cup {0}]
    <3>1. caller \in [Callers -> CallerOf]
      BY DEF IInv, TypeOK
    <3>2. Sweep \in Callers => [caller[Sweep] EXCEPT !.pc = "limited"] \in CallerOf
      BY <3>1
    <3> HIDE DEF CallerOf
    <3>3. caller' \in [Callers -> CallerOf]
      BY <1>1, <3>1, <3>2
    <3>4. QED
      BY <3>3 DEF CallerOf
  <2>4. QED
    BY <1>1, <2>2, <2>3 DEF IInv, TypeOK
<1> HIDE DEF j, fails
<1>4. Seen'
  BY <1>2 DEF IInv, Seen
<1>5. Carried'
  <2>1. SUFFICES ASSUME NEW u \in Threads, thread'[u].pc \in {"touch", "finish"}, job[u[1]].state # "none"
                 PROVE  Names(thread'[u].version, thread'[u].seen)
    BY <1>1 DEF Carried, Names, Latest
  <2>2. CASE thread'[u] = thread[u]
    BY <2>1, <2>2 DEF IInv, Carried
  <2>3. CASE t \in Threads /\ u[1] = j /\ thread'[u] = thread[t]
    BY <2>1, <2>3 DEF IInv, Carried
  <2>4. QED
    BY <1>2, <2>1, <2>2, <2>3
<1>6. CompletedNamesItsSnapshot' /\ QuarantineFollowsCount' /\ CurrentIsLatest'
  BY <1>1 DEF IInv, CompletedNamesItsSnapshot, QuarantineFollowsCount, CurrentIsLatest, Latest
<1>7. QED
  BY <1>3, <1>4, <1>5, <1>6 DEF IInv

-----------------------------------------------------------------------------
LEMMA EndpointOnlyKeeps ==
  ASSUME IInv, Tick \/ \E b \in BOOLEAN : Enable(b)
  PROVE  IInv'
<1>1. UNCHANGED <<versions, job, thread, caller, surface, lost>> /\ events' \in 0..MaxEvents
  BY NumbersAssumption DEF Tick, Enable, World, Upset, IInv, TypeOK
<1>2. /\ endpoint' \in [deleted : BOOLEAN, enabled : BOOLEAN, current : Nat, failures : 0..MaxFailures,
                        quarantined : BOOLEAN, rest : Nat]
      /\ endpoint'.failures = endpoint.failures /\ endpoint'.current = endpoint.current
      /\ endpoint'.quarantined = endpoint.quarantined
  <2>1. endpoint \in [deleted : BOOLEAN, enabled : BOOLEAN, current : Nat, failures : 0..MaxFailures,
                      quarantined : BOOLEAN, rest : Nat]
    BY DEF IInv, TypeOK
  <2>2. CASE Tick
    <3>1. endpoint' = [endpoint EXCEPT !.rest = endpoint.rest - 1] /\ endpoint.rest - 1 \in Nat
      BY <2>1, <2>2 DEF Tick
    <3>2. QED
      BY <2>1, <3>1
  <2>3. CASE \E b \in BOOLEAN : Enable(b)
    BY <2>1, <2>3 DEF Enable
  <2>4. QED
    BY <2>2, <2>3
<1>3. TypeOK'
  BY <1>1, <1>2 DEF IInv, TypeOK
<1>4. Seen' /\ Carried' /\ CompletedNamesItsSnapshot'
  BY <1>1 DEF IInv, Seen, Carried, Names, CompletedNamesItsSnapshot, Latest
<1>5. QuarantineFollowsCount' /\ CurrentIsLatest'
  BY <1>1, <1>2 DEF IInv, QuarantineFollowsCount, CurrentIsLatest, Latest
<1>6. QED
  BY <1>3, <1>4, <1>5 DEF IInv

\* Snapshots and rows go at once, so nothing carried is owed any more.
LEMMA DeleteKeeps ==
  ASSUME IInv, Delete
  PROVE  IInv'
<1>1. /\ endpoint' = [endpoint EXCEPT !.deleted = TRUE, !.enabled = FALSE, !.current = 0]
      /\ versions' = <<>> /\ job' = [j \in Jobs |-> NoJob] /\ lost' = {}
      /\ UNCHANGED <<thread, caller, surface, events>>
  BY DEF Delete
<1>2. /\ endpoint' \in [deleted : BOOLEAN, enabled : BOOLEAN, current : Nat, failures : 0..MaxFailures,
                        quarantined : BOOLEAN, rest : Nat]
      /\ endpoint'.failures = endpoint.failures /\ endpoint'.current = 0
      /\ endpoint'.quarantined = endpoint.quarantined
  BY <1>1 DEF IInv, TypeOK
<1>3. \A j \in Jobs : job'[j].state = "none"
  BY <1>1 DEF NoJob
<1>4. TypeOK'
  BY <1>1, <1>2 DEF IInv, TypeOK, NoJob, JobStates
<1>5. \A u \in Threads : u[1] \in Jobs
  BY DEF Threads
<1>6. Seen' /\ Carried' /\ CompletedNamesItsSnapshot'
  BY <1>1, <1>3, <1>5 DEF IInv, Seen, Carried, CompletedNamesItsSnapshot
<1>7. QuarantineFollowsCount' /\ CurrentIsLatest'
  BY <1>1, <1>2 DEF IInv, QuarantineFollowsCount, CurrentIsLatest, Latest
<1>8. QED
  BY <1>4, <1>6, <1>7 DEF IInv

LEMMA RestartKeeps ==
  ASSUME IInv, Restart
  PROVE  IInv'
<1>1. /\ caller' = [c \in Callers |-> Resting] /\ thread' = [u \in Threads |-> NoTask]
      /\ UNCHANGED <<endpoint, versions, job, surface>>
      /\ lost' \subseteq Jobs /\ events' \in 0..MaxEvents
  BY NumbersAssumption DEF Restart, Upset, IInv, TypeOK
<1>2. TypeOK'
  BY <1>1 DEF IInv, TypeOK, Resting, NoTask, RunSteps
<1>3. Seen' /\ Carried'
  BY <1>1 DEF Seen, Carried, NoTask
<1>4. CompletedNamesItsSnapshot' /\ QuarantineFollowsCount' /\ CurrentIsLatest'
  BY <1>1 DEF IInv, CompletedNamesItsSnapshot, QuarantineFollowsCount, CurrentIsLatest, Latest
<1>5. QED
  BY <1>2, <1>3, <1>4 DEF IInv

-----------------------------------------------------------------------------
LEMMA StepKeeps == IInv /\ [Next]_vars => IInv'
<1> SUFFICES ASSUME IInv, [Next]_vars PROVE IInv'
  OBVIOUS
<1>1. ASSUME NEW c \in Callers, Request(c) \/ Enqueue(c) PROVE IInv'
  BY <1>1, CallsKeep, InsertKeeps DEF Enqueue, Calls
<1>2. CASE List \/ TickEnds \/ ServerChanges
  BY <1>2, CallsKeep DEF Calls
<1>3. ASSUME NEW t \in Threads, Run(t) PROVE IInv'
  BY <1>3, StartKeeps, DiscoverKeeps, GiveUpKeeps, ReadLatestKeeps, TouchKeeps, RecordKeeps,
     FinishKeeps, RecordFailureKeeps, FinishFailedKeeps DEF Run
<1>4. CASE Tick \/ \E b \in BOOLEAN : Enable(b)
  BY <1>4, EndpointOnlyKeeps
<1>5. CASE TimeLimit \/ Delete \/ Restart
  BY <1>5, TimeLimitKeeps, DeleteKeeps, RestartKeeps
<1>6. CASE UNCHANGED vars
  BY <1>6 DEF vars, IInv, TypeOK, Seen, Carried, Names, QuarantineFollowsCount, CurrentIsLatest,
              CompletedNamesItsSnapshot, Latest
<1>7. QED
  BY <1>1, <1>2, <1>3, <1>4, <1>5, <1>6 DEF Next

LEMMA Inductive == Spec => []IInv
  BY InitIInv, StepKeeps, PTL DEF Spec

(* The types, for every run of mcp_discovery_engine.py. *)
THEOREM Typed == Spec => []TypeOK
<1>1. IInv => TypeOK
  BY DEF IInv
<1>2. QED
  BY Inductive, <1>1, PTL

(* The quarantine and the failure count never part, whichever thread of
   whichever run writes the endpoint last. *)
THEOREM QuarantineTrue == Spec => []QuarantineFollowsCount
<1>1. IInv => QuarantineFollowsCount
  BY DEF IInv
<1>2. QED
  BY Inductive, <1>1, PTL

(* The endpoint's current snapshot is its latest one. *)
THEOREM CurrentTrue == Spec => []CurrentIsLatest
<1>1. IInv => CurrentIsLatest
  BY DEF IInv
<1>2. QED
  BY Inductive, <1>1, PTL

(* A completed job names the snapshot of what its own run saw, with any number
   of runs at once, deletions, time limits and restarts. *)
THEOREM CompletedTrue == Spec => []CompletedNamesItsSnapshot
<1>1. IInv => CompletedNamesItsSnapshot
  BY DEF IInv
<1>2. QED
  BY Inductive, <1>1, PTL
-----------------------------------------------------------------------------
(* What JobsEnd rests on: a job always has somebody to end it, and whoever  *)
(* that is only goes forward.  That the last step comes is fairness, and    *)
(* left to the run.                                                         *)

\* How far a run has come.
Rank(pc) ==
  CASE pc = "queued" -> 1 [] pc = "net" -> 2 [] pc = "read" -> 3 [] pc \in {"touch", "record"} -> 4
    [] pc = "finish" -> 5 [] pc = "failing" -> 6 [] pc = "failed" -> 7 [] pc = "none" -> 8

\* A job that has not ended has a run that will end it, unless it is lost.
NoJobIsStuck == \A j \in Jobs : Active(j) => j \in lost \/ thread[<<j, "drive">>].pc # "none"

\* A run takes up a job or goes on; only what comes from outside, a time limit
\* or a restart, of which there are so many, sets it back.
RunsGoForward ==
  [][\A t \in Threads : thread'[t] # thread[t] =>
       \/ Rank(thread'[t].pc) > Rank(thread[t].pc)
       \/ thread[t].pc = "none" /\ thread'[t].pc = "queued"
       \/ events' > events]_vars

Driven(j) ==
  /\ Active(j) => j \in lost \/ thread[<<j, "drive">>].pc # "none"
  /\ thread[<<j, "drive">>].pc = "queued" =>
       job[j].state \in {"none", "queued"} /\ thread[<<j, "late">>].pc = "none"
  /\ thread[<<j, "late">>].pc \notin {"queued", "net"}

\* Where a step takes a run.
LEMMA RunAdvances ==
  ASSUME TypeOK, NEW t \in Threads, Run(t)
  PROVE  /\ \A u \in Threads : u # t => thread'[u] = thread[u]
         /\ Rank(thread'[t].pc) > Rank(thread[t].pc) /\ events' = events
         /\ thread'[t].pc # "queued" /\ (thread'[t].pc = "net" => Start(t))
<1>1. DOMAIN thread = Threads
  BY DEF TypeOK
<1>2. thread[t] \in [pc : RunSteps, seen : Surfaces \cup {NoSurface}, version : Nat]
  BY DEF TypeOK
<1>3. \A pc \in RunSteps : Goes(t, pc) \/ Turns(t, pc) =>
        thread'[t].pc = pc /\ \A u \in Threads : u # t => thread'[u] = thread[u]
  BY OneThread
<1>4. {"net", "none", "failing", "finish", "failed"} \subseteq RunSteps
  BY DEF RunSteps
<1>5. events' = events
  BY DEF Run, Start, Discover, NetworkFails, ReadLatest, Touch, Record, PersistRaises, Finish,
         RecordFailure, FinishFailed, RecordingRaises, World
<1>6. CASE Start(t)
  <2>1. thread[t].pc = "queued" /\ (Goes(t, "net") \/ Turns(t, "none"))
    BY <1>6 DEF Start
  <2>2. thread'[t].pc \in {"net", "none"} /\ \A u \in Threads : u # t => thread'[u] = thread[u]
    BY <1>3, <1>4, <2>1
  <2>3. QED
    BY <1>5, <1>6, <2>1, <2>2 DEF Rank
<1>7. CASE Discover(t) \/ ReadLatest(t) \/ Record(t)
  <2>1. \/ thread[t].pc = "net" /\ thread'[t].pc = "read"
        \/ thread[t].pc = "read" /\ thread'[t].pc \in {"touch", "record"}
        \/ thread[t].pc = "record" /\ thread'[t].pc = "finish"
    BY <1>1, <1>2, <1>7 DEF Discover, ReadLatest, Record, Threads
  <2>2. \A u \in Threads : u # t => thread'[u] = thread[u]
    BY <1>1, <1>7 DEF Discover, ReadLatest, Record
  <2>3. QED
    BY <1>5, <2>1, <2>2 DEF Rank
<1>8. CASE NetworkFails(t) \/ Touch(t) \/ PersistRaises(t) \/ Finish(t)
  <2>1. \/ thread[t].pc = "net" /\ (Goes(t, "failing") \/ Turns(t, "failing"))
        \/ thread[t].pc = "touch" /\ (Goes(t, "finish") \/ Turns(t, "finish"))
        \/ thread[t].pc = "finish" /\ (Goes(t, "none") \/ Turns(t, "none"))
        \/ /\ thread[t].pc \in {"read", "touch", "record", "finish"}
           /\ \E pc \in {"failing", "none"} : Goes(t, pc) \/ Turns(t, pc)
    BY <1>8 DEF NetworkFails, Touch, PersistRaises, Finish
  <2>2. \/ thread[t].pc = "net" /\ thread'[t].pc = "failing"
        \/ thread[t].pc = "touch" /\ thread'[t].pc = "finish"
        \/ thread[t].pc = "finish" /\ thread'[t].pc = "none"
        \/ thread[t].pc \in {"read", "touch", "record", "finish"} /\ thread'[t].pc \in {"failing", "none"}
    BY <1>3, <1>4, <2>1
  <2>3. \A u \in Threads : u # t => thread'[u] = thread[u]
    BY <1>3, <1>4, <2>1
  <2>4. QED
    BY <1>5, <2>2, <2>3 DEF Rank
<1>9. CASE RecordFailure(t) \/ FinishFailed(t) \/ RecordingRaises(t)
  <2>1. \/ thread[t].pc = "failing" /\ (Goes(t, "failed") \/ Turns(t, "failed"))
        \/ thread[t].pc \in {"failing", "failed"} /\ (Goes(t, "none") \/ Turns(t, "none"))
    BY <1>9 DEF RecordFailure, FinishFailed, RecordingRaises
  <2>2. \/ thread[t].pc = "failing" /\ thread'[t].pc = "failed"
        \/ thread[t].pc \in {"failing", "failed"} /\ thread'[t].pc = "none"
    BY <1>3, <1>4, <2>1
  <2>3. \A u \in Threads : u # t => thread'[u] = thread[u]
    BY <1>3, <1>4, <2>1
  <2>4. QED
    BY <1>5, <2>2, <2>3 DEF Rank
<1>10. QED
  BY <1>6, <1>7, <1>8, <1>9 DEF Run

\* What a step of a run does to the jobs.
LEMMA RunDrives ==
  ASSUME TypeOK, NEW t \in Threads, Run(t), Driven(t[1])
  PROVE  /\ \A j \in Jobs : j # t[1] => job'[j] = job[j] /\ (j \in lost' <=> j \in lost)
         /\ t[1] \in lost => t[1] \in lost'
         /\ job'[t[1]].state \in {"queued", "running"} /\ t[2] = "late" =>
              job[t[1]].state \in {"queued", "running"}
         /\ t[2] = "drive" /\ thread'[t].pc = "none" => t[1] \in lost' \/ ~Active(t[1])'
<1> DEFINE i == t[1]
<1>1. i \in Jobs /\ DOMAIN thread = Threads /\ DOMAIN job = Jobs /\ (t[2] = "drive" => t = <<i, "drive">>)
      /\ (t[2] = "late" => t = <<i, "late">>)
  BY DEF TypeOK, Threads
<1>2. CASE Start(t)
  <2>1. lost' = lost /\ thread[t].pc = "queued"
    BY <1>2 DEF Start, World
  <2>2. t[2] # "late"
    BY <1>1, <2>1 DEF Driven
  <2>3. CASE job[i].state = "queued"
    BY <1>1, <1>2, <2>1, <2>2, <2>3 DEF Start, Goes, TypeOK
  <2>4. CASE job[i].state # "queued"
    <3>1. job' = job
      BY <1>2, <2>4 DEF Start
    <3>2. t[2] = "drive" => job[i].state = "none"
      BY <1>1, <2>1, <2>4 DEF Driven
    <3>3. QED
      BY <2>1, <2>2, <3>1, <3>2 DEF Active
  <2>5. QED
    BY <2>3, <2>4
<1>3. CASE Discover(t) \/ NetworkFails(t) \/ ReadLatest(t) \/ Touch(t) \/ Record(t) \/ RecordFailure(t)
  <2>1. job' = job /\ lost' = lost
    BY <1>3 DEF Discover, NetworkFails, ReadLatest, Touch, Record, RecordFailure, World
  <2>2. thread'[t].pc # "none"
    <3>1. CASE Discover(t) \/ ReadLatest(t) \/ Record(t)
      <4>1. thread[t] \in [pc : RunSteps, seen : Surfaces \cup {NoSurface}, version : Nat]
        BY DEF TypeOK
      <4>2. QED
        BY <1>1, <3>1, <4>1 DEF Discover, ReadLatest, Record
    <3>2. CASE NetworkFails(t) \/ Touch(t) \/ RecordFailure(t)
      <4>1. \E pc \in {"failing", "finish", "failed"} : Goes(t, pc) \/ Turns(t, pc)
        BY <3>2 DEF NetworkFails, Touch, RecordFailure
      <4>2. {"failing", "finish", "failed"} \subseteq RunSteps
        BY DEF RunSteps
      <4>3. QED
        BY <4>1, <4>2, OneThread
    <3>3. QED
      BY <1>3, <3>1, <3>2
  <2>3. QED
    BY <2>1, <2>2
<1>4. CASE PersistRaises(t)
  <2>1. job' = job /\ lost' = lost
    BY <1>4 DEF PersistRaises, World
  <2>2. t[2] = "drive" => thread'[t].pc # "none"
    BY <1>1, <1>4 DEF PersistRaises, Turns, NoTask
  <2>3. QED
    BY <2>1, <2>2
<1>5. CASE Finish(t) \/ FinishFailed(t)
  <2>1. lost' = lost
    BY <1>5 DEF Finish, FinishFailed, World
  <2>2. PICK row : Finished(i, row) /\ row.state \in {"completed", "failed"}
    BY <1>5 DEF Finish, FinishFailed
  <2>3. /\ \A j \in Jobs : j # i => job'[j] = job[j]
        /\ job'[i].state \in {"none", "completed", "failed"}
    BY <1>1, <2>2 DEF Finished
  <2>4. QED
    BY <2>1, <2>3 DEF Active
<1>6. CASE RecordingRaises(t)
  BY <1>6 DEF RecordingRaises
<1>7. QED
  BY <1>2, <1>3, <1>4, <1>5, <1>6 DEF Run

LEMMA StepDriven ==
  ASSUME IInv, \A j \in Jobs : Driven(j), [Next]_vars
  PROVE  \A j \in Jobs : Driven(j)'
<1>1. TypeOK /\ DOMAIN thread = Threads /\ DOMAIN job = Jobs
  BY DEF IInv, TypeOK
<1>2. \A j \in Jobs : <<j, "drive">> \in Threads /\ <<j, "late">> \in Threads
  BY DEF Threads
<1>3. ASSUME UNCHANGED <<job, thread, lost>> PROVE \A j \in Jobs : Driven(j)'
  BY <1>3 DEF Driven, Active
<1>4. ASSUME NEW t \in Threads, Run(t) PROVE \A j \in Jobs : Driven(j)'
  <2>1. t[1] \in Jobs /\ t = <<t[1], t[2]>> /\ t[2] \in {"drive", "late"}
    BY DEF Threads
  <2>2. /\ \A u \in Threads : u # t => thread'[u] = thread[u]
        /\ thread'[t].pc # "queued" /\ (thread'[t].pc = "net" => Start(t))
    BY <1>1, <1>4, RunAdvances
  <2>3. /\ \A j \in Jobs : j # t[1] => job'[j] = job[j] /\ (j \in lost' <=> j \in lost)
        /\ t[1] \in lost => t[1] \in lost'
        /\ job'[t[1]].state \in {"queued", "running"} /\ t[2] = "late" =>
             job[t[1]].state \in {"queued", "running"}
        /\ t[2] = "drive" /\ thread'[t].pc = "none" => t[1] \in lost' \/ ~Active(t[1])'
    BY <1>1, <1>4, <2>1, RunDrives
  <2>4. ASSUME NEW j \in Jobs, j # t[1] PROVE Driven(j)'
    <3>1. thread'[<<j, "drive">>] = thread[<<j, "drive">>] /\ thread'[<<j, "late">>] = thread[<<j, "late">>]
      BY <1>2, <2>1, <2>2, <2>4
    <3>2. QED
      BY <2>3, <2>4, <3>1 DEF Driven, Active
  <2>5. CASE t[2] = "drive"
    <3>1. thread'[<<t[1], "late">>] = thread[<<t[1], "late">>] /\ t = <<t[1], "drive">>
      BY <1>2, <2>1, <2>2, <2>5
    <3>2. Driven(t[1])'
      BY <2>1, <2>2, <2>3, <2>5, <3>1 DEF Driven
    <3>3. QED
      BY <2>4, <3>2
  <2>6. CASE t[2] = "late"
    <3>1. thread'[<<t[1], "drive">>] = thread[<<t[1], "drive">>] /\ t = <<t[1], "late">>
      BY <1>2, <2>1, <2>2, <2>6
    <3>2. ~Start(t) /\ thread[t].pc # "none"
      BY <1>4, <2>1, <3>1
      DEF Driven, Run, Start, Discover, NetworkFails, ReadLatest, Touch, Record, PersistRaises, Finish,
          RecordFailure, FinishFailed, RecordingRaises
    <3>3. Driven(t[1])'
      BY <2>1, <2>2, <2>3, <2>6, <3>1, <3>2 DEF Driven, Active
    <3>4. QED
      BY <2>4, <3>3
  <2>7. QED
    BY <2>1, <2>5, <2>6
<1>5. ASSUME NEW c \in Callers, Insert(c) PROVE \A j \in Jobs : Driven(j)'
  <2> DEFINE i == CHOOSE k \in Spare : TRUE
  <2>1. i \in Spare /\ i \in Jobs
    BY <1>5 DEF Insert, Spare
  <2>2. /\ job' = [job EXCEPT ![i] = [NoJob EXCEPT !.state = "queued"]]
        /\ thread' = [thread EXCEPT ![<<i, "drive">>] = [NoTask EXCEPT !.pc = "queued"]]
        /\ lost' = lost \ {i}
    BY <1>5 DEF Insert
  <2> HIDE DEF i
  <2>3. thread[<<i, "late">>].pc = "none"
    BY <2>1 DEF Spare
  <2>4. ASSUME NEW j \in Jobs PROVE Driven(j)'
    <3>1. CASE j = i
      BY <1>1, <1>2, <2>1, <2>2, <2>3, <3>1 DEF Driven, Active, NoJob, NoTask
    <3>2. CASE j # i
      BY <1>1, <1>2, <2>1, <2>2, <3>2 DEF Driven, Active
    <3>3. QED
      BY <3>1, <3>2
  <2>5. QED
    BY <2>4
<1>6. ASSUME TimeLimit PROVE \A j \in Jobs : Driven(j)'
  <2> DEFINE i == caller[Sweep].job
             r == thread[<<i, "drive">>]
  <2>1. /\ job' = job /\ lost' = lost /\ r.pc # "none"
        /\ thread' = [thread EXCEPT ![<<i, "late">>] = IF r.pc \in {"queued", "net"} THEN NoTask ELSE r,
                                    ![<<i, "drive">>] = [NoTask EXCEPT !.pc = "failing"]]
    BY <1>6 DEF TimeLimit
  <2> HIDE DEF i
  <2>2. ASSUME NEW j \in Jobs PROVE Driven(j)'
    <3>1. CASE j = i
      BY <1>1, <1>2, <2>1, <3>1 DEF Driven, Active, NoTask
    <3>2. CASE j # i
      BY <1>1, <1>2, <2>1, <3>2 DEF Driven, Active
    <3>3. QED
      BY <3>1, <3>2
  <2>3. QED
    BY <2>2
<1>7. ASSUME Delete PROVE \A j \in Jobs : Driven(j)'
  BY <1>7 DEF Delete, Driven, Active, NoJob
<1>8. ASSUME Restart PROVE \A j \in Jobs : Driven(j)'
  BY <1>2, <1>8 DEF Restart, Driven, Active, NoTask
<1>9. CASE \/ \E c \in Callers : Request(c) \/ Look(c)
           \/ List \/ TickEnds \/ ServerChanges \/ Tick \/ (\E b \in BOOLEAN : Enable(b)) \/ UNCHANGED vars
  BY <1>3, <1>9 DEF Request, Look, List, TickEnds, ServerChanges, Tick, Enable, World, vars
<1>10. QED
  BY <1>4, <1>5, <1>6, <1>7, <1>8, <1>9 DEF Next, Enqueue

(* A job that is queued or running is never left without a run that will end
   it, whatever time limits, deletions and other runs come in between, but for
   those a restart or a failure nobody could record has lost: the safety half
   of JobsEnd (run_discovery_job). *)
THEOREM NoJobForgotten == Spec => []NoJobIsStuck
<1>1. Init => \A j \in Jobs : Driven(j)
  <2> SUFFICES ASSUME Init, NEW j \in Jobs PROVE Driven(j)
    OBVIOUS
  <2>1. job[j].state = "none"
    BY DEF Init, NoJob
  <2>2. \A t \in Threads : thread[t].pc = "none"
    BY DEF Init, NoTask
  <2>3. thread[<<j, "drive">>].pc = "none" /\ thread[<<j, "late">>].pc = "none"
    BY <2>2 DEF Threads
  <2>4. QED
    BY <2>1, <2>3 DEF Driven, Active
<1>2. IInv /\ (\A j \in Jobs : Driven(j)) /\ [Next]_vars => (\A j \in Jobs : Driven(j))'
  BY StepDriven
<1>3. (\A j \in Jobs : Driven(j)) => NoJobIsStuck
  BY DEF Driven, NoJobIsStuck
<1>4. QED
  BY Inductive, <1>1, <1>2, <1>3, PTL DEF Spec

(* A run goes from one database method to the next and never back, so that it
   is over after a handful of steps: the other half of JobsEnd, but for the
   scheduling (_drive_discovery_job, _persist_outcome, _persist_failure). *)
THEOREM RunsNeverTurnBack == Spec => RunsGoForward
<1> DEFINE Forward == \A t \in Threads : thread'[t] # thread[t] =>
                        \/ Rank(thread'[t].pc) > Rank(thread[t].pc)
                        \/ thread[t].pc = "none" /\ thread'[t].pc = "queued"
                        \/ events' > events
<1>1. ASSUME IInv, Next PROVE Forward
  <2>1. TypeOK /\ DOMAIN thread = Threads /\ events \in Nat
    BY <1>1, NumbersAssumption DEF IInv, TypeOK
  <2>2. ASSUME NEW t \in Threads, Run(t) PROVE Forward
    BY <2>1, <2>2, RunAdvances
  <2>3. ASSUME NEW c \in Callers, Insert(c) PROVE Forward
    <3> DEFINE i == CHOOSE k \in Spare : TRUE
    <3>1. i \in Spare /\ i \in Jobs
      BY <2>3 DEF Insert, Spare
    <3>2. thread' = [thread EXCEPT ![<<i, "drive">>] = [NoTask EXCEPT !.pc = "queued"]]
      BY <2>3 DEF Insert
    <3> HIDE DEF i
    <3>3. thread[<<i, "drive">>].pc = "none" /\ <<i, "drive">> \in Threads
      BY <3>1 DEF Spare, Threads
    <3>4. QED
      BY <2>1, <3>2, <3>3 DEF NoTask
  <2>4. CASE TimeLimit \/ Restart
    BY <2>1, <2>4 DEF TimeLimit, Restart, Upset
  <2>5. CASE \/ \E c \in Callers : Request(c) \/ Look(c)
             \/ List \/ TickEnds \/ ServerChanges \/ Tick \/ Delete \/ \E b \in BOOLEAN : Enable(b)
    BY <2>5 DEF Request, Look, List, TickEnds, ServerChanges, Tick, Delete, Enable, World
  <2>6. QED
    BY <1>1, <2>2, <2>3, <2>4, <2>5 DEF Next, Enqueue
<1>2. IInv /\ [Next]_vars => [Forward]_vars
  BY <1>1
<1>3. QED
  BY Inductive, <1>2, PTL DEF Spec, RunsGoForward
=============================================================================
