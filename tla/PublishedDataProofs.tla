------------------------ MODULE PublishedDataProofs -------------------------
(***************************************************************************)
(* For all payloads, schemas and lengths of the log, and ONE REST process: *)
(* the events of a record are numbered without a gap, its snapshot is      *)
(* there exactly while it is not deleted and is what they replay to, and a *)
(* revision with data stays published.                                     *)
(* The argument: what a handler read before its last transaction is still  *)
(* so when it writes (Pending), because the process runs nothing else, the *)
(* Studio only edits classes, and a failure only ends the handler.         *)
(* With several processes the types stay, and no number is skipped.        *)
(***************************************************************************)
EXTENDS PublishedData, TLAPS

OneProcess == \A v, w \in Workers : v = w

Request == [op : Ops, schema : Schemas \cup {None},
            old : Payloads \cup {None}, new : Payloads \cup {None}, seq : Nat]

\* What restore_data_record puts back is a whole payload.
DeletedWhole ==
  \A i \in DOMAIN log : log[i].action = "deleted" => log[i].data \in Payloads

\* The next number, once it has been read.
Numbered(r) == r.seq \in {0, Len(log) + 1}

\* What the handler of w read is still so.
Pending ==
  \A w \in Workers :
    LET r == req[w] IN
    /\ r.op = "create"    => log = <<>> /\ r.new \in Payloads
    /\ r.op = "update"    => /\ snapshot # None /\ r.old = snapshot /\ Numbered(r)
                             /\ r.old \in Payloads /\ r.new \in Payloads
    /\ r.op = "delete"    => /\ snapshot # None /\ r.old = snapshot /\ Numbered(r)
                             /\ r.old \in Payloads
    /\ r.op = "restore"   => /\ log # <<>> /\ log[Len(log)].action = "deleted"
                             /\ r.seq = Len(log) + 1 /\ r.new \in Payloads
                             /\ r.new = log[Len(log)].data
    /\ r.op = "unpublish" => log = <<>>

IInv == TypeOK /\ LogIsNumbered /\ PresentUnlessDeleted /\ DeletedWhole /\ Pending

-----------------------------------------------------------------------------
(* The highest number of a log that is numbered is its length. *)
LEMMA HighestNumber ==
  ASSUME log \in Seq(Event), LogIsNumbered PROVE MaxSequence = Len(log)
<1>1. Len(log) \in Nat /\ DOMAIN log = 1..Len(log)
  OBVIOUS
<1>2. \A i \in DOMAIN log : log[i].seq = i
  BY DEF LogIsNumbered
<1>3. Numbers = 0..Len(log)
  BY <1>1, <1>2 DEF Numbers
<1>4. \A m \in Numbers : (\A n \in Numbers : n <= m) <=> m = Len(log)
  <2>1. ASSUME NEW L \in Nat, NEW m \in 0..L PROVE (\A n \in 0..L : n <= m) <=> m = L
    OBVIOUS
  <2>2. QED
    BY <1>1, <1>3, <2>1
<1>5. Len(log) \in Numbers
  BY <1>1, <1>3
<1>6. \A m : (m \in Numbers /\ \A n \in Numbers : n <= m) <=> m = Len(log)
  BY <1>4, <1>5
<1>7. QED
  BY <1>6, Zenon DEF MaxSequence

(* A delta says a value, null or nothing of each key. *)
LEMMA DeltaType ==
  ASSUME NEW old \in Payloads, NEW new \in Payloads PROVE Delta(old, new) \in Deltas
  BY DEF Payloads, Deltas, Delta

(* One more event with the next number, that is not a creation of a record
   that exists, keeps the log numbered; the others stay as they were. *)
LEMMA Appended ==
  ASSUME log \in Seq(Event), LogIsNumbered,
         NEW a \in Actions, NEW data \in Payloads \cup Deltas,
         Append1(Len(log) + 1, a, data),
         a = "created" <=> log = <<>>
  PROVE  /\ log' \in Seq(Event) /\ LogIsNumbered'
         /\ Len(log') = Len(log) + 1 /\ log' # <<>>
         /\ log'[Len(log')].action = a /\ log'[Len(log')].data = data
         /\ \A i \in DOMAIN log' : i # Len(log') => i \in DOMAIN log /\ log'[i] = log[i]
<1> DEFINE e == [seq |-> Len(log) + 1, action |-> a, data |-> data]
<1>1. e \in Event
  BY DEF Event
<1>2. log' = Append(log, e)
  BY DEF Append1
<1>3. log' \in Seq(Event) /\ Len(log') = Len(log) + 1
  BY <1>1, <1>2
<1>4. \A i \in 1..Len(log) : log'[i] = log[i]
  BY <1>1, <1>2
<1>5. log'[Len(log) + 1] = e
  BY <1>1, <1>2
<1>6. DOMAIN log' = 1..(Len(log) + 1) /\ DOMAIN log = 1..Len(log) /\ Len(log) \in Nat
  BY <1>3
<1>7. log = <<>> <=> Len(log) = 0
  OBVIOUS
<1>8. log' # <<>>
  BY <1>3, <1>6
<1>9. LogIsNumbered'
  <2> SUFFICES ASSUME NEW i \in DOMAIN log'
               PROVE  log'[i].seq = i /\ (log'[i].action = "created" <=> i = 1)
    BY DEF LogIsNumbered
  <2>1. CASE i \in DOMAIN log
    BY <1>4, <1>6, <2>1 DEF LogIsNumbered
  <2>2. CASE i = Len(log) + 1
    BY <1>5, <1>6, <1>7, <2>2
  <2>3. QED
    BY <1>6, <2>1, <2>2
<1>10. QED
  BY <1>3, <1>4, <1>5, <1>6, <1>8, <1>9

(* A handler that goes on or ends is a request. *)
LEMMA GoesType ==
  ASSUME TypeOK, NEW w \in Workers, NEW op \in Ops, NEW schema \in Schemas \cup {None},
         NEW old \in Payloads \cup {None}, NEW new \in Payloads \cup {None}, NEW seq \in Nat,
         Goes(w, op, schema, old, new, seq)
  PROVE  req' \in [Workers -> Request]
  BY DEF TypeOK, Goes, Request

LEMMA EndsType ==
  ASSUME TypeOK, NEW w \in Workers, Ends(w) PROVE req' \in [Workers -> Request]
  BY DEF TypeOK, Ends, Idle, Ops, Request

(* While no handler is between its reads and its write, or only w is. *)
LEMMA OthersIdle ==
  ASSUME OneProcess, TypeOK, NEW w \in Workers, Ends(w) PROVE Pending'
  BY DEF OneProcess, TypeOK, Ends, Idle, Pending, Numbered

-----------------------------------------------------------------------------
LEMMA InitIInv == Init => IInv
<1> SUFFICES ASSUME Init PROVE IInv
  OBVIOUS
<1>1. TypeOK
  <2>1. req \in [Workers -> Request]
    BY DEF Init, Idle, Ops, Request
  <2>2. log \in Seq(Event)
    BY DEF Init
  <2>3. QED
    BY <2>1, <2>2 DEF Init, TypeOK, Request
<1>2. LogIsNumbered /\ DeletedWhole
  BY DEF Init, LogIsNumbered, DeletedWhole
<1>3. PresentUnlessDeleted
  BY DEF Init, PresentUnlessDeleted
<1>4. Pending
  BY DEF Init, Pending, Idle
<1>5. QED
  BY <1>1, <1>2, <1>3, <1>4 DEF IInv

(* A handler of publication, an edit, a deletion or a failure leaves the log
   and the snapshot as they are. *)
LEMMA ElsewhereKeeps ==
  ASSUME IInv, TypeOK', Pending', UNCHANGED <<log, snapshot>> PROVE IInv'
  BY DEF IInv, LogIsNumbered, PresentUnlessDeleted, DeletedWhole

LEMMA PublicationKeeps ==
  ASSUME OneProcess, IInv, NEW w \in Workers, Publication(w) \/ Fails(w) PROVE IInv'
<1> USE DEF IInv, Free, Idle, Ops
<1>1. UNCHANGED <<log, snapshot>>
  BY DEF Publication, Fails, PublishRead, PublishWrite, FreezeRead, Capture,
         UnpublishRead, UnpublishWrite
<1>2. TypeOK'
  <2>1. req' \in [Workers -> Request]
    <3>1. CASE PublishRead(w) \/ UnpublishRead(w)
      BY <3>1, GoesType DEF PublishRead, UnpublishRead
    <3>2. CASE PublishWrite(w) \/ FreezeRead(w)
      BY <3>2, GoesType DEF PublishWrite, FreezeRead, TypeOK
    <3>3. CASE Capture(w) \/ UnpublishWrite(w) \/ Fails(w)
      BY <3>3, EndsType DEF Capture, UnpublishWrite, Fails
    <3>4. QED
      BY <3>1, <3>2, <3>3 DEF Publication
  <2>2. /\ live' \in BOOLEAN /\ published' \in BOOLEAN
        /\ class' \in Schemas \cup {None} /\ frozen' \in Schemas \cup {None}
    BY DEF Publication, Fails, PublishRead, PublishWrite, FreezeRead, Capture,
           UnpublishRead, UnpublishWrite, TypeOK
  <2>3. QED
    BY <1>1, <2>1, <2>2 DEF TypeOK, Request
<1>3. Pending'
  BY DEF Publication, Fails, PublishRead, PublishWrite, FreezeRead, Capture,
         UnpublishRead, UnpublishWrite, Goes, Ends, TypeOK, Pending, Numbered, OneProcess
<1>4. QED
  BY <1>1, <1>2, <1>3, ElsewhereKeeps

LEMMA DataReadsKeep ==
  ASSUME OneProcess, IInv, NEW w \in Workers,
         \/ \E d \in Docs : CreateRead(w, d) \/ UpdateRead(w, d)
         \/ DeleteRead(w) \/ NumberRead(w) \/ RestoreRead(w)
  PROVE  IInv'
<1> USE DEF IInv, Goes, Free, Idle, Ops
<1>1. UNCHANGED <<log, snapshot>>
  BY DEF CreateRead, UpdateRead, DeleteRead, NumberRead, RestoreRead
<1>2. MaxSequence = Len(log) /\ Len(log) \in Nat
  BY HighestNumber DEF TypeOK
<1>3. ASSUME NEW d \in Docs, CreateRead(w, d) \/ UpdateRead(w, d) PROVE TypeOK' /\ Pending'
  BY <1>3, DocsAssumption DEF CreateRead, UpdateRead, TypeOK, Pending, Numbered, OneProcess
<1>4. CASE DeleteRead(w)
  BY <1>1, <1>4, ElsewhereKeeps DEF DeleteRead, TypeOK, Pending, Numbered, OneProcess
<1>5. CASE NumberRead(w)
  BY <1>1, <1>2, <1>5, ElsewhereKeeps
     DEF NumberRead, NextSequence, TypeOK, Pending, Numbered, OneProcess
<1>6. CASE RestoreRead(w)
  <2>1. PICK i \in Latest : /\ log[i].action = "deleted"
                            /\ Goes(w, "restore", None, None, log[i].data, log[i].seq + 1)
    BY <1>6 DEF RestoreRead
  <2>2. i \in DOMAIN log /\ log[i].seq = i /\ i = Len(log) /\ log # <<>>
    BY <1>2, <2>1 DEF Latest, LogIsNumbered, TypeOK
  <2>3. log[i].data \in Payloads
    BY <2>1, <2>2 DEF DeletedWhole
  <2>4. TypeOK' /\ Pending'
    BY <1>1, <1>2, <1>6, <2>1, <2>2, <2>3
       DEF RestoreRead, TypeOK, Pending, Numbered, OneProcess
  <2>5. QED
    BY <1>1, <2>4, ElsewhereKeeps
<1>7. QED
  BY <1>1, <1>3, <1>4, <1>5, <1>6, ElsewhereKeeps

(* What the last transaction of a data handler does: one event, numbered next,
   and a snapshot that goes only with a deletion. *)
LEMMA WriteKeeps ==
  ASSUME OneProcess, IInv, NEW w \in Workers, Ends(w), UNCHANGED <<live, published, class, frozen>>,
         NEW a \in Actions, NEW data \in Payloads \cup Deltas,
         Append1(Len(log) + 1, a, data),
         a = "created" <=> log = <<>>,
         a = "deleted" => data \in Payloads,
         snapshot' \in Payloads \cup {None},
         snapshot' = None <=> a = "deleted"
  PROVE  IInv'
<1> USE DEF IInv
<1>1. /\ log' \in Seq(Event) /\ LogIsNumbered'
      /\ log' # <<>> /\ log'[Len(log')].action = a /\ log'[Len(log')].data = data
      /\ \A i \in DOMAIN log' : i # Len(log') => i \in DOMAIN log /\ log'[i] = log[i]
  BY Appended DEF TypeOK
<1>2. TypeOK'
  BY <1>1, EndsType DEF TypeOK, Request
<1>3. PresentUnlessDeleted'
  BY <1>1 DEF PresentUnlessDeleted
<1>4. DeletedWhole'
  BY <1>1 DEF DeletedWhole
<1>5. Pending'
  BY OthersIdle
<1>6. QED
  BY <1>1, <1>2, <1>3, <1>4, <1>5

LEMMA DataWritesKeep ==
  ASSUME OneProcess, IInv, NEW w \in Workers,
         CreateWrite(w) \/ UpdateWrite(w) \/ DeleteWrite(w) \/ RestoreWrite(w)
  PROVE  IInv'
<1> USE DEF Actions
<1>1. Len(log) \in Nat /\ (log = <<>> <=> Len(log) = 0) /\ None \notin Payloads
  BY MarkersAssumption DEF IInv, TypeOK
<1>2. snapshot # None => log # <<>> /\ snapshot \in Payloads
  BY DEF IInv, TypeOK, PresentUnlessDeleted
<1>3. CASE CreateWrite(w)
  <2>1. log = <<>> /\ req[w].new \in Payloads
    BY <1>3 DEF CreateWrite, IInv, Pending
  <2>2. Append1(Len(log) + 1, "created", req[w].new)
    BY <1>1, <1>3, <2>1 DEF CreateWrite
  <2>3. QED
    BY <1>1, <1>3, <2>1, <2>2, WriteKeeps DEF CreateWrite
<1>4. CASE UpdateWrite(w)
  <2>1. req[w].old \in Payloads /\ req[w].new \in Payloads /\ req[w].seq = Len(log) + 1
    BY <1>4 DEF UpdateWrite, IInv, Pending, Numbered
  <2>2. Append1(Len(log) + 1, "updated", Delta(req[w].old, req[w].new))
    BY <1>4, <2>1 DEF UpdateWrite
  <2>3. Delta(req[w].old, req[w].new) \in Deltas
    BY <2>1, DeltaType
  <2>4. snapshot' = req[w].new /\ Ends(w) /\ UNCHANGED <<live, published, class, frozen>> /\ log # <<>>
    BY <1>2, <1>4 DEF UpdateWrite
  <2>5. QED
    BY <1>1, <2>1, <2>2, <2>3, <2>4, WriteKeeps
<1>5. CASE DeleteWrite(w)
  <2>1. req[w].old \in Payloads /\ req[w].seq = Len(log) + 1 /\ log # <<>>
    BY <1>2, <1>5 DEF DeleteWrite, IInv, Pending, Numbered
  <2>2. Append1(Len(log) + 1, "deleted", req[w].old)
    BY <1>5, <2>1 DEF DeleteWrite
  <2>3. QED
    BY <1>5, <2>1, <2>2, WriteKeeps DEF DeleteWrite
<1>6. CASE RestoreWrite(w)
  <2>1. log # <<>> /\ req[w].seq = Len(log) + 1 /\ req[w].new \in Payloads
    BY <1>6 DEF RestoreWrite, IInv, Pending
  <2>2. Append1(Len(log) + 1, "restored", [k \in Keys |-> Same])
    BY <1>6, <2>1 DEF RestoreWrite
  <2>3. [k \in Keys |-> Same] \in Deltas
    BY DEF Deltas
  <2>4. QED
    BY <1>1, <1>6, <2>1, <2>2, <2>3, WriteKeeps DEF RestoreWrite
<1>7. QED
  BY <1>3, <1>4, <1>5, <1>6

LEMMA ElsewhereStepKeeps ==
  ASSUME IInv, \/ DeleteRevision
               \/ \E s \in Schemas \cup {None} : EditClass(s)
               \/ UNCHANGED vars
  PROVE  IInv'
<1>1. UNCHANGED <<log, snapshot, req>>
  BY DEF DeleteRevision, EditClass, vars
<1>2. TypeOK'
  BY <1>1 DEF IInv, TypeOK, DeleteRevision, EditClass, vars
<1>3. Pending'
  BY <1>1 DEF IInv, Pending, Numbered
<1>4. QED
  BY <1>1, <1>2, <1>3, ElsewhereKeeps

LEMMA StepIInv == ASSUME OneProcess, IInv, [Next]_vars PROVE IInv'
<1>1. ASSUME NEW w \in Workers, Publication(w) \/ Fails(w) PROVE IInv'
  BY <1>1, PublicationKeeps
<1>2. ASSUME NEW w \in Workers, Data(w) PROVE IInv'
  BY <1>2, DataReadsKeep, DataWritesKeep DEF Data
<1>3. QED
  BY <1>1, <1>2, ElsewhereStepKeeps DEF Next

-----------------------------------------------------------------------------
(* With one process the events of a record are numbered 1, 2, 3, ..., its
   creation first (insert_data_record, update_data_record and the others). *)
THEOREM EventsNumbered == ASSUME OneProcess PROVE Spec => []LogIsNumbered
<1>1. IInv /\ [Next]_vars => IInv'
  BY StepIInv
<1>2. IInv => LogIsNumbered
  BY DEF IInv
<1>3. QED
  BY InitIInv, <1>1, <1>2, PTL DEF Spec

(* With one process a record has a snapshot exactly while its last event is
   not a deletion. *)
THEOREM SnapshotFollowsLog == ASSUME OneProcess PROVE Spec => []PresentUnlessDeleted
<1>1. IInv /\ [Next]_vars => IInv'
  BY StepIInv
<1>2. IInv => PresentUnlessDeleted
  BY DEF IInv
<1>3. QED
  BY InitIInv, <1>1, <1>2, PTL DEF Spec

\* Only UnpublishWrite takes back a publication, and it found no data.
LEMMA StepKeepsPublication ==
  ASSUME IInv, [Next]_vars PROVE [published /\ ~published' => log = <<>>]_vars
<1>1. ASSUME NEW w \in Workers, Publication(w) \/ Data(w) \/ Fails(w), published, ~published'
      PROVE log = <<>>
  <2>1. UnpublishWrite(w)
    BY <1>1 DEF Publication, Data, Fails, PublishRead, PublishWrite, FreezeRead, Capture,
         UnpublishRead, CreateRead, UpdateRead, CreateWrite, UpdateWrite, DeleteRead,
         NumberRead, DeleteWrite, RestoreRead, RestoreWrite
  <2>2. QED
    BY <2>1 DEF UnpublishWrite, IInv, Pending
<1>2. QED
  BY <1>1 DEF Next, DeleteRevision, EditClass, vars

(* With one process a revision that has data is not unpublished, although the
   route looks for the data in one transaction and unpublishes in another. *)
THEOREM DataStaysPublished == ASSUME OneProcess PROVE Spec => DataKeepsPublication
<1>1. IInv /\ [Next]_vars => IInv'
  BY StepIInv
<1>2. IInv /\ [Next]_vars => [published /\ ~published' => log = <<>>]_vars
  BY StepKeepsPublication
<1>3. QED
  BY InitIInv, <1>1, <1>2, PTL DEF Spec, DataKeepsPublication

-----------------------------------------------------------------------------
(* Replaying.  Replay is computed along the log, and nothing here can do   *)
(* induction along it; so the invariant speaks of all functions that follow *)
(* the log: there is one, and whichever one takes, it ends in the record.   *)

IsReplay(after, l) ==
  after = [i \in 0..Len(l) |-> IF i = 0 THEN None ELSE Applied(after[i - 1], l[i])]

\* The payload of the record, the one it had when it is deleted.
Record == IF snapshot # None THEN snapshot ELSE log[Len(log)].data

Replays ==
  /\ \E after : IsReplay(after, log)
  /\ log # <<>> => \A after : IsReplay(after, log) => Nulled(after[Len(log)]) = Nulled(Record)

\* Replay is one of those functions.
LEMMA ReplayIsOne ==
  ASSUME \E after : IsReplay(after, log)
  PROVE  \E after : IsReplay(after, log) /\ Replay = after[Len(log)]
<1> DEFINE R(f) == f = [i \in 0..Len(log) |-> IF i = 0 THEN None ELSE Applied(f[i - 1], log[i])]
           g == CHOOSE f : R(f)
<1>1. \E f : R(f)
  BY DEF IsReplay
<1>2. R(g)
  BY <1>1
<1>3. Replay = g[Len(log)]
  BY DEF Replay
<1> HIDE DEF g
<1>4. QED
  BY <1>2, <1>3 DEF IsReplay

\* One more event goes on from where the log before it had led.
LEMMA ReplayAppended ==
  ASSUME NEW l, l \in Seq(Event), NEW e \in Event, NEW after, IsReplay(after, Append(l, e))
  PROVE  /\ IsReplay([i \in 0..Len(l) |-> after[i]], l)
         /\ after[Len(l) + 1] = Applied(after[Len(l)], e)
<1> DEFINE n == Len(l)
           m == Append(l, e)
           before == [i \in 0..n |-> after[i]]
<1>1. n \in Nat /\ Len(m) = n + 1 /\ m[n + 1] = e /\ \A i \in 1..n : m[i] = l[i]
  OBVIOUS
<1> HIDE DEF m, n
<1>2. after = [i \in 0..(n + 1) |-> IF i = 0 THEN None ELSE Applied(after[i - 1], m[i])]
  BY <1>1 DEF IsReplay, m
<1>3. after[n + 1] = Applied(after[n], e)
  <2>1. n + 1 \in 0..(n + 1) /\ n + 1 # 0 /\ (n + 1) - 1 = n
    BY <1>1
  <2>2. after[n + 1] = Applied(after[(n + 1) - 1], m[n + 1])
    BY <1>2, <2>1
  <2>3. QED
    BY <1>1, <2>1, <2>2
<1>4. ASSUME NEW i \in 0..n
      PROVE  before[i] = IF i = 0 THEN None ELSE Applied(before[i - 1], l[i])
  <2>1. i \in 0..(n + 1) /\ (i # 0 => i - 1 \in 0..n /\ i \in 1..n)
    BY <1>1
  <2>2. before[i] = IF i = 0 THEN None ELSE Applied(after[i - 1], m[i])
    BY <1>2, <2>1
  <2>3. i # 0 => before[i - 1] = after[i - 1] /\ m[i] = l[i]
    BY <1>1, <2>1
  <2>4. QED
    BY <2>2, <2>3
<1>5. before = [i \in 0..n |-> IF i = 0 THEN None ELSE Applied(before[i - 1], l[i])]
  BY <1>4
<1>6. QED
  BY <1>3, <1>5 DEF IsReplay, n

LEMMA ReplayExtended ==
  ASSUME NEW l, l \in Seq(Event), NEW e \in Event, NEW before, IsReplay(before, l)
  PROVE  \E after : IsReplay(after, Append(l, e))
<1> DEFINE n == Len(l)
           m == Append(l, e)
           after == [i \in 0..(n + 1) |-> IF i = n + 1 THEN Applied(before[n], e) ELSE before[i]]
<1>1. n \in Nat /\ Len(m) = n + 1 /\ m[n + 1] = e /\ \A i \in 1..n : m[i] = l[i]
  OBVIOUS
<1> HIDE DEF m, n
<1>2. before = [i \in 0..n |-> IF i = 0 THEN None ELSE Applied(before[i - 1], l[i])]
  BY DEF IsReplay, n
<1>3. ASSUME NEW i \in 0..(n + 1)
      PROVE  after[i] = IF i = 0 THEN None ELSE Applied(after[i - 1], m[i])
  <2>1. CASE i = n + 1
    <3>1. i # 0 /\ i - 1 = n /\ n \in 0..(n + 1) /\ n # n + 1
      BY <1>1, <2>1
    <3>2. after[i] = Applied(before[n], e) /\ after[n] = before[n]
      BY <2>1, <3>1
    <3>3. QED
      BY <1>1, <2>1, <3>1, <3>2
  <2>2. CASE i # n + 1
    <3>1. i \in 0..n /\ (i # 0 => i \in 1..n /\ i - 1 \in 0..(n + 1) /\ i - 1 # n + 1)
      BY <1>1, <2>2
    <3>2. after[i] = before[i] /\ (i # 0 => after[i - 1] = before[i - 1] /\ m[i] = l[i])
      BY <1>1, <2>2, <3>1
    <3>3. before[i] = IF i = 0 THEN None ELSE Applied(before[i - 1], l[i])
      BY <1>2, <3>1
    <3>4. QED
      BY <3>2, <3>3
  <2>3. QED
    BY <2>1, <2>2
<1>4. after = [i \in 0..(n + 1) |-> IF i = 0 THEN None ELSE Applied(after[i - 1], m[i])]
  BY <1>3
<1>5. IsReplay(after, m)
  BY <1>1, <1>4 DEF IsReplay
<1>6. QED
  BY <1>5 DEF m

\* A delta, applied, gives what it was computed for, whatever was null or gone.
LEMMA DeltaApplies ==
  ASSUME NEW old \in Payloads, NEW new \in Payloads, NEW doc, Nulled(doc) = Nulled(old),
         NEW seq
  PROVE  Nulled(Applied(doc, [seq |-> seq, action |-> "updated", data |-> Delta(old, new)]))
           = Nulled(new)
<1> DEFINE e == [seq |-> seq, action |-> "updated", data |-> Delta(old, new)]
           next == Applied(doc, e)
<1>1. next = [k \in Keys |-> IF Delta(old, new)[k] = Same THEN doc[k] ELSE Delta(old, new)[k]]
  BY DEF Applied
<1> HIDE DEF next
<1>2. ASSUME NEW k \in Keys PROVE Nulled(next)[k] = Nulled(new)[k]
  <2>1. /\ Nulled(next)[k] = IF next[k] = Absent THEN Null ELSE next[k]
        /\ Nulled(new)[k] = IF new[k] = Absent THEN Null ELSE new[k]
        /\ (IF doc[k] = Absent THEN Null ELSE doc[k]) = (IF old[k] = Absent THEN Null ELSE old[k])
    <3>1. \A f : Nulled(f)[k] = IF f[k] = Absent THEN Null ELSE f[k]
      BY DEF Nulled
    <3>2. Nulled(doc)[k] = Nulled(old)[k]
      OBVIOUS
    <3>3. QED
      BY <3>1, <3>2
  <2>2. new[k] \in Values \cup {Null, Absent}
    BY DEF Payloads
  <2>3. /\ next[k] = IF Delta(old, new)[k] = Same THEN doc[k] ELSE Delta(old, new)[k]
        /\ Delta(old, new)[k] = IF new[k] = old[k] THEN Same
                                ELSE IF new[k] = Absent THEN Null ELSE new[k]
    BY <1>1 DEF Delta
  <2>4. QED
    BY <2>1, <2>2, <2>3, MarkersAssumption
<1>3. QED
  BY <1>2 DEF Nulled, next

\* An event with the next number that leaves the record as its replay does.
LEMMA EventReplays ==
  ASSUME IInv, Replays, NEW a \in Actions, NEW data \in Payloads \cup Deltas,
         Append1(Len(log) + 1, a, data),
         a = "created" <=> log = <<>>,
         \A doc : log = <<>> \/ Nulled(doc) = Nulled(Record) =>
           Nulled(Applied(doc, [seq |-> Len(log) + 1, action |-> a, data |-> data]))
             = Nulled(Record')
  PROVE  Replays'
<1> DEFINE e == [seq |-> Len(log) + 1, action |-> a, data |-> data]
<1>1. log \in Seq(Event) /\ Len(log) \in Nat /\ e \in Event
  BY DEF IInv, TypeOK, Event
<1>2. log' = Append(log, e)
  BY DEF Append1
<1> HIDE DEF e
<1>3. Len(log') = Len(log) + 1
  BY <1>1, <1>2
<1>4. \E after : IsReplay(after, log')
  BY <1>1, <1>2, ReplayExtended DEF Replays
<1>5. ASSUME NEW after, IsReplay(after, log')
      PROVE  Nulled(after[Len(log')]) = Nulled(Record')
  <2> DEFINE before == [i \in 0..Len(log) |-> after[i]]
  <2>1. IsReplay(before, log) /\ after[Len(log) + 1] = Applied(after[Len(log)], e)
    BY <1>1, <1>2, <1>5, ReplayAppended
  <2>2. before[Len(log)] = after[Len(log)]
    BY <1>1
  <2>3. log = <<>> \/ Nulled(after[Len(log)]) = Nulled(Record)
    BY <2>1, <2>2 DEF Replays
  <2>4. QED
    BY <1>3, <2>1, <2>3 DEF e
<1>6. QED
  BY <1>4, <1>5 DEF Replays

LEMMA WritesReplay ==
  ASSUME OneProcess, IInv, Replays, NEW w \in Workers,
         CreateWrite(w) \/ UpdateWrite(w) \/ DeleteWrite(w) \/ RestoreWrite(w)
  PROVE  Replays'
<1> USE DEF Actions
<1>1. Len(log) \in Nat /\ (log = <<>> <=> Len(log) = 0) /\ None \notin Payloads /\ log \in Seq(Event)
  BY MarkersAssumption DEF IInv, TypeOK
<1>2. snapshot # None => log # <<>> /\ snapshot \in Payloads
  BY DEF IInv, TypeOK, PresentUnlessDeleted
<1>3. CASE CreateWrite(w)
  <2>1. log = <<>> /\ req[w].new \in Payloads
    BY <1>3 DEF IInv, Pending, CreateWrite
  <2>2. Append1(Len(log) + 1, "created", req[w].new) /\ Record' = req[w].new
    BY <1>1, <1>3, <2>1 DEF CreateWrite, Record
  <2>3. \A doc, seq : Applied(doc, [seq |-> seq, action |-> "created", data |-> req[w].new]) = req[w].new
    BY DEF Applied
  <2>4. QED
    BY <2>1, <2>2, <2>3, EventReplays
<1>4. CASE UpdateWrite(w)
  <2>1. /\ req[w].old \in Payloads /\ req[w].new \in Payloads /\ req[w].seq = Len(log) + 1
        /\ req[w].old = snapshot /\ snapshot # None
    BY <1>4 DEF UpdateWrite, IInv, Pending, Numbered
  <2>2. /\ Append1(Len(log) + 1, "updated", Delta(req[w].old, req[w].new))
        /\ Record' = req[w].new /\ Record = req[w].old
    BY <1>1, <1>4, <2>1 DEF UpdateWrite, Record
  <2>3. Delta(req[w].old, req[w].new) \in Deltas
    BY <2>1, DeltaType
  <2>4. ASSUME NEW doc, Nulled(doc) = Nulled(Record)
        PROVE  Nulled(Applied(doc, [seq |-> Len(log) + 1, action |-> "updated",
                                    data |-> Delta(req[w].old, req[w].new)])) = Nulled(Record')
    BY <2>1, <2>2, <2>4, DeltaApplies
  <2>5. QED
    BY <1>2, <2>1, <2>2, <2>3, <2>4, EventReplays
<1>5. CASE DeleteWrite(w)
  <2>1. req[w].old \in Payloads /\ req[w].old = snapshot /\ snapshot # None /\ req[w].seq = Len(log) + 1
    BY <1>5 DEF DeleteWrite, IInv, Pending, Numbered
  <2>2. Append1(Len(log) + 1, "deleted", req[w].old) /\ snapshot' = None
    BY <1>5, <2>1 DEF DeleteWrite
  <2>3. log'[Len(log')].data = req[w].old
    BY <1>2, <2>1, <2>2, Appended DEF IInv, TypeOK
  <2>4. Record = req[w].old /\ Record' = req[w].old
    BY <2>1, <2>2, <2>3 DEF Record
  <2>5. \A doc, seq : Applied(doc, [seq |-> seq, action |-> "deleted", data |-> req[w].old]) = doc
    BY DEF Applied
  <2>6. QED
    BY <1>2, <2>1, <2>2, <2>4, <2>5, EventReplays
<1>6. CASE RestoreWrite(w)
  <2>1. /\ log # <<>> /\ req[w].seq = Len(log) + 1 /\ req[w].new \in Payloads
        /\ req[w].new = log[Len(log)].data
    BY <1>6 DEF RestoreWrite, IInv, Pending
  <2>2. /\ Append1(Len(log) + 1, "restored", [k \in Keys |-> Same])
        /\ Record' = req[w].new /\ Record = req[w].new
    BY <1>1, <1>6, <2>1 DEF RestoreWrite, Record
  <2>3. [k \in Keys |-> Same] \in Deltas
    BY DEF Deltas
  <2>4. \A doc, seq, data : Applied(doc, [seq |-> seq, action |-> "restored", data |-> data]) = doc
    BY DEF Applied
  <2>5. QED
    BY <2>1, <2>2, <2>3, <2>4, EventReplays
<1>7. QED
  BY <1>3, <1>4, <1>5, <1>6

LEMMA StepReplays ==
  ASSUME OneProcess, IInv, Replays, [Next]_vars PROVE Replays'
<1>1. ASSUME UNCHANGED <<log, snapshot>> PROVE Replays'
  BY <1>1 DEF Replays, Record
<1>2. ASSUME NEW w \in Workers, Publication(w) \/ Fails(w) PROVE UNCHANGED <<log, snapshot>>
  BY <1>2 DEF Publication, Fails, PublishRead, PublishWrite, FreezeRead, Capture,
              UnpublishRead, UnpublishWrite
<1>3. ASSUME NEW w \in Workers, Data(w)
      PROVE  \/ UNCHANGED <<log, snapshot>>
             \/ CreateWrite(w) \/ UpdateWrite(w) \/ DeleteWrite(w) \/ RestoreWrite(w)
  BY <1>3 DEF Data, CreateRead, UpdateRead, DeleteRead, NumberRead, RestoreRead
<1>4. DeleteRevision \/ (\E s \in Schemas \cup {None} : EditClass(s)) \/ UNCHANGED vars
        => UNCHANGED <<log, snapshot>>
  BY DEF DeleteRevision, EditClass, vars
<1>5. QED
  BY <1>1, <1>2, <1>3, <1>4, WritesReplay DEF Next

LEMMA InitReplays == Init => Replays
<1> SUFFICES ASSUME Init PROVE Replays
  OBVIOUS
<1>1. log = <<>>
  BY DEF Init
<1> DEFINE start == [i \in 0..0 |-> None]
<1>2. start = [i \in 0..0 |-> IF i = 0 THEN None ELSE Applied(start[i - 1], log[i])]
  OBVIOUS
<1>3. Len(log) = 0
  BY <1>1
<1>4. IsReplay(start, log)
  BY <1>2, <1>3 DEF IsReplay
<1>5. QED
  BY <1>1, <1>4 DEF Replays

(* With one process the snapshot of a record is what its events replay to:
   each delta (_compute_delta) is taken against the snapshot it replaces, and a
   restoration brings back what the newest event, the deletion, kept. *)
THEOREM SnapshotReplays == ASSUME OneProcess PROVE Spec => []SnapshotIsReplay
<1>1. IInv /\ Replays /\ [Next]_vars => (IInv /\ Replays)'
  BY StepIInv, StepReplays
<1>2. ASSUME IInv, Replays PROVE SnapshotIsReplay
  <2> SUFFICES ASSUME snapshot # None PROVE Nulled(snapshot) = Nulled(Replay)
    BY DEF SnapshotIsReplay
  <2>1. log # <<>> /\ Record = snapshot
    BY <1>2 DEF IInv, PresentUnlessDeleted, Record
  <2>2. PICK after : IsReplay(after, log) /\ Replay = after[Len(log)]
    BY <1>2, ReplayIsOne DEF Replays
  <2>3. QED
    BY <1>2, <2>1, <2>2 DEF Replays
<1>3. IInv /\ Replays => SnapshotIsReplay
  BY <1>2
<1>4. QED
  BY InitIInv, InitReplays, <1>1, <1>3, PTL DEF Spec
-----------------------------------------------------------------------------
(* Any number of processes                                                 *)

\* The events have the numbers up to some highest one, all of them.
NoNumberSkipped == \E m \in Nat : Numbers = 0..m

\* What a handler carries, out of date or not.
Carried(w) ==
  LET r == req[w] IN
  /\ r.op \in {"create", "update", "restore"} => r.new \in Payloads
  /\ r.op \in {"update", "delete"} => r.old \in Payloads
  /\ r.op \in {"update", "delete"} => r.seq \in 0..(MaxSequence + 1)
  /\ r.op = "restore" => r.seq \in 1..(MaxSequence + 1)

AnyInv == TypeOK /\ DeletedWhole /\ NoNumberSkipped /\ \A w \in Workers : Carried(w)

LEMMA TopNumber ==
  ASSUME NoNumberSkipped PROVE MaxSequence \in Nat /\ Numbers = 0..MaxSequence
<1>1. PICK m \in Nat : Numbers = 0..m
  BY DEF NoNumberSkipped
<1>2. \A k : (k \in Numbers /\ \A n \in Numbers : n <= k) <=> k = m
  BY <1>1
<1>3. MaxSequence = m
  BY <1>2, Zenon DEF MaxSequence
<1>4. QED
  BY <1>1, <1>3

LEMMA InitAnyInv == Init => AnyInv
<1> SUFFICES ASSUME Init PROVE AnyInv
  OBVIOUS
<1>1. TypeOK /\ DeletedWhole
  BY InitIInv DEF IInv
<1>2. DOMAIN log = {}
  BY DEF Init
<1>3. Numbers = 0..0
  BY <1>2 DEF Numbers
<1>4. \A w \in Workers : Carried(w)
  BY DEF Init, Carried, Idle
<1>5. QED
  BY <1>1, <1>3, <1>4 DEF AnyInv, NoNumberSkipped

\* An event whose number is at most the next one.
LEMMA AnyAppend ==
  ASSUME AnyInv, NEW w \in Workers, Ends(w), UNCHANGED <<live, published, class, frozen>>,
         NEW seq \in 1..(MaxSequence + 1), NEW a \in Actions, NEW data \in Payloads \cup Deltas,
         Append1(seq, a, data), a = "deleted" => data \in Payloads,
         snapshot' \in Payloads \cup {None}
  PROVE  AnyInv'
<1> DEFINE e == [seq |-> seq, action |-> a, data |-> data]
<1>1. MaxSequence \in Nat /\ Numbers = 0..MaxSequence
  BY TopNumber DEF AnyInv
<1>2. log \in Seq(Event) /\ log' = Append(log, e) /\ e \in Event
  BY <1>1 DEF AnyInv, TypeOK, Append1, Event
<1>3. /\ log' \in Seq(Event) /\ DOMAIN log' = DOMAIN log \cup {Len(log) + 1}
      /\ log'[Len(log) + 1] = e /\ Len(log) + 1 \notin DOMAIN log
      /\ \A i \in DOMAIN log : log'[i] = log[i]
  <2>1. Len(log) \in Nat /\ DOMAIN log = 1..Len(log) /\ DOMAIN log' = 1..(Len(log) + 1)
    BY <1>2
  <2>2. QED
    BY <1>2, <2>1
<1>4. Numbers' = Numbers \cup {seq}
  <2>1. Numbers' = {log'[i].seq : i \in DOMAIN log'} \cup {0}
    BY DEF Numbers
  <2>2. e.seq = seq
    OBVIOUS
  <2>3. QED
    BY <1>3, <2>1, <2>2 DEF Numbers
<1>5. Numbers' = 0..(IF seq = MaxSequence + 1 THEN seq ELSE MaxSequence)
  BY <1>1, <1>4
<1>6. PICK m \in Nat : Numbers' = 0..m /\ m >= MaxSequence
  BY <1>1, <1>5
<1>7. MaxSequence' = m /\ NoNumberSkipped'
  <2>1. \A k : (k \in Numbers' /\ \A n \in Numbers' : n <= k) <=> k = m
    BY <1>6
  <2>2. MaxSequence' = m
    BY <2>1, Zenon DEF MaxSequence
  <2>3. QED
    BY <1>6, <2>2 DEF NoNumberSkipped
<1>8. DeletedWhole'
  BY <1>3 DEF AnyInv, DeletedWhole
<1>9. TypeOK'
  BY <1>3, EndsType DEF AnyInv, TypeOK, Request
<1>10. ASSUME NEW v \in Workers PROVE Carried(v)'
  <2>1. CASE v = w
    BY <2>1 DEF AnyInv, TypeOK, Ends, Carried, Idle
  <2>2. CASE v # w
    <3>1. req'[v] = req[v]
      BY <2>2 DEF AnyInv, TypeOK, Ends
    <3>2. QED
      BY <1>1, <1>6, <1>7, <3>1 DEF AnyInv, Carried
  <2>3. QED
    BY <2>1, <2>2
<1>11. QED
  BY <1>7, <1>8, <1>9, <1>10 DEF AnyInv

\* A handler that only goes on or ends.
LEMMA AnyMoves ==
  ASSUME AnyInv, NEW w \in Workers, NEW r \in Request, req' = [req EXCEPT ![w] = r],
         r.op \in {"create", "update", "restore"} => r.new \in Payloads,
         r.op \in {"update", "delete"} => r.old \in Payloads,
         r.op \in {"update", "delete"} => r.seq \in 0..(MaxSequence + 1),
         r.op = "restore" => r.seq \in 1..(MaxSequence + 1),
         UNCHANGED <<log, snapshot>>,
         live' \in BOOLEAN, published' \in BOOLEAN,
         class' \in Schemas \cup {None}, frozen' \in Schemas \cup {None}
  PROVE  AnyInv'
<1>1. MaxSequence' = MaxSequence /\ DeletedWhole' /\ NoNumberSkipped'
  BY DEF AnyInv, MaxSequence, Numbers, DeletedWhole, NoNumberSkipped
<1>2. req'[w] = r /\ req' \in [Workers -> Request] /\ \A v \in Workers \ {w} : req'[v] = req[v]
  BY DEF AnyInv, TypeOK, Request
<1>3. TypeOK'
  BY <1>2 DEF AnyInv, TypeOK, Request
<1>4. \A v \in Workers : Carried(v)'
  BY <1>1, <1>2 DEF AnyInv, Carried
<1>5. QED
  BY <1>1, <1>3, <1>4 DEF AnyInv

LEMMA StepAnyInv == ASSUME AnyInv, [Next]_vars PROVE AnyInv'
<1>1. /\ TypeOK /\ req \in [Workers -> Request] /\ MaxSequence \in Nat /\ Numbers = 0..MaxSequence
      /\ Idle \in Request /\ Idle.op = "idle"
      /\ live \in BOOLEAN /\ published \in BOOLEAN
      /\ class \in Schemas \cup {None} /\ frozen \in Schemas \cup {None}
      /\ log \in Seq(Event) /\ snapshot \in Payloads \cup {None}
  BY TopNumber DEF AnyInv, TypeOK, Request, Idle, Ops
<1>2. ASSUME NEW w \in Workers, Publication(w) \/ Fails(w) PROVE AnyInv'
  <2>1. PICK op \in {"publish", "capture", "unpublish", "idle"}, schema \in Schemas \cup {None} :
          req' = [req EXCEPT ![w] = [op |-> op, schema |-> schema, old |-> None, new |-> None, seq |-> 0]]
    BY <1>1, <1>2 DEF Publication, Fails, PublishRead, PublishWrite, FreezeRead, Capture,
                      UnpublishRead, UnpublishWrite, Goes, Ends, Idle
  <2> DEFINE r == [op |-> op, schema |-> schema, old |-> None, new |-> None, seq |-> 0]
  <2>2. r \in Request /\ r.op \in {"publish", "capture", "unpublish", "idle"}
    BY DEF Request, Ops
  <2>3. /\ UNCHANGED <<log, snapshot>> /\ live' \in BOOLEAN /\ published' \in BOOLEAN
        /\ class' \in Schemas \cup {None} /\ frozen' \in Schemas \cup {None}
    BY <1>1, <1>2 DEF Publication, Fails, PublishRead, PublishWrite, FreezeRead, Capture,
                      UnpublishRead, UnpublishWrite, Request
  <2>4. req' = [req EXCEPT ![w] = r]
    BY <2>1
  <2> HIDE DEF r
  <2>5. QED
    BY <2>2, <2>3, <2>4, AnyMoves
<1>3. ASSUME NEW w \in Workers, NEW op \in {"create", "update", "delete", "restore"},
             NEW old \in Payloads \cup {None}, NEW new \in Payloads \cup {None},
             NEW seq \in 0..(MaxSequence + 1), Goes(w, op, None, old, new, seq),
             op # "delete" => new \in Payloads, op = "restore" => seq # 0, op \in {"update", "delete"} => old \in Payloads,
             UNCHANGED <<live, published, class, frozen, log, snapshot>>
      PROVE  AnyInv'
  <2> DEFINE r == [op |-> op, schema |-> None, old |-> old, new |-> new, seq |-> seq]
  <2>1. r \in Request /\ r.op = op /\ r.old = old /\ r.new = new /\ r.seq = seq
    BY <1>1 DEF Request, Ops
  <2>2. req' = [req EXCEPT ![w] = r]
    BY <1>3 DEF Goes
  <2>3. op = "restore" => seq \in 1..(MaxSequence + 1)
    BY <1>1, <1>3
  <2>4. r.op \in {"create", "update", "restore"} => r.new \in Payloads
    BY <1>3, <2>1
  <2> HIDE DEF r
  <2>5. QED
    BY <1>1, <1>3, <2>1, <2>2, <2>3, <2>4, AnyMoves
<1>4. ASSUME NEW w \in Workers, NEW d \in Docs, CreateRead(w, d) \/ UpdateRead(w, d) PROVE AnyInv'
  <2>1. d \in Payloads /\ 0 \in 0..(MaxSequence + 1) /\ 1 \in 0..(MaxSequence + 1)
    BY <1>1, DocsAssumption
  <2>2. CASE CreateRead(w, d)
    BY <1>3, <2>1, <2>2 DEF CreateRead
  <2>3. CASE UpdateRead(w, d)
    BY <1>1, <1>3, <2>1, <2>3 DEF UpdateRead
  <2>4. QED
    BY <1>4, <2>2, <2>3
<1>5. ASSUME NEW w \in Workers, DeleteRead(w) PROVE AnyInv'
  <2>1. 0 \in 0..(MaxSequence + 1) /\ snapshot \in Payloads
    BY <1>1, <1>5 DEF DeleteRead
  <2>2. QED
    BY <1>3, <1>5, <2>1 DEF DeleteRead
<1>6. ASSUME NEW w \in Workers, NumberRead(w) PROVE AnyInv'
  <2> DEFINE r == [req[w] EXCEPT !.seq = NextSequence]
  <2>1. NextSequence \in Nat /\ NextSequence \in 0..(MaxSequence + 1) /\ req[w] \in Request
    BY <1>1 DEF NextSequence
  <2>2. r \in Request /\ r.op = req[w].op /\ r.old = req[w].old /\ r.new = req[w].new
          /\ r.seq = NextSequence
    BY <2>1 DEF Request
  <2>3. req' = [req EXCEPT ![w] = r] /\ Carried(w) /\ req[w].op \in {"update", "delete"}
    BY <1>6 DEF NumberRead, AnyInv
  <2> HIDE DEF r
  <2>4. QED
    BY <1>1, <1>6, <2>1, <2>2, <2>3, AnyMoves DEF NumberRead, Carried
<1>7. ASSUME NEW w \in Workers, RestoreRead(w) PROVE AnyInv'
  <2>1. PICK i \in Latest : /\ log[i].action = "deleted"
                            /\ Goes(w, "restore", None, None, log[i].data, log[i].seq + 1)
    BY <1>7 DEF RestoreRead
  <2>2. log[i].data \in Payloads /\ log[i].seq = MaxSequence
    BY <2>1 DEF Latest, AnyInv, DeletedWhole
  <2>3. log[i].seq + 1 \in 0..(MaxSequence + 1) /\ log[i].seq + 1 # 0
    BY <1>1, <2>2
  <2>4. QED
    BY <1>3, <1>7, <2>1, <2>2, <2>3 DEF RestoreRead
<1>8. ASSUME NEW w \in Workers, CreateWrite(w) \/ UpdateWrite(w) \/ DeleteWrite(w) \/ RestoreWrite(w)
      PROVE  AnyInv'
  <2>1. Carried(w) /\ req[w] \in Request /\ {"created", "updated", "deleted", "restored"} = Actions
    BY <1>1 DEF AnyInv, Actions
  <2>2. CASE CreateWrite(w)
    <3>1. req[w].new \in Payloads /\ 1 \in 1..(MaxSequence + 1)
      BY <1>1, <2>1, <2>2 DEF CreateWrite, Carried
    <3>2. QED
      BY <2>1, <2>2, <3>1, AnyAppend DEF CreateWrite
  <2>3. CASE UpdateWrite(w)
    <3>1. req[w].new \in Payloads /\ req[w].old \in Payloads /\ req[w].seq \in 1..(MaxSequence + 1)
      BY <1>1, <2>1, <2>3 DEF UpdateWrite, Carried
    <3>2. Delta(req[w].old, req[w].new) \in Deltas
      BY <3>1, DeltaType
    <3>3. QED
      BY <2>1, <2>3, <3>1, <3>2, AnyAppend DEF UpdateWrite
  <2>4. CASE DeleteWrite(w)
    <3>1. req[w].old \in Payloads /\ req[w].seq \in 1..(MaxSequence + 1)
      BY <1>1, <2>1, <2>4 DEF DeleteWrite, Carried
    <3>2. QED
      BY <2>1, <2>4, <3>1, AnyAppend DEF DeleteWrite
  <2>5. CASE RestoreWrite(w)
    <3>1. req[w].new \in Payloads /\ req[w].seq \in 1..(MaxSequence + 1)
      BY <1>1, <2>1, <2>5 DEF RestoreWrite, Carried
    <3>2. [k \in Keys |-> Same] \in Deltas
      BY DEF Deltas
    <3>3. QED
      BY <2>1, <2>5, <3>1, <3>2, AnyAppend DEF RestoreWrite
  <2>6. QED
    BY <1>8, <2>2, <2>3, <2>4, <2>5
<1>9. CASE DeleteRevision \/ (\E s \in Schemas \cup {None} : EditClass(s)) \/ UNCHANGED vars
  <2>1. UNCHANGED <<log, snapshot, req>>
    BY <1>9 DEF DeleteRevision, EditClass, vars
  <2>2. TypeOK'
    BY <1>1, <1>9, <2>1 DEF TypeOK, DeleteRevision, EditClass, vars
  <2>3. MaxSequence' = MaxSequence /\ NoNumberSkipped' /\ DeletedWhole'
    BY <2>1 DEF AnyInv, DeletedWhole, NoNumberSkipped, MaxSequence, Numbers
  <2>4. \A w \in Workers : Carried(w)'
    BY <2>1, <2>3 DEF AnyInv, Carried
  <2>5. QED
    BY <2>2, <2>3, <2>4 DEF AnyInv
<1>10. QED
  BY <1>2, <1>4, <1>5, <1>6, <1>7, <1>8, <1>9 DEF Next, Data

(* Every variable keeps its type, with any number of processes. *)
THEOREM TypesHold == Spec => []TypeOK
<1>1. AnyInv => TypeOK
  BY DEF AnyInv
<1>2. QED
  BY InitAnyInv, StepAnyInv, <1>1, PTL DEF Spec

(* What is left of the numbering when several processes write one record: two
   events may get the same number, as it is read before a row is locked, but
   no number is ever skipped (data_record.record_sequence). *)
THEOREM NumbersWithoutGap == Spec => []NoNumberSkipped
<1>1. AnyInv => NoNumberSkipped
  BY DEF AnyInv
<1>2. QED
  BY InitAnyInv, StepAnyInv, <1>1, PTL DEF Spec
=============================================================================
