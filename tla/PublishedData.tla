--------------------------- MODULE PublishedData ----------------------------
(***************************************************************************)
(* Publication of one revision, the frozen schema of one of its classes,   *)
(* and one data record that follows that schema (versions_routes.py,       *)
(* data_routes.py, the methods under them in database.py, and the Studio,  *)
(* which edits classes from a process of its own).                         *)
(*                                                                         *)
(* A handler of a REST process runs to its end before the next one of that *)
(* process begins, but it is several transactions, it may fail between any *)
(* two, and the Studio and other processes of the database step in between *)
(* them: every action is what a handler does up to its next commit or its  *)
(* next read of committed rows.                                            *)
(*                                                                         *)
(* A data record is a log of events (odb.data_record) and a snapshot       *)
(* (odb.data_snapshot).  A payload is a function from its top-level keys.  *)
(***************************************************************************)
EXTENDS Naturals, Sequences

CONSTANTS Workers,   \* REST processes
          Schemas,   \* contents of the class
          Keys, Values,
          Null,      \* JSON null
          Absent,    \* the payload has no such key
          Same,      \* the delta has no such key
          Docs,      \* payloads clients send
          None,
          MaxEvents  \* bound: events of the record

Payloads == [Keys -> Values \cup {Null, Absent}]
Deltas   == [Keys -> Values \cup {Null, Same}]

ASSUME DocsAssumption == Docs \subseteq Payloads /\ MaxEvents \in Nat
ASSUME MarkersAssumption ==
  /\ Null \notin Values /\ Absent \notin Values \cup {Null} /\ Same \notin Values \cup {Null, Absent}
  /\ None \notin Schemas /\ None \notin Payloads

VARIABLES
  live, published, \* of the row in odb.versions
  class,           \* the class in odb.classes, None when soft-deleted
  frozen,          \* its row in odb.class_schema, None when there is none
  log,             \* odb.data_record, in the order of the commits
  snapshot,        \* odb.data_snapshot, None when there is no row
  req              \* per process: the handler between its transactions

vars == <<live, published, class, frozen, log, snapshot, req>>

Actions == {"created", "updated", "deleted", "restored"}
Event   == [seq : Nat, action : Actions, data : Payloads \cup Deltas]
Ops     == {"idle", "publish", "capture", "unpublish", "create", "update", "delete", "restore"}
Idle    == [op |-> "idle", schema |-> None, old |-> None, new |-> None, seq |-> 0]

TypeOK ==
  /\ live \in BOOLEAN /\ published \in BOOLEAN
  /\ class \in Schemas \cup {None} /\ frozen \in Schemas \cup {None}
  /\ log \in Seq(Event)
  /\ snapshot \in Payloads \cup {None}
  /\ req \in [Workers -> [op : Ops, schema : Schemas \cup {None},
                          old : Payloads \cup {None}, new : Payloads \cup {None}, seq : Nat]]

Init ==
  /\ live = TRUE /\ published = FALSE
  /\ class \in Schemas /\ frozen = None
  /\ log = <<>> /\ snapshot = None
  /\ req = [w \in Workers |-> Idle]

-----------------------------------------------------------------------------
Free(w) == req[w].op = "idle"
Ends(w) == req' = [req EXCEPT ![w] = Idle]

\* The handler of w goes on as r, the fields of r over those of Idle.
Goes(w, op, schema, old, new, seq) ==
  req' = [req EXCEPT ![w] = [op |-> op, schema |-> schema, old |-> old, new |-> new, seq |-> seq]]

(* assert_class_schema_tenant_access, and get_class_schema_by_id, which also
   asks for the class: the revision may be published or not. *)
Accessible == live /\ frozen # None
Writable   == Accessible /\ class # None

-----------------------------------------------------------------------------
(* Publication *)

\* The route finds a revision that is not published.
PublishRead(w) ==
  /\ Free(w) /\ live /\ ~published
  /\ Goes(w, "publish", None, None, None, 0)
  /\ UNCHANGED <<live, published, class, frozen, log, snapshot>>

(* The UPDATE of publish_version is committed by the read of the classes
   (execute_query), before any schema is captured. *)
PublishWrite(w) ==
  /\ req[w].op = "publish" /\ live
  /\ published' = TRUE
  /\ Goes(w, "capture", class, None, None, 0)
  /\ UNCHANGED <<live, class, frozen, log, snapshot>>

\* freeze_version_schema: only while nothing is captured, published or not.
FreezeRead(w) ==
  /\ Free(w) /\ live /\ frozen = None
  /\ Goes(w, "capture", class, None, None, 0)
  /\ UNCHANGED <<live, published, class, frozen, log, snapshot>>

\* INSERT INTO class_schema ... ON CONFLICT DO UPDATE, for the class read.
Capture(w) ==
  /\ req[w].op = "capture"
  /\ frozen' = IF req[w].schema = None THEN frozen ELSE req[w].schema
  /\ Ends(w)
  /\ UNCHANGED <<live, published, class, log, snapshot>>

\* Mutant of UnpublishRead: the revision's data is not looked for.
UnpublishAnyway(w) ==
  /\ Free(w) /\ live /\ published
  /\ Goes(w, "unpublish", None, None, None, 0)
  /\ UNCHANGED <<live, published, class, frozen, log, snapshot>>

\* version_has_data_records: a revision with data answers VERSION_HAS_DATA.
UnpublishRead(w) ==
  /\ Free(w) /\ live /\ published /\ log = <<>>
  /\ Goes(w, "unpublish", None, None, None, 0)
  /\ UNCHANGED <<live, published, class, frozen, log, snapshot>>

UnpublishWrite(w) ==
  /\ req[w].op = "unpublish" /\ live
  /\ published' = FALSE
  /\ Ends(w)
  /\ UNCHANGED <<live, class, frozen, log, snapshot>>

\* The captured rows stay behind a revision that is soft-deleted.
DeleteRevision ==
  /\ live
  /\ live' = FALSE
  /\ UNCHANGED <<published, class, frozen, log, snapshot, req>>

\* Classes are edited and soft-deleted with no look at publication.
EditClass(s) ==
  /\ class # None /\ s # class
  /\ class' = s
  /\ UNCHANGED <<live, published, frozen, log, snapshot, req>>

-----------------------------------------------------------------------------
(* The data record *)

\* Mutants of Delta: a removed key is left out; it stands there as it is.
DeltaWithoutRemovals(old, new) ==
  [k \in Keys |-> IF new[k] = old[k] \/ new[k] = Absent THEN Same ELSE new[k]]
RawDelta(old, new) == [k \in Keys |-> IF new[k] = old[k] THEN Same ELSE new[k]]

\* _compute_delta: what changed, a removed key as None.
Delta(old, new) ==
  [k \in Keys |-> IF new[k] = old[k] THEN Same
                  ELSE IF new[k] = Absent THEN Null ELSE new[k]]

Numbers == {log[i].seq : i \in DOMAIN log} \cup {0}
MaxSequence == CHOOSE m \in Numbers : \A n \in Numbers : n <= m

NextSequence == MaxSequence + 1

\* ORDER BY record_sequence DESC LIMIT 1: any of those that share the highest.
Latest == {i \in DOMAIN log : log[i].seq = MaxSequence}

Append1(seq, action, data) ==
  /\ Len(log) < MaxEvents
  /\ log' = Append(log, [seq |-> seq, action |-> action, data |-> data])

(* create_data_record.  Other records of the class would be independent, so
   that one is kept; its id comes into being with the write. *)
CreateRead(w, d) ==
  /\ Free(w) /\ Writable
  /\ log = <<>> /\ \A x \in Workers : req[x].op # "create"
  /\ Goes(w, "create", None, None, d, 1)
  /\ UNCHANGED <<live, published, class, frozen, log, snapshot>>

CreateWrite(w) ==
  /\ req[w].op = "create"
  /\ Append1(1, "created", req[w].new)
  /\ snapshot' = req[w].new
  /\ Ends(w)
  /\ UNCHANGED <<live, published, class, frozen>>

\* update_data_record and delete_data_record read the snapshot ...
UpdateRead(w, d) ==
  /\ Free(w) /\ Writable
  /\ snapshot # None /\ d # snapshot
  /\ Goes(w, "update", None, snapshot, d, 0)
  /\ UNCHANGED <<live, published, class, frozen, log, snapshot>>

DeleteRead(w) ==
  /\ Free(w) /\ Accessible
  /\ snapshot # None
  /\ Goes(w, "delete", None, snapshot, None, 0)
  /\ UNCHANGED <<live, published, class, frozen, log, snapshot>>

\* ... and then, before any row is locked, the next number.
NumberRead(w) ==
  /\ req[w].op \in {"update", "delete"} /\ req[w].seq = 0
  /\ req' = [req EXCEPT ![w].seq = NextSequence]
  /\ UNCHANGED <<live, published, class, frozen, log, snapshot>>

\* The UPDATE of the snapshot must find its row.
UpdateWrite(w) ==
  /\ req[w].op = "update" /\ req[w].seq > 0
  /\ snapshot # None
  /\ Append1(req[w].seq, "updated", Delta(req[w].old, req[w].new))
  /\ snapshot' = req[w].new
  /\ Ends(w)
  /\ UNCHANGED <<live, published, class, frozen>>

\* Mutant of DeleteWrite: the snapshot stays.
DeleteLogged(w) ==
  /\ req[w].op = "delete" /\ req[w].seq > 0
  /\ Append1(req[w].seq, "deleted", req[w].old)
  /\ Ends(w)
  /\ UNCHANGED <<live, published, class, frozen, snapshot>>

\* The DELETE need not find one.
DeleteWrite(w) ==
  /\ req[w].op = "delete" /\ req[w].seq > 0
  /\ Append1(req[w].seq, "deleted", req[w].old)
  /\ snapshot' = None
  /\ Ends(w)
  /\ UNCHANGED <<live, published, class, frozen>>

\* restore_data_record takes the payload from the newest event.
RestoreRead(w) ==
  /\ Free(w) /\ Accessible
  /\ \E i \in Latest :
       /\ log[i].action = "deleted"
       /\ Goes(w, "restore", None, None, log[i].data, log[i].seq + 1)
  /\ UNCHANGED <<live, published, class, frozen, log, snapshot>>

\* The INSERT of the snapshot fails on a record that is back already.
RestoreWrite(w) ==
  /\ req[w].op = "restore"
  /\ snapshot = None
  /\ Append1(req[w].seq, "restored", [k \in Keys |-> Same])
  /\ snapshot' = req[w].new
  /\ Ends(w)
  /\ UNCHANGED <<live, published, class, frozen>>

(* The handler ends before its last transaction: the row it needs is not as it
   should be, an exception, a lost connection, a process that dies. *)
Fails(w) ==
  /\ ~Free(w)
  /\ Ends(w)
  /\ UNCHANGED <<live, published, class, frozen, log, snapshot>>

-----------------------------------------------------------------------------
Publication(w) ==
  \/ PublishRead(w) \/ PublishWrite(w) \/ FreezeRead(w) \/ Capture(w)
  \/ UnpublishRead(w) \/ UnpublishWrite(w)

Data(w) ==
  \/ \E d \in Docs : CreateRead(w, d) \/ UpdateRead(w, d)
  \/ CreateWrite(w) \/ UpdateWrite(w)
  \/ DeleteRead(w) \/ NumberRead(w) \/ DeleteWrite(w)
  \/ RestoreRead(w) \/ RestoreWrite(w)

Next ==
  \/ \E w \in Workers : Publication(w) \/ Data(w) \/ Fails(w)
  \/ DeleteRevision
  \/ \E s \in Schemas \cup {None} : EditClass(s)

Spec == Init /\ [][Next]_vars

-----------------------------------------------------------------------------
(* Properties *)

(* The events of a record are numbered 1, 2, 3, ... and the first is its
   creation (V059, data_record.record_sequence). *)
LogIsNumbered ==
  \A i \in DOMAIN log : log[i].seq = i /\ (log[i].action = "created" <=> i = 1)

(* A record has a snapshot exactly while its last event is not a deletion,
   whatever handler failed or met an edit of its class half way. *)
PresentUnlessDeleted ==
  snapshot = None <=> log = <<>> \/ log[Len(log)].action = "deleted"

\* The payload an event leaves, from the one before it.
Applied(doc, e) ==
  CASE e.action = "created"  -> e.data
    [] e.action = "updated"  -> [k \in Keys |-> IF e.data[k] = Same THEN doc[k] ELSE e.data[k]]
    [] e.action \in {"deleted", "restored"} -> doc

Replay ==
  LET after[i \in 0..Len(log)] ==
        IF i = 0 THEN None ELSE Applied(after[i - 1], log[i])
  IN  after[Len(log)]

\* A delta says None of a key that was removed and of one that was set to null.
Nulled(doc) == [k \in Keys |-> IF doc[k] = Absent THEN Null ELSE doc[k]]

(* The snapshot is what the event log replays to, through any sequence of
   updates, deletions and restorations. *)
SnapshotIsReplay == snapshot # None => Nulled(snapshot) = Nulled(Replay)

(* A revision that has data is not unpublished (VERSION_HAS_DATA), although
   the check and the UPDATE are two transactions. *)
DataKeepsPublication == [][published /\ ~published' => log = <<>>]_vars

(* The class schema a data record follows is frozen (V059, data_record.
   class_schema_id): nothing captures another one over it.  False, see the
   README. *)
DataSchemaFrozen == [][log # <<>> => frozen' = frozen]_vars
=============================================================================
