------------------------------ MODULE Archive -------------------------------
(***************************************************************************)
(* app/archive.py: concurrent calls of write_snapshot for one endpoint     *)
(* (datasource, path, query hash), by the proxy and by collector jobs,     *)
(* each in a transaction of its own, then of write_names for responses     *)
(* that name ids, and get_latest_payload.                                  *)
(*                                                                         *)
(* Every statement is a step.  PostgreSQL (READ COMMITTED) is modelled by  *)
(* what the statements rely on: a transaction sees committed rows and its  *)
(* own; an INSERT .. ON CONFLICT or an UPDATE of a row another transaction *)
(* has written waits for that one to end; a transaction that waits in a    *)
(* circle is aborted.  A key stands for a row's unique key, and a          *)
(* transaction holds the row lock of every key it has written.             *)
(***************************************************************************)
EXTENDS Naturals, Sequences, FiniteSets

CONSTANTS
  NumWrites,  \* the number of calls of write_snapshot
  Contents,   \* the payloads they may write, by content hash
  OrdersOf,   \* the market orders each lists, as <<order_id, version_hash>>
  NamesOf,    \* the names each lists, as <<entity_id, name>>
  BatchSize,  \* _DELTA_INSERT_BATCH_SIZE
  Kinds,      \* what the endpoint may be: see Init
  MaxMinute,  \* the bound on the minutes that pass
  Faults      \* "statement": statements may fail, the process may die

ASSUME ArchiveAssumption ==
  /\ NumWrites \in Nat
  /\ DOMAIN OrdersOf = Contents /\ DOMAIN NamesOf = Contents
  /\ \A c \in Contents : /\ Len(OrdersOf[c]) \in Nat /\ DOMAIN OrdersOf[c] = 1..Len(OrdersOf[c])
                         /\ Len(NamesOf[c]) \in Nat /\ DOMAIN NamesOf[c] = 1..Len(NamesOf[c])
  /\ BatchSize \in Nat \ {0} /\ MaxMinute \in Nat
  /\ Kinds \subseteq {"market", "series", "reference", "names", "event"}

\* The calls, numbered in the order in which they take their `now`.
Writes == 1..NumWrites
Minutes == 0..MaxMinute

\* archive_payload_blobs, archive_timeseries (by its idempotency key),
\* archive_object_files, market_order_versions, market_order_snapshot_entries,
\* archive_reference, id_name_cache and archive_events.
Blob(c) == <<"blob", c>>
Snapshot(m, c) == <<"snapshot", m, c>>
Manifest(c) == <<"manifest", c>>
Version(o) == <<"version", o>>
Entry(m, c, id) == <<"entry", m, c, id>>
Reference == <<"reference">>
Name(id) == <<"name", id>>
Event == <<"event">>

VARIABLES
  kind,     \* the endpoint's archive type; "market": with Parquet and
            \* deltas; "names": a reference whose response names ids
  db,       \* the committed rows, by key
  tx,       \* the rows each transaction has written so far, by key
  files,    \* whose Parquet files are on disk
  pc,       \* where each call stands
  content,  \* its payload
  minute,   \* the minute of its `now`
  row,      \* the order or name it is about to upsert
  clock,    \* the minute it is
  redis     \* the names in Redis, with the call that put each there

vars == <<kind, db, tx, files, pc, content, minute, row, clock, redis>>
argVars == <<kind, content, minute>>

NoRows == [k \in {} |-> {}]

Init ==
  /\ kind \in Kinds
  /\ db = NoRows
  /\ tx = [w \in Writes |-> NoRows]
  /\ files = {}
  /\ pc = [w \in Writes |-> "new"]
  /\ content \in [Writes -> Contents]
  /\ minute = [w \in Writes |-> 0]
  /\ row = [w \in Writes |-> 1]
  /\ clock = 0
  /\ redis = NoRows

-----------------------------------------------------------------------------
(* PostgreSQL *)

\* The rows of g on top of those of f.
Over(f, g) == [k \in DOMAIN f \cup DOMAIN g |-> IF k \in DOMAIN g THEN g[k] ELSE f[k]]

\* One row, under key k.
Only(k, r) == [j \in {k} |-> r]

Sees(w) == Over(db, tx[w])
Exists(w, k) == k \in DOMAIN Sees(w)

\* The other transactions that have written a row with a key of K.
Holders(w, K) == {u \in Writes \ {w} : DOMAIN tx[u] \cap K # {}}

Write(w, rows) == tx' = [tx EXCEPT ![w] = Over(@, rows)]

\* A slip: A row another transaction has not committed counts as there.
InsertOnce_NoWait(w, rows) ==
  Write(w, [k \in {j \in DOMAIN rows : ~Exists(w, j) /\ Holders(w, {j}) = {}} |-> rows[k]])

\* INSERT .. ON CONFLICT DO NOTHING.
InsertOnce(w, rows) ==
  /\ Holders(w, DOMAIN rows) = {}
  /\ Write(w, [k \in {j \in DOMAIN rows : ~Exists(w, j)} |-> rows[k]])

\* INSERT .. ON CONFLICT DO UPDATE: the columns set in a row that is there.
Upsert(w, k, fresh, set) ==
  /\ Holders(w, {k}) = {}
  /\ Write(w, Only(k, IF Exists(w, k) THEN Over(Sees(w)[k], set) ELSE fresh))

\* A slip: The failed transaction is not rolled back.
End_NoRollback(w, status) ==
  /\ tx' = IF status \in {"failed", "unnamed"} THEN tx ELSE [tx EXCEPT ![w] = NoRows]
  /\ pc' = [pc EXCEPT ![w] = status]

\* The transaction ends, and with it its locks.
End(w, status) ==
  /\ tx' = [tx EXCEPT ![w] = NoRows]
  /\ pc' = [pc EXCEPT ![w] = status]

-----------------------------------------------------------------------------
(* write_snapshot *)

Goto(w, label) == pc' = [pc EXCEPT ![w] = label]
OrdersIn(w) == OrdersOf[content[w]]
Listing(w) == IF kind = "names" THEN NamesOf[content[w]] ELSE OrdersIn(w)
MySnapshot(w) == Snapshot(minute[w], content[w])

\* The entries of its listing: of two versions of an order the first counts.
FirstOf(w, id) ==
  CHOOSE i \in DOMAIN OrdersIn(w) :
    /\ OrdersIn(w)[i][1] = id
    /\ \A j \in 1..(i - 1) : OrdersIn(w)[j][1] # id
MyEntries(w) ==
  [k \in {Entry(minute[w], content[w], OrdersIn(w)[i][1]) : i \in DOMAIN OrdersIn(w)} |->
     [version |-> OrdersIn(w)[FirstOf(w, k[4])]]]

\* now = datetime.now(); the transaction begins with its first statement.
Begin(w) ==
  /\ pc[w] = "new"
  /\ \A u \in 1..(w - 1) : pc[u] # "new"
  /\ minute' = [minute EXCEPT ![w] = clock]
  /\ Goto(w, CASE kind \in {"market", "series"} -> "blob"
                [] kind \in {"reference", "names"} -> "reference"
                [] kind = "event" -> "event")
  /\ UNCHANGED <<kind, db, tx, files, content, row, clock, redis>>

WriteBlob(w) ==
  /\ pc[w] = "blob"
  /\ InsertOnce(w, Only(Blob(content[w]), [of |-> content[w]]))
  /\ Goto(w, "snapshot")
  /\ UNCHANGED <<argVars, db, files, row, clock, redis>>

\* Insert the row, or find the one with the same idempotency key.
WriteTimeseries(w) ==
  /\ pc[w] = "snapshot"
  /\ InsertOnce(w, Only(MySnapshot(w), [fetched |-> w, storage |-> "compressed_json"]))
  /\ Goto(w, IF kind = "market" THEN "manifest" ELSE "commit")
  /\ UNCHANGED <<argVars, db, files, row, clock, redis>>

\* Look for a manifest of the content; without one write the file at once.
WriteParquetFile(w) ==
  /\ pc[w] = "manifest"
  /\ \/ Exists(w, Manifest(content[w])) /\ Goto(w, "versions") /\ UNCHANGED files
     \/ /\ ~Exists(w, Manifest(content[w]))
        /\ files' = files \cup {w}
        /\ Goto(w, "insert_manifest")
  /\ UNCHANGED <<argVars, db, tx, row, clock, redis>>

\* A writer that loses the race reuses the winner's manifest.
InsertManifest(w) ==
  /\ pc[w] = "insert_manifest"
  /\ InsertOnce(w, Only(Manifest(content[w]), [file |-> w]))
  /\ Goto(w, "versions")
  /\ UNCHANGED <<argVars, db, files, row, clock, redis>>

\* The row an item of its listing is upserted into.
RowKey(w, i) ==
  IF kind = "names" THEN Name(Listing(w)[i][1]) ELSE Version(Listing(w)[i])

\* One statement may not touch a row twice.
Repeated(w) ==
  \E i \in 1..(row[w] - 1) :
    /\ RowKey(w, i) = RowKey(w, row[w])
    /\ (i - 1) \div BatchSize = (row[w] - 1) \div BatchSize

\* _write_market_order_deltas: the versions in the order of the listing.
UpsertVersion(w) ==
  /\ pc[w] = "versions" /\ row[w] <= Len(OrdersIn(w)) /\ ~Repeated(w)
  /\ Upsert(w, Version(OrdersIn(w)[row[w]]), [first |-> w, last |-> w], [last |-> w])
  /\ row' = [row EXCEPT ![w] = @ + 1]
  /\ UNCHANGED <<argVars, db, files, pc, clock, redis>>

\* How a call fails: once the response is committed, only its names are lost.
Failure(w) ==
  IF pc[w] \in {"names", "set_names", "commit_names"} THEN "unnamed" ELSE "failed"

\* CardinalityViolation: the caller rolls back and logs.
RejectRepeated(w) ==
  /\ pc[w] \in {"versions", "names"} /\ row[w] <= Len(Listing(w)) /\ Repeated(w)
  /\ End(w, Failure(w))
  /\ UNCHANGED <<argVars, db, files, row, clock, redis>>

\* The entries of the snapshot.
WriteEntries(w) ==
  /\ pc[w] = "versions" /\ row[w] > Len(OrdersIn(w))
  /\ InsertOnce(w, MyEntries(w))
  /\ Goto(w, "relabel")
  /\ UNCHANGED <<argVars, db, files, row, clock, redis>>

\* The snapshot is relabelled once there is a manifest.
Relabel(w) ==
  /\ pc[w] = "relabel"
  /\ Holders(w, {MySnapshot(w)}) = {}
  /\ Write(w, Only(MySnapshot(w),
                   [Sees(w)[MySnapshot(w)] EXCEPT !.storage = "market_parquet_delta"]))
  /\ Goto(w, "commit")
  /\ UNCHANGED <<argVars, db, files, row, clock, redis>>

\* A slip: first_seen_at is among the columns of DO UPDATE.
UpsertReference_AllColumns(w) ==
  LET fresh == [body |-> content[w], first |-> w, last |-> w] IN
  /\ pc[w] = "reference"
  /\ Upsert(w, Reference, fresh, fresh)
  /\ Goto(w, "commit")
  /\ UNCHANGED <<argVars, db, files, row, clock, redis>>

\* A slip: The body of a reference that is there is not among them.
UpsertReference_BodyKept(w) ==
  /\ pc[w] = "reference"
  /\ Upsert(w, Reference, [body |-> content[w], first |-> w, last |-> w], [last |-> w])
  /\ Goto(w, "commit")
  /\ UNCHANGED <<argVars, db, files, row, clock, redis>>

UpsertReference(w) ==
  /\ pc[w] = "reference"
  /\ Upsert(w, Reference, [body |-> content[w], first |-> w, last |-> w],
            [body |-> content[w], last |-> w])
  /\ Goto(w, "commit")
  /\ UNCHANGED <<argVars, db, files, row, clock, redis>>

WriteEvent(w) ==
  /\ pc[w] = "event"
  /\ InsertOnce(w, Only(Event, [body |-> content[w]]))
  /\ Goto(w, "commit")
  /\ UNCHANGED <<argVars, db, files, row, clock, redis>>

\* A slip: Redis gets the names after the commit.
After_CommitFirst(label) ==
  CASE label = "commit" -> IF kind = "names" THEN "names" ELSE "ok"
    [] label = "names" -> "commit_names"
    [] label = "commit_names" -> "set_names"
    [] label = "set_names" -> "ok"

\* What follows the commit of the response, the upserts of its names, their
\* way to Redis, and their commit.
After(label) ==
  CASE label = "commit" -> IF kind = "names" THEN "names" ELSE "ok"
    [] label = "names" -> "set_names"
    [] label = "set_names" -> "commit_names"
    [] label = "commit_names" -> "ok"

\* A slip: A plain time series is never committed.
Commit_NotTimeseries(w) ==
  /\ pc[w] \in {"commit", "commit_names"}
  /\ db' = IF kind = "series" THEN db ELSE Sees(w)
  /\ End(w, After(pc[w]))
  /\ UNCHANGED <<argVars, files, row, clock, redis>>

Commit(w) ==
  /\ pc[w] \in {"commit", "commit_names"}
  /\ db' = Sees(w)
  /\ End(w, After(pc[w]))
  /\ UNCHANGED <<argVars, files, row, clock, redis>>

-----------------------------------------------------------------------------
(* write_names, in the next transaction of the same call *)

UpsertName(w) ==
  LET name == [name |-> Listing(w)[row[w]][2], last |-> w] IN
  /\ pc[w] = "names" /\ row[w] <= Len(Listing(w)) /\ ~Repeated(w)
  /\ Upsert(w, RowKey(w, row[w]), Over(name, [first |-> w]), name)
  /\ row' = [row EXCEPT ![w] = @ + 1]
  /\ UNCHANGED <<argVars, db, files, pc, clock, redis>>

NamesUpserted(w) ==
  /\ pc[w] = "names" /\ row[w] > Len(Listing(w))
  /\ Goto(w, After(pc[w]))
  /\ UNCHANGED <<argVars, db, tx, files, row, clock, redis>>

\* Of several names of an id the last is kept.
LastOf(w, id) ==
  CHOOSE i \in DOMAIN Listing(w) :
    /\ Listing(w)[i][1] = id
    /\ \A j \in DOMAIN Listing(w) : Listing(w)[j][1] = id => j <= i

\* cache.set_names: one pipeline.
SetNames(w) ==
  /\ pc[w] = "set_names"
  /\ redis' = Over(redis,
       [id \in {Listing(w)[i][1] : i \in DOMAIN Listing(w)} |->
          [name |-> Listing(w)[LastOf(w, id)][2], by |-> w]])
  /\ Goto(w, After(pc[w]))
  /\ UNCHANGED <<argVars, db, tx, files, row, clock>>

-----------------------------------------------------------------------------
(* What goes wrong, and when *)

Ended(w) == pc[w] \in {"ok", "failed", "unnamed"}

\* A statement fails, the connection breaks or the process dies: the caller,
\* or PostgreSQL in its place, rolls back.  What is on disk stays there.
Fail(w) ==
  /\ "statement" \in Faults
  /\ pc[w] # "new" /\ ~Ended(w)
  /\ End(w, Failure(w))
  /\ UNCHANGED <<argVars, db, files, row, clock, redis>>

\* The row keys the next statement writes, for which it may have to wait.
Wants(w) ==
  CASE pc[w] = "blob" -> {Blob(content[w])}
    [] pc[w] \in {"snapshot", "relabel"} -> {MySnapshot(w)}
    [] pc[w] = "insert_manifest" -> {Manifest(content[w])}
    [] pc[w] = "versions" /\ row[w] <= Len(OrdersIn(w)) -> {Version(OrdersIn(w)[row[w]])}
    [] pc[w] = "versions" /\ row[w] > Len(OrdersIn(w)) -> DOMAIN MyEntries(w)
    [] pc[w] = "reference" -> {Reference}
    [] pc[w] = "names" /\ row[w] <= Len(Listing(w)) -> {RowKey(w, row[w])}
    [] pc[w] = "event" -> {Event}
    [] OTHER -> {}

WaitsFor(w) == Holders(w, Wants(w))

\* w is on a circle: S waits within S, and everyone in S is waited for.
Deadlocked(w) ==
  WaitsFor(w) # {} /\ \E S \in SUBSET Writes :
    /\ w \in S
    /\ \A u \in S : WaitsFor(u) \cap S # {} /\ \E v \in S : u \in WaitsFor(v)

\* PostgreSQL's deadlock detector aborts one of them.
AbortDeadlocked(w) ==
  /\ Deadlocked(w)
  /\ End(w, Failure(w))
  /\ UNCHANGED <<argVars, db, files, row, clock, redis>>

\* Only the key of a time series has the minute in it.
PassMinute ==
  /\ clock < MaxMinute /\ kind \in {"market", "series"}
  /\ clock' = clock + 1
  /\ UNCHANGED <<argVars, db, tx, files, pc, row, redis>>

Proceed(w) ==
  \/ WriteBlob(w) \/ WriteTimeseries(w)
  \/ WriteParquetFile(w) \/ InsertManifest(w) \/ UpsertVersion(w) \/ RejectRepeated(w)
  \/ WriteEntries(w) \/ Relabel(w)
  \/ UpsertReference(w) \/ WriteEvent(w) \/ Commit(w)
  \/ UpsertName(w) \/ NamesUpserted(w) \/ SetNames(w) \/ AbortDeadlocked(w)

Next ==
  \/ PassMinute
  \/ \E w \in Writes : Begin(w) \/ Proceed(w) \/ Fail(w)

\* A statement that need not wait is executed, and deadlocks are detected.
Fairness == \A w \in Writes : WF_vars(Proceed(w))

Spec == Init /\ [][Next]_vars /\ Fairness

-----------------------------------------------------------------------------
(* get_latest_payload *)

Snapshots == {s \in Minutes \X Contents : Snapshot(s[1], s[2]) \in DOMAIN db}
Row(s) == db[Snapshot(s[1], s[2])]

\* The newest row of archive_timeseries, by fetched_at.
Newest == CHOOSE s \in Snapshots : \A r \in Snapshots : Row(r).fetched <= Row(s).fetched

\* Its blob; without one, the Parquet file of its manifest; without either,
\* the reference and then the event.
LatestPayload ==
  IF Snapshots # {} /\ Blob(Newest[2]) \in DOMAIN db THEN {Newest[2]}
  ELSE IF Snapshots # {} /\ Row(Newest).storage = "market_parquet_delta" THEN {Newest[2]}
  ELSE IF Reference \in DOMAIN db THEN {db[Reference].body}
  ELSE IF Event \in DOMAIN db THEN {db[Event].body} ELSE {}
-----------------------------------------------------------------------------
Labels == {"new", "blob", "snapshot", "manifest", "insert_manifest", "versions", "relabel",
           "reference", "event", "commit", "names", "set_names", "commit_names",
           "ok", "failed", "unnamed"}

\* The calls, the clock, and whose files and Redis names there are; and a call that
\* has not begun or has ended has no uncommitted row, and so holds no lock.  (What
\* is in the rows is what the properties below are about.)
TypeOK ==
  /\ kind \in Kinds
  /\ \A w \in Writes : pc[w] = "new" \/ Ended(w) => tx[w] = NoRows
  /\ files \subseteq Writes
  /\ pc \in [Writes -> Labels]
  /\ content \in [Writes -> Contents]
  /\ minute \in [Writes -> Minutes]
  /\ \A w \in Writes : row[w] \in 1..(Len(Listing(w)) + 1)
  /\ clock \in Minutes
  /\ \A id \in DOMAIN redis : redis[id].by \in Writes

\* Whatever fails, waits or races: a committed snapshot has its payload; one
\* labelled as Parquet has its manifest, whose file is on disk, and the
\* versions of all its orders, each with its entry.
CommittedIsComplete ==
  \A s \in Snapshots : LET m == s[1]  c == s[2] IN
    /\ Blob(c) \in DOMAIN db
    /\ kind = "market" =>
         /\ Row(s).storage = "market_parquet_delta"
         /\ Manifest(c) \in DOMAIN db
         /\ db[Manifest(c)].file \in files /\ content[db[Manifest(c)].file] = c
         /\ \A i \in DOMAIN OrdersOf[c] :
              LET o == OrdersOf[c][i] IN
                /\ Version(o) \in DOMAIN db /\ Entry(m, c, o[1]) \in DOMAIN db
                /\ Version(db[Entry(m, c, o[1])].version) \in DOMAIN db

\* What a later write may change: a snapshot's label, when a reference or a
\* version was last seen, a reference's body and a name.
Mutable(k) == IF k = Reference THEN {"body", "last"} ELSE {"storage", "last", "name"}

\* The docstrings of archive.py and db.py: snapshots are never overwritten, an
\* event is never modified, first_seen_at is never changed.
AppendOnly ==
  [][\A k \in DOMAIN db :
       /\ k \in DOMAIN db'
       /\ \A f \in DOMAIN db[k] \ Mutable(k) : db'[k][f] = db[k][f]]_vars

\* The response is committed, whatever becomes of its names.
Stored(w) == pc[w] \in {"ok", "names", "set_names", "commit_names", "unnamed"}

\* A write that reports success is in the archive, although it may have left
\* the insert to a transaction that had not ended; and from then on there is
\* a payload to fall back to, one whose own write succeeded.  A failure to
\* write names does not take the response with it.
SuccessIsArchived ==
  \A w \in Writes : Stored(w) =>
    /\ kind \in {"market", "series"} => MySnapshot(w) \in DOMAIN db
    /\ \E u \in Writes : Stored(u) /\ LatestPayload = {content[u]}

\* write_names has no lock over Redis and PostgreSQL, but fills Redis while it
\* holds the rows: a name that a call has put in Redis and committed is the one
\* in the table, whoever else is about to change it.
NamesAgree ==
  \A id \in DOMAIN redis : pc[redis[id].by] = "ok" =>
    Name(id) \in DOMAIN db /\ db[Name(id)].name = redis[id].name

\* Every write ends: no two writers wait for each other for ever.  (The writes
\* are finitely many, so again and again none of them is under way.)
EveryWriteEnds == []<>(\A w \in Writes : pc[w] = "new" \/ Ended(w))

\* What AtomicArchive sees of this.
AbstractPolicy ==
  CASE kind \in {"market", "series"} -> "newest"
    [] kind \in {"reference", "names"} -> "last"
    [] kind = "event" -> "first"

AbstractStage(w) ==
  IF Stored(w) THEN "stored" ELSE IF pc[w] = "failed" THEN "failed" ELSE "open"

AbstractSince == IF Snapshots = {} THEN 0 ELSE Row(Newest).fetched

\* A write is one step or none, however its statements interleave with those of
\* others, and what get_latest_payload finds moves only with such a step: to the
\* newest snapshot whatever the order of the commits, to the reference that was
\* committed last, or never away from the event that was committed first.
Abstract == INSTANCE AtomicArchive WITH
  policy <- AbstractPolicy, stage <- [w \in Writes |-> AbstractStage(w)],
  latest <- LatestPayload, since <- AbstractSince
ImplementsAtomicArchive == Abstract!Spec

\* README: every ESI response is written to PostgreSQL permanently.
NoWriteIsRefused == \A w \in Writes : pc[w] # "failed"
=============================================================================
