--------------------------- MODULE ArchiveProofs ----------------------------
(***************************************************************************)
(* What Archive keeps for any number of writes, any contents and listings: *)
(* row locks exclude, nothing archived is overwritten, what is committed   *)
(* is complete, a success is archived, and Redis and the table of names    *)
(* agree, whatever fails or waits; and all of it amounts to AtomicArchive. *)
(***************************************************************************)
EXTENDS Archive, FiniteSetTheorems, WellFoundedInduction, TLAPS

Timed == {"market", "series"}
Referred == {"reference", "names"}
NameLabels == {"names", "set_names", "commit_names"}

\* Each label belongs to some kinds of endpoint.
OfKind(w) ==
  /\ pc[w] \in {"blob", "snapshot"} => kind \in Timed
  /\ pc[w] \in {"manifest", "insert_manifest", "versions", "relabel"} => kind = "market"
  /\ pc[w] = "reference" => kind \in Referred
  /\ pc[w] = "event" => kind = "event"
  /\ pc[w] \in NameLabels \cup {"unnamed"} => kind = "names"

Typing ==
  /\ kind \in Kinds
  /\ tx \in [Writes -> {tx[w] : w \in Writes}]
  /\ files \subseteq Writes
  /\ pc \in [Writes -> Labels]
  /\ content \in [Writes -> Contents]
  /\ minute \in [Writes -> Minutes]
  /\ row \in [Writes -> Nat \ {0}]
  /\ clock \in Minutes
  /\ \A w \in Writes : OfKind(w) /\ row[w] <= Len(Listing(w)) + 1

\* A new version of a row that is there keeps what is not to change.
Keeps(k, old, new) ==
  /\ DOMAIN old \subseteq DOMAIN new
  /\ \A f \in DOMAIN old \ Mutable(k) : new[f] = old[f]

\* No two transactions have written one row, and none has changed in a
\* committed row what is not to change.
Locks ==
  /\ \A w \in Writes : pc[w] = "new" \/ Ended(w) => tx[w] = NoRows
  /\ \A w, u \in Writes : w # u => DOMAIN tx[w] \cap DOMAIN tx[u] = {}
  /\ \A w \in Writes : \A k \in DOMAIN tx[w] \cap DOMAIN db : Keeps(k, db[k], tx[w][k])

Committing(w, K) == pc[w] = "commit" /\ kind \in K

\* What a call sees by the time it is where it is: it has written it, or a
\* transaction that committed has.
Reached(w) ==
  LET c == content[w] IN
  /\ (pc[w] \in {"new", "blob", "snapshot", "manifest", "insert_manifest", "reference"}
        \/ Committing(w, {"names"})) => row[w] = 1
  /\ (pc[w] \in {"snapshot", "manifest", "insert_manifest", "versions", "relabel"}
        \/ Committing(w, Timed)) => Exists(w, Blob(c))
  /\ (pc[w] \in {"manifest", "insert_manifest", "versions", "relabel"}
        \/ Committing(w, Timed)) => Exists(w, MySnapshot(w))
  /\ pc[w] = "insert_manifest" => w \in files
  /\ (pc[w] \in {"versions", "relabel"} \/ Committing(w, {"market"})) => Exists(w, Manifest(c))
  /\ pc[w] = "versions" => \A i \in 1..(row[w] - 1) : Exists(w, Version(OrdersOf[c][i]))
  /\ (pc[w] = "relabel" \/ Committing(w, {"market"})) =>
       \A i \in DOMAIN OrdersOf[c] :
         Exists(w, Version(OrdersOf[c][i])) /\ Exists(w, Entry(minute[w], c, OrdersOf[c][i][1]))
  /\ Committing(w, {"market"}) =>
       /\ MySnapshot(w) \in DOMAIN tx[w]
       /\ tx[w][MySnapshot(w)].storage = "market_parquet_delta"
  /\ Committing(w, Referred) => Exists(w, Reference)
  /\ Committing(w, {"event"}) => Exists(w, Event)

\* What is in a row r that a transaction has written under key k.
RowOf(w, k, r) ==
  /\ k[1] = "snapshot" =>
       /\ kind \in Timed /\ k = MySnapshot(w)
       /\ {"fetched", "storage"} \subseteq DOMAIN r /\ (r.fetched = w \/ k \in DOMAIN db)
  /\ k[1] = "manifest" => k = Manifest(content[w]) /\ w \in files /\ r.file = w
  /\ k[1] = "entry" => Exists(w, Version(r.version))
  /\ k[1] = "reference" => kind \in Referred /\ r.body = content[w]
  /\ k[1] = "event" => kind = "event" /\ r = [body |-> content[w]]

Wrote(w) == \A k \in DOMAIN tx[w] : RowOf(w, k, tx[w][k])

\* What is in the committed rows, and what those have committed who say so.
Kept ==
  /\ \A m \in Minutes, c \in Contents : Snapshot(m, c) \in DOMAIN db =>
       /\ kind \in Timed /\ Blob(c) \in DOMAIN db
       /\ {"fetched", "storage"} \subseteq DOMAIN db[Snapshot(m, c)]
       /\ \E u \in Writes : db[Snapshot(m, c)].fetched = u /\ Stored(u) /\ content[u] = c
       /\ kind = "market" =>
            /\ db[Snapshot(m, c)].storage = "market_parquet_delta"
            /\ Manifest(c) \in DOMAIN db
            /\ \A i \in DOMAIN OrdersOf[c] :
                 Version(OrdersOf[c][i]) \in DOMAIN db
                 /\ Entry(m, c, OrdersOf[c][i][1]) \in DOMAIN db
  /\ \A c \in Contents : Manifest(c) \in DOMAIN db =>
       db[Manifest(c)].file \in files /\ content[db[Manifest(c)].file] = c
  /\ \A m \in Minutes, c \in Contents : \A i \in DOMAIN OrdersOf[c] :
       LET e == Entry(m, c, OrdersOf[c][i][1]) IN
       e \in DOMAIN db => Version(db[e].version) \in DOMAIN db
  /\ Reference \in DOMAIN db =>
       kind \in Referred /\ \E u \in Writes : Stored(u) /\ db[Reference].body = content[u]
  /\ Event \in DOMAIN db =>
       kind = "event" /\ \E u \in Writes : Stored(u) /\ db[Event] = [body |-> content[u]]
  /\ \A w \in Writes : Stored(w) =>
       /\ kind \in Timed => MySnapshot(w) \in DOMAIN db
       /\ kind \in Referred => Reference \in DOMAIN db
       /\ kind = "event" => Event \in DOMAIN db

\* The names a call has written are those of the items it has come by, the
\* last one of each id; when it commits them, Redis has them from it.
Named(w) ==
  /\ \A k \in DOMAIN tx[w] : k[1] = "name" =>
       pc[w] \in NameLabels /\ \E i \in 1..(row[w] - 1) : k = Name(Listing(w)[i][1])
  /\ pc[w] \in {"names", "set_names"} =>
       \A i \in 1..(row[w] - 1) :
         (\A j \in (i + 1)..(row[w] - 1) : Listing(w)[j][1] # Listing(w)[i][1]) =>
           /\ Name(Listing(w)[i][1]) \in DOMAIN tx[w]
           /\ tx[w][Name(Listing(w)[i][1])].name = Listing(w)[i][2]
  /\ pc[w] = "set_names" => row[w] = Len(Listing(w)) + 1
  /\ pc[w] = "commit_names" =>
       \A k \in DOMAIN tx[w] : k[1] = "name" =>
         k[2] \in DOMAIN redis /\ redis[k[2]] = [name |-> tx[w][k].name, by |-> w]

\* A name in Redis is there from a call that has yet to commit it, failed to,
\* or did, and then it is the committed one.
Cached ==
  \A id \in DOMAIN redis : LET w == redis[id].by IN
    /\ w \in Writes /\ pc[w] \in {"commit_names", "ok", "unnamed"}
    /\ pc[w] = "commit_names" => Name(id) \in DOMAIN tx[w]
    /\ pc[w] = "ok" => Name(id) \in DOMAIN db /\ db[Name(id)].name = redis[id].name

\* The inductive invariant.
IInv ==
  /\ Typing /\ Locks /\ Kept /\ Cached
  /\ \A w \in Writes : Reached(w) /\ Wrote(w) /\ Named(w)

-----------------------------------------------------------------------------
(* Indices, keys and rows *)

\* The initial and the final segments of 1..n are ordered by inclusion.
LEMMA LeastIndex ==
  ASSUME NEW n \in Nat, NEW T \in SUBSET (1..n), T # {}
  PROVE  \E i \in T : \A j \in T : i <= j
<1> DEFINE S == 1..n
           Up == {1..i : i \in T}
<1>1. IsWellFoundedOn(StrictSubsetOrdering(S), SUBSET S)
  <2>1. IsFiniteSet(S)
    BY FS_Interval
  <2> HIDE DEF S
  <2>2. FiniteSubsetsOf(S) = SUBSET S
    BY <2>1, FS_FiniteSubsetsOfFinite
  <2>3. IsWellFoundedOn(StrictSubsetOrdering(S), FiniteSubsetsOf(S))
    BY FS_StrictSubsetOrderingWellFounded
  <2> QED BY <2>2, <2>3
<1>2. Up \subseteq SUBSET S /\ Up # {}
  <2>1. \A i \in T : 1..i \subseteq S
    OBVIOUS
  <2>2. PICK i \in T : TRUE
    OBVIOUS
  <2>3. 1..i \in Up
    OBVIOUS
  <2> QED BY <2>1, <2>3
<1>3. PICK x \in Up : \A y \in Up : ~(<<y, x>> \in StrictSubsetOrdering(S))
  <2> HIDE DEF Up
  <2> QED BY <1>1, <1>2, WFMin
<1>4. PICK i \in T : x = 1..i
  BY <1>3
<1>5. ASSUME NEW j \in T PROVE i <= j
  <2> SUFFICES ASSUME j < i PROVE FALSE
    OBVIOUS
  <2>1. 1..j \in Up /\ 1..j \subseteq 1..i /\ i \in 1..i /\ i \notin 1..j
    OBVIOUS
  <2>2. <<1..j, 1..i>> \in StrictSubsetOrdering(S)
    BY <1>2, <2>1 DEF StrictSubsetOrdering
  <2> QED BY <1>3, <1>4, <2>1, <2>2
<1> QED BY <1>5

LEMMA GreatestIndex ==
  ASSUME NEW n \in Nat, NEW T \in SUBSET (1..n), T # {}
  PROVE  \E i \in T : \A j \in T : j <= i
<1> DEFINE U == {n + 1 - i : i \in T}
<1>1. U \in SUBSET (1..n) /\ U # {}
  <2>1. \A i \in T : n + 1 - i \in 1..n
    OBVIOUS
  <2>2. PICK i \in T : TRUE
    OBVIOUS
  <2>3. n + 1 - i \in U
    OBVIOUS
  <2> QED BY <2>1, <2>3
<1>2. PICK u \in U : \A v \in U : u <= v
  <2> HIDE DEF U
  <2> QED BY <1>1, LeastIndex
<1>3. PICK i \in T : u = n + 1 - i
  BY <1>2
<1>4. ASSUME NEW j \in T PROVE j <= i
  <2>1. n + 1 - j \in U
    OBVIOUS
  <2>2. u <= n + 1 - j
    BY <1>2, <2>1
  <2> QED BY <1>3, <2>2
<1> QED BY <1>4

\* Keys of different tables differ, and a key tells what it is the key of.
LEMMA Keys ==
  /\ \A c : Blob(c)[1] = "blob" /\ Blob(c)[2] = c
  /\ \A m, c : Snapshot(m, c)[1] = "snapshot" /\ Snapshot(m, c)[2] = m /\ Snapshot(m, c)[3] = c
  /\ \A c : Manifest(c)[1] = "manifest" /\ Manifest(c)[2] = c
  /\ \A o : Version(o)[1] = "version" /\ Version(o)[2] = o
  /\ \A m, c, id : /\ Entry(m, c, id)[1] = "entry" /\ Entry(m, c, id)[2] = m
                   /\ Entry(m, c, id)[3] = c /\ Entry(m, c, id)[4] = id
  /\ Reference[1] = "reference" /\ Event[1] = "event"
  /\ \A id : Name(id)[1] = "name" /\ Name(id)[2] = id
BY DEF Blob, Snapshot, Manifest, Version, Entry, Reference, Event, Name

LEMMA OverRows ==
  ASSUME NEW f, NEW g
  PROVE  /\ DOMAIN Over(f, g) = DOMAIN f \cup DOMAIN g
         /\ \A k \in DOMAIN g : Over(f, g)[k] = g[k]
         /\ \A k \in DOMAIN f \ DOMAIN g : Over(f, g)[k] = f[k]
BY DEF Over

LEMMA OneRow ==
  ASSUME NEW k, NEW r
  PROVE  DOMAIN Only(k, r) = {k} /\ Only(k, r)[k] = r
BY DEF Only

LEMMA SeenRows ==
  ASSUME NEW w
  PROVE  /\ DOMAIN Sees(w) = DOMAIN db \cup DOMAIN tx[w]
         /\ \A k : Exists(w, k) <=> k \in DOMAIN db \cup DOMAIN tx[w]
         /\ \A k \in DOMAIN tx[w] : Sees(w)[k] = tx[w][k]
         /\ \A k \in DOMAIN db \ DOMAIN tx[w] : Sees(w)[k] = db[k]
<1>1. /\ DOMAIN Over(db, tx[w]) = DOMAIN db \cup DOMAIN tx[w]
      /\ \A k \in DOMAIN tx[w] : Over(db, tx[w])[k] = tx[w][k]
      /\ \A k \in DOMAIN db \ DOMAIN tx[w] : Over(db, tx[w])[k] = db[k]
  BY OverRows
<1> QED BY ONLY <1>1 DEF Exists, Sees

LEMMA EmptyRows == DOMAIN NoRows = {}
BY DEF NoRows

-----------------------------------------------------------------------------
(* Transactions *)

\* A statement by which w writes rows that nobody else has written, and keeps
\* of committed ones what is not to change.
Writing(w, rows) ==
  /\ tx' = [tx EXCEPT ![w] = Over(@, rows)]
  /\ UNCHANGED db
  /\ \A u \in Writes \ {w} : DOMAIN tx[u] \cap DOMAIN rows = {}
  /\ \A k \in DOMAIN rows \cap DOMAIN db : Keeps(k, db[k], rows[k])

\* The rows of an INSERT .. ON CONFLICT DO NOTHING that are new to w.
New(w, rows) == [k \in {j \in DOMAIN rows : ~Exists(w, j)} |-> rows[k]]

LEMMA NoHolders ==
  ASSUME NEW w \in Writes, NEW K, Holders(w, K) = {}
  PROVE  \A u \in Writes \ {w} : DOMAIN tx[u] \cap K = {}
BY DEF Holders

LEMMA InsertWrites ==
  ASSUME NEW w \in Writes, NEW rows, InsertOnce(w, rows), UNCHANGED db
  PROVE  Writing(w, New(w, rows))
<1>1. DOMAIN New(w, rows) = {j \in DOMAIN rows : ~Exists(w, j)}
  BY DEF New
<1>2. \A k \in DOMAIN New(w, rows) : k \in DOMAIN rows /\ k \notin DOMAIN db
  BY <1>1, SeenRows
<1>3. \A u \in Writes \ {w} : DOMAIN tx[u] \cap DOMAIN rows = {}
  BY NoHolders DEF InsertOnce
<1>4. tx' = [tx EXCEPT ![w] = Over(@, New(w, rows))]
  BY DEF InsertOnce, Write, New
<1> QED BY <1>2, <1>3, <1>4 DEF Writing

LEMMA KeepsItself ==
  ASSUME Locks, NEW w \in Writes, NEW k, Exists(w, k), k \in DOMAIN db
  PROVE  Keeps(k, db[k], Sees(w)[k])
<1>1. CASE k \in DOMAIN tx[w]
  BY <1>1, SeenRows DEF Locks
<1>2. CASE k \notin DOMAIN tx[w]
  BY <1>2, SeenRows DEF Keeps
<1> QED BY <1>1, <1>2

\* What an INSERT .. ON CONFLICT DO UPDATE makes of a row.
Upserted(w, k, fresh, set) == IF Exists(w, k) THEN Over(Sees(w)[k], set) ELSE fresh

LEMMA UpsertWrites ==
  ASSUME Locks, NEW w \in Writes, NEW k, NEW fresh, NEW set,
         Upsert(w, k, fresh, set), UNCHANGED db, DOMAIN set \subseteq Mutable(k)
  PROVE  Writing(w, Only(k, Upserted(w, k, fresh, set)))
<1> DEFINE new == Upserted(w, k, fresh, set)
           rows == Only(k, new)
<1>1. DOMAIN rows = {k} /\ rows[k] = new
  BY OneRow
<1>2. tx' = [tx EXCEPT ![w] = Over(@, rows)]
  BY DEF Upsert, Write, Upserted
<1>3. \A u \in Writes \ {w} : DOMAIN tx[u] \cap {k} = {}
  BY NoHolders DEF Upsert
<1>4. ASSUME k \in DOMAIN db PROVE Keeps(k, db[k], new)
  <2>1. Exists(w, k)
    BY <1>4, SeenRows
  <2>2. Keeps(k, db[k], Sees(w)[k])
    BY <1>4, <2>1, KeepsItself
  <2>3. new = Over(Sees(w)[k], set)
    BY <2>1 DEF Upserted
  <2>4. DOMAIN new = DOMAIN Sees(w)[k] \cup DOMAIN set
        /\ \A f \in DOMAIN Sees(w)[k] \ DOMAIN set : new[f] = Sees(w)[k][f]
    <3>1. /\ DOMAIN Over(Sees(w)[k], set) = DOMAIN Sees(w)[k] \cup DOMAIN set
          /\ \A f \in DOMAIN Sees(w)[k] \ DOMAIN set : Over(Sees(w)[k], set)[f] = Sees(w)[k][f]
      BY OverRows
    <3> QED BY ONLY <2>3, <3>1
  <2> QED BY <2>2, <2>4 DEF Keeps
<1> HIDE DEF rows, new
<1>5. Writing(w, rows)
  BY <1>1, <1>2, <1>3, <1>4 DEF Writing
<1> QED BY <1>5 DEF rows, new

Endings == {"new", "ok", "failed", "unnamed"}

LEMMA WritingKeeps ==
  ASSUME Typing, Locks, NEW w \in Writes, NEW rows, Writing(w, rows),
         pc'[w] \notin Endings, \A u \in Writes \ {w} : pc'[u] = pc[u]
  PROVE  /\ Locks'
         /\ tx' \in [Writes -> {tx'[u] : u \in Writes}]
         /\ \A u \in Writes \ {w} : tx'[u] = tx[u]
         /\ DOMAIN tx'[w] = DOMAIN tx[w] \cup DOMAIN rows
         /\ \A k \in DOMAIN rows : tx'[w][k] = rows[k]
         /\ \A k \in DOMAIN tx[w] \ DOMAIN rows : tx'[w][k] = tx[w][k]
<1>1. /\ tx' \in [Writes -> {tx'[u] : u \in Writes}] /\ tx'[w] = Over(tx[w], rows)
      /\ \A u \in Writes \ {w} : tx'[u] = tx[u]
  BY DEF Writing, Typing
<1>2. /\ DOMAIN tx'[w] = DOMAIN tx[w] \cup DOMAIN rows
      /\ \A k \in DOMAIN rows : tx'[w][k] = rows[k]
      /\ \A k \in DOMAIN tx[w] \ DOMAIN rows : tx'[w][k] = tx[w][k]
  <2>1. /\ DOMAIN Over(tx[w], rows) = DOMAIN tx[w] \cup DOMAIN rows
        /\ \A k \in DOMAIN rows : Over(tx[w], rows)[k] = rows[k]
        /\ \A k \in DOMAIN tx[w] \ DOMAIN rows : Over(tx[w], rows)[k] = tx[w][k]
    BY OverRows
  <2> QED BY ONLY <1>1, <2>1
<1>3. \A u \in Writes : pc'[u] = "new" \/ Ended(u)' => tx'[u] = NoRows
  BY <1>1 DEF Locks, Ended, Endings
<1>4. \A u \in Writes \ {w} : DOMAIN tx'[u] \cap DOMAIN tx'[w] = {}
  BY <1>1, <1>2 DEF Locks, Writing
<1>5. \A u, v \in Writes : u # v => DOMAIN tx'[u] \cap DOMAIN tx'[v] = {}
  BY <1>1, <1>4 DEF Locks
<1>6. ASSUME NEW u \in Writes, NEW k \in DOMAIN tx'[u] \cap DOMAIN db'
      PROVE  Keeps(k, db'[k], tx'[u][k])
  <2>1. db' = db
    BY DEF Writing
  <2>2. CASE u # w
    BY <1>1, <1>6, <2>1, <2>2 DEF Locks
  <2>3. CASE u = w /\ k \in DOMAIN rows
    BY <1>2, <1>6, <2>1, <2>3 DEF Writing
  <2>4. CASE u = w /\ k \notin DOMAIN rows
    BY <1>2, <1>6, <2>1, <2>4 DEF Locks
  <2> QED BY <2>2, <2>3, <2>4
<1>7. Locks'
  BY <1>3, <1>5, <1>6 DEF Locks, Keeps, Mutable
<1> QED BY <1>1, <1>2, <1>7

\* A transaction ends without a trace in the committed rows.
LEMMA EndKeeps ==
  ASSUME Typing, Locks, NEW w \in Writes, NEW status, End(w, status), UNCHANGED db
  PROVE  /\ Locks'
         /\ tx' \in [Writes -> {tx'[u] : u \in Writes}]
         /\ tx'[w] = NoRows
         /\ \A u \in Writes \ {w} : tx'[u] = tx[u] /\ pc'[u] = pc[u]
         /\ pc'[w] = status
<1>1. /\ tx' \in [Writes -> {tx'[u] : u \in Writes}] /\ tx'[w] = NoRows
      /\ \A u \in Writes \ {w} : tx'[u] = tx[u] /\ pc'[u] = pc[u]
      /\ pc'[w] = status
  BY DEF End, Typing
<1>2. \A u \in Writes : pc'[u] = "new" \/ Ended(u)' => tx'[u] = NoRows
  BY <1>1 DEF Locks, Ended
<1>3. \A u, v \in Writes : u # v => DOMAIN tx'[u] \cap DOMAIN tx'[v] = {}
  BY <1>1, EmptyRows DEF Locks
<1>4. ASSUME NEW u \in Writes, NEW k \in DOMAIN tx'[u] \cap DOMAIN db'
      PROVE  Keeps(k, db'[k], tx'[u][k])
  <2>1. u # w
    BY <1>1, <1>4, EmptyRows
  <2> QED BY <1>1, <1>4, <2>1 DEF Locks
<1>5. Locks'
  BY <1>2, <1>3, <1>4 DEF Locks, Keeps, Mutable
<1> QED BY <1>1, <1>5

\* A transaction commits: its rows are on top of the others.
LEMMA CommitKeeps ==
  ASSUME Typing, Locks, NEW w \in Writes, NEW status, End(w, status), db' = Sees(w)
  PROVE  /\ Locks'
         /\ tx' \in [Writes -> {tx'[u] : u \in Writes}]
         /\ tx'[w] = NoRows
         /\ \A u \in Writes \ {w} : tx'[u] = tx[u] /\ pc'[u] = pc[u]
         /\ pc'[w] = status
         /\ \A k \in DOMAIN db : Keeps(k, db[k], db'[k])
<1>1. /\ tx' \in [Writes -> {tx'[u] : u \in Writes}] /\ tx'[w] = NoRows
      /\ \A u \in Writes \ {w} : tx'[u] = tx[u] /\ pc'[u] = pc[u]
      /\ pc'[w] = status
  BY DEF End, Typing
<1>2. \A u \in Writes : pc'[u] = "new" \/ Ended(u)' => tx'[u] = NoRows
  BY <1>1 DEF Locks, Ended
<1>3. \A u, v \in Writes : u # v => DOMAIN tx'[u] \cap DOMAIN tx'[v] = {}
  BY <1>1, EmptyRows DEF Locks
<1>4. ASSUME NEW u \in Writes, NEW k \in DOMAIN tx'[u] \cap DOMAIN db'
      PROVE  Keeps(k, db'[k], tx'[u][k])
  <2>1. u # w
    BY <1>1, <1>4, EmptyRows
  <2>2. k \in DOMAIN tx[u] /\ tx'[u] = tx[u]
    BY <1>1, <1>4, <2>1
  <2>3. k \notin DOMAIN tx[w]
    BY <2>1, <2>2 DEF Locks
  <2>4. k \in DOMAIN db /\ db'[k] = db[k]
    BY <1>4, <2>3, SeenRows
  <2> QED BY <2>2, <2>4 DEF Locks
<1>5. Locks'
  BY <1>2, <1>3, <1>4 DEF Locks, Keeps, Mutable
<1>6. ASSUME NEW k \in DOMAIN db PROVE Keeps(k, db[k], db'[k])
  BY <1>6, KeepsItself, SeenRows
<1> QED BY <1>1, <1>5, <1>6

-----------------------------------------------------------------------------
(* What a step of one call means for the others *)

LEMMA SeenNext ==
  ASSUME NEW w
  PROVE  \A k : Exists(w, k)' <=> k \in DOMAIN db' \cup DOMAIN tx'[w]
BY DEF Exists, Sees, Over

\* Nothing of u changes, and no committed row goes away.
Apart(u) ==
  /\ UNCHANGED <<kind, content>>
  /\ pc'[u] = pc[u] /\ row'[u] = row[u] /\ minute'[u] = minute[u] /\ tx'[u] = tx[u]
  /\ DOMAIN db \subseteq DOMAIN db' /\ files \subseteq files'

LEMMA ApartKeeps ==
  ASSUME NEW u \in Writes, Apart(u), Reached(u), Wrote(u)
  PROVE  Reached(u)' /\ Wrote(u)'
<1>1. \A k : Exists(u, k) => Exists(u, k)'
  BY SeenRows, SeenNext DEF Apart
<1>2. MySnapshot(u)' = MySnapshot(u)
  BY DEF Apart, MySnapshot
<1>3. Reached(u)'
  BY <1>1, <1>2 DEF Apart, Reached, Committing
<1>4. Wrote(u)'
  BY <1>1, <1>2 DEF Apart, Wrote, RowOf
<1> QED BY <1>3, <1>4

\* A step of x that commits nothing and is not about the names in Redis.
Acts(x) ==
  /\ UNCHANGED <<kind, content, db, redis>>
  /\ files \subseteq files'
  /\ \A u \in Writes \ {x} :
       pc'[u] = pc[u] /\ row'[u] = row[u] /\ minute'[u] = minute[u] /\ tx'[u] = tx[u]
  /\ {pc[x], pc'[x]} \cap {"commit_names", "ok", "unnamed"} = {}
  /\ Stored(x) => Stored(x)' /\ minute'[x] = minute[x]

LEMMA KeptStays ==
  ASSUME Kept, UNCHANGED <<kind, content, db>>, files \subseteq files',
         \A u \in Writes : Stored(u) => Stored(u)' /\ minute'[u] = minute[u],
         \A u \in Writes : Stored(u)' => Stored(u)
  PROVE  Kept'
<1>1. \A u \in Writes : Stored(u)' => MySnapshot(u)' = MySnapshot(u)
  BY DEF MySnapshot
<1> QED BY <1>1 DEF Kept, Minutes, Timed, Referred

LEMMA ActsKeeps ==
  ASSUME IInv, NEW x \in Writes, Acts(x), Stored(x)' => Stored(x)
  PROVE  /\ Kept' /\ Cached'
         /\ \A u \in Writes \ {x} : Reached(u)' /\ Wrote(u)' /\ Named(u)'
<1>1. \A u \in Writes : Stored(u) <=> Stored(u)'
  BY DEF Acts, Stored
<1>2. Kept'
  BY <1>1, KeptStays DEF IInv, Acts
<1>3. Cached'
  <2> SUFFICES ASSUME NEW id \in DOMAIN redis
               PROVE  LET w == redis[id].by IN
                        /\ w \in Writes /\ pc'[w] \in {"commit_names", "ok", "unnamed"}
                        /\ pc'[w] = "commit_names" => Name(id) \in DOMAIN tx'[w]
                        /\ pc'[w] = "ok" => Name(id) \in DOMAIN db /\ db[Name(id)].name = redis[id].name
    BY DEF Cached, Acts
  <2>1. redis[id].by # x /\ redis[id].by \in Writes
    BY DEF IInv, Cached, Acts
  <2> QED BY <2>1 DEF IInv, Cached, Acts
<1>4. ASSUME NEW u \in Writes \ {x}
      PROVE  Reached(u)' /\ Wrote(u)' /\ Named(u)'
  <2>1. Apart(u)
    BY DEF Acts, Apart
  <2>2. Listing(u)' = Listing(u)
    BY DEF Acts, Listing, OrdersIn
  <2>3. Named(u)'
    <3>1. pc'[u] = pc[u] /\ row'[u] = row[u] /\ tx'[u] = tx[u] /\ redis' = redis
      BY DEF Acts
    <3>2. Named(u)
      BY DEF IInv
    <3> QED BY <2>2, <3>1, <3>2 DEF Named, NameLabels
  <2> QED BY <2>1, <2>3, ApartKeeps DEF IInv
<1> QED BY <1>2, <1>3, <1>4

\* A statement of x keeps the invariant if x itself stands where it should.
LEMMA StatementKeeps ==
  ASSUME IInv, NEW x \in Writes, Acts(x), Stored(x)' => Stored(x), Locks', Typing',
         Reached(x)', Wrote(x)', Named(x)'
  PROVE  IInv'
<1>1. /\ Kept' /\ Cached'
      /\ \A u \in Writes \ {x} : Reached(u)' /\ Wrote(u)' /\ Named(u)'
  BY ActsKeeps
<1> QED BY <1>1 DEF IInv

\* What x has written before, and what it writes now.
LEMMA WroteGrows ==
  ASSUME IInv, NEW x \in Writes, NEW rows, Writing(x, rows),
         UNCHANGED <<kind, content, minute>>, files \subseteq files',
         DOMAIN tx'[x] = DOMAIN tx[x] \cup DOMAIN rows,
         \A k \in DOMAIN rows : tx'[x][k] = rows[k],
         \A k \in DOMAIN rows : \A r : r = rows[k] => RowOf(x, k, r)',
         \A k \in DOMAIN tx[x] \ DOMAIN rows : tx'[x][k] = tx[x][k]
  PROVE  Wrote(x)'
<1>1. \A k : Exists(x, k) => Exists(x, k)'
  BY SeenRows, SeenNext DEF Writing
<1>2. MySnapshot(x)' = MySnapshot(x)
  BY DEF MySnapshot
<1>3. ASSUME NEW k \in DOMAIN tx[x] \ DOMAIN rows, NEW r, r = tx'[x][k]
      PROVE  RowOf(x, k, r)'
  <2>1. RowOf(x, k, r)
    BY <1>3 DEF IInv, Wrote
  <2>2. db' = db
    BY DEF Writing
  <2> QED BY <1>1, <1>2, <2>1, <2>2 DEF RowOf
<1>4. ASSUME NEW k \in DOMAIN rows, NEW r, r = tx'[x][k]
      PROVE  RowOf(x, k, r)'
  BY <1>4
<1>5. \A k \in DOMAIN tx'[x] : \A r : r = tx'[x][k] => RowOf(x, k, r)'
  BY <1>3, <1>4
<1> QED BY <1>5 DEF Wrote, RowOf

\* Without names before and after, there is nothing to say of them.
LEMMA NoNames ==
  ASSUME IInv, NEW x \in Writes, pc[x] \notin NameLabels, pc'[x] \notin NameLabels,
         \A k \in DOMAIN tx'[x] \ DOMAIN tx[x] : k[1] # "name"
  PROVE  Named(x)'
BY DEF IInv, Named, NameLabels

-----------------------------------------------------------------------------
(* The statements of write_snapshot *)

Writers ==
  {"blob", "snapshot", "manifest", "insert_manifest", "versions", "relabel",
   "reference", "event", "commit"}

\* x goes to l and nobody else goes anywhere.
Moves(x, l) ==
  /\ pc' \in [Writes -> Labels] /\ pc'[x] = l
  /\ \A u \in Writes \ {x} : pc'[u] = pc[u]

LEMMA GotoMoves ==
  ASSUME Typing, NEW x \in Writes, NEW l \in Labels, Goto(x, l)
  PROVE  Moves(x, l)
BY DEF Typing, Goto, Moves

LEMMA TypingStays ==
  ASSUME IInv, NEW x \in Writes, NEW l, Moves(x, l), OfKind(x)',
         UNCHANGED <<kind, content, minute, clock>>, files' \subseteq Writes,
         tx' \in [Writes -> {tx'[u] : u \in Writes}],
         row' \in [Writes -> Nat \ {0}], \A u \in Writes : row'[u] <= Len(Listing(u)) + 1
  PROVE  Typing'
<1>1. \A u \in Writes : Listing(u)' = Listing(u)
  BY DEF Listing, OrdersIn
<1>2. \A u \in Writes : OfKind(u)'
  BY DEF IInv, Typing, OfKind, Moves
<1> QED BY <1>1, <1>2 DEF IInv, Typing, Moves, Writes, Minutes

\* x writes rows and moves on.
LEMMA WritingStep ==
  ASSUME IInv, NEW x \in Writes, NEW l \in Writers, NEW rows, pc[x] \in Writers,
         Moves(x, l), Writing(x, rows),
         UNCHANGED <<kind, content, minute, files, clock, redis>>,
         row' \in [Writes -> Nat \ {0}], \A u \in Writes \ {x} : row'[u] = row[u],
         row'[x] <= Len(Listing(x)) + 1, OfKind(x)',
         \A k \in DOMAIN rows : k[1] # "name"
  PROVE  /\ Typing' /\ Locks' /\ Acts(x) /\ (Stored(x)' => Stored(x)) /\ Named(x)'
         /\ (\A k \in DOMAIN rows : \A r : r = rows[k] => RowOf(x, k, r)') => Wrote(x)'
         /\ \A k : Exists(x, k)' <=> Exists(x, k) \/ k \in DOMAIN rows
         /\ \A k \in DOMAIN rows : k \in DOMAIN tx'[x] /\ tx'[x][k] = rows[k]
<1>1. /\ Locks'
      /\ tx' \in [Writes -> {tx'[u] : u \in Writes}]
      /\ \A u \in Writes \ {x} : tx'[u] = tx[u]
      /\ DOMAIN tx'[x] = DOMAIN tx[x] \cup DOMAIN rows
      /\ \A k \in DOMAIN rows : tx'[x][k] = rows[k]
      /\ \A k \in DOMAIN tx[x] \ DOMAIN rows : tx'[x][k] = tx[x][k]
  <2>1. pc'[x] \notin Endings /\ \A u \in Writes \ {x} : pc'[u] = pc[u]
    BY DEF Moves, Writers, Endings
  <2> QED BY <2>1, WritingKeeps DEF IInv
<1>2. Typing'
  <2>1. \A u \in Writes : row'[u] <= Len(Listing(u)) + 1
    BY DEF IInv, Typing
  <2>2. files' \subseteq Writes
    BY DEF IInv, Typing
  <2> QED BY <1>1, <2>1, <2>2, TypingStays
<1>3. db' = db
  BY DEF Writing
<1>4. Acts(x) /\ (Stored(x)' => Stored(x))
  BY <1>1, <1>3 DEF Acts, Moves, Stored, Writers
<1>5. Named(x)'
  <2>1. \A k \in DOMAIN tx'[x] \ DOMAIN tx[x] : k[1] # "name"
    BY <1>1
  <2>2. pc[x] \notin NameLabels /\ pc'[x] \notin NameLabels
    BY DEF Moves, Writers, NameLabels
  <2> QED BY <2>1, <2>2, NoNames
<1>6. \A k : Exists(x, k)' <=> Exists(x, k) \/ k \in DOMAIN rows
  BY <1>1, <1>3, SeenRows, SeenNext
<1>7. ASSUME \A k \in DOMAIN rows : \A r : r = rows[k] => RowOf(x, k, r)'
      PROVE  Wrote(x)'
  <2> QED BY <1>1, <1>7, WroteGrows
<1> QED BY <1>1, <1>2, <1>4, <1>5, <1>6, <1>7

\* The same for an INSERT .. ON CONFLICT DO NOTHING.
LEMMA InsertStep ==
  ASSUME IInv, NEW x \in Writes, NEW l \in Writers, NEW rows, pc[x] \in Writers,
         Goto(x, l), InsertOnce(x, rows),
         UNCHANGED <<argVars, db, files, row, clock, redis>>, OfKind(x)',
         \A k \in DOMAIN rows : k[1] # "name"
  PROVE  /\ Typing' /\ Locks' /\ Acts(x) /\ (Stored(x)' => Stored(x)) /\ Named(x)'
         /\ (\A k \in DOMAIN rows : \A r : r = rows[k] => RowOf(x, k, r)') => Wrote(x)'
         /\ \A k : Exists(x, k)' <=> Exists(x, k) \/ k \in DOMAIN rows
<1> DEFINE new == New(x, rows)
<1>1. Writing(x, new)
  BY InsertWrites
<1>2. /\ DOMAIN new = {j \in DOMAIN rows : ~Exists(x, j)}
      /\ \A k \in DOMAIN new : new[k] = rows[k]
  BY DEF New
<1>3. Moves(x, l)
  BY GotoMoves DEF IInv, Writers, Labels
<1>4. UNCHANGED <<kind, content, minute, files, clock, redis>>
  BY DEF argVars
<1>5. /\ row' \in [Writes -> Nat \ {0}] /\ \A u \in Writes \ {x} : row'[u] = row[u]
      /\ row'[x] <= Len(Listing(x)) + 1
  BY DEF IInv, Typing
<1> HIDE DEF new
<1>6. /\ Typing' /\ Locks' /\ Acts(x) /\ (Stored(x)' => Stored(x)) /\ Named(x)'
      /\ (\A k \in DOMAIN new : \A r : r = new[k] => RowOf(x, k, r)') => Wrote(x)'
      /\ \A k : Exists(x, k)' <=> Exists(x, k) \/ k \in DOMAIN new
  BY <1>1, <1>2, <1>3, <1>4, <1>5, WritingStep
<1> QED BY <1>2, <1>6

LEMMA BlobKeeps == ASSUME IInv, NEW x \in Writes, WriteBlob(x) PROVE IInv'
<1> DEFINE rows == Only(Blob(content[x]), [of |-> content[x]])
<1>1. /\ pc[x] = "blob" /\ Goto(x, "snapshot") /\ InsertOnce(x, rows)
      /\ UNCHANGED <<argVars, db, files, row, clock, redis>>
  BY DEF WriteBlob
<1>2. DOMAIN rows = {Blob(content[x])} /\ \A k \in DOMAIN rows : k[1] = "blob"
  <2>1. DOMAIN rows = {Blob(content[x])}
    BY OneRow
  <2> QED BY <2>1, Keys
<1>3. pc'[x] = "snapshot" /\ UNCHANGED <<kind, content, minute>>
  BY <1>1 DEF Goto, IInv, Typing, argVars
<1>4. OfKind(x)'
  BY <1>1, <1>3 DEF IInv, Typing, OfKind, NameLabels
<1> HIDE DEF rows
<1>5. /\ Typing' /\ Locks' /\ Acts(x) /\ (Stored(x)' => Stored(x)) /\ Named(x)'
      /\ (\A k \in DOMAIN rows : \A r : r = rows[k] => RowOf(x, k, r)') => Wrote(x)'
      /\ \A k : Exists(x, k)' <=> Exists(x, k) \/ k \in DOMAIN rows
  BY <1>1, <1>2, <1>4, InsertStep DEF Writers
<1>6. Wrote(x)'
  BY <1>2, <1>5 DEF RowOf
<1>7. Reached(x)'
  BY <1>1, <1>2, <1>3, <1>5 DEF IInv, Reached, Committing
<1> QED BY <1>5, <1>6, <1>7, StatementKeeps

LEMMA TimeseriesKeeps == ASSUME IInv, NEW x \in Writes, WriteTimeseries(x) PROVE IInv'
<1> DEFINE rows == Only(MySnapshot(x), [fetched |-> x, storage |-> "compressed_json"])
<1>1. PICK l \in {"manifest", "commit"} :
        /\ pc[x] = "snapshot" /\ Goto(x, l) /\ InsertOnce(x, rows)
        /\ UNCHANGED <<argVars, db, files, row, clock, redis>>
        /\ l = IF kind = "market" THEN "manifest" ELSE "commit"
  BY DEF WriteTimeseries
<1>2. /\ DOMAIN rows = {MySnapshot(x)} /\ MySnapshot(x)[1] = "snapshot"
      /\ rows[MySnapshot(x)] = [fetched |-> x, storage |-> "compressed_json"]
  <2>1. DOMAIN rows = {MySnapshot(x)} /\ rows[MySnapshot(x)] = [fetched |-> x, storage |-> "compressed_json"]
    BY OneRow
  <2>2. MySnapshot(x)[1] = "snapshot"
    BY Keys DEF MySnapshot
  <2> QED BY <2>1, <2>2
<1>3. pc'[x] = l /\ UNCHANGED <<kind, content, minute>> /\ MySnapshot(x)' = MySnapshot(x)
  BY <1>1 DEF Goto, IInv, Typing, argVars, MySnapshot
<1>4. kind \in Timed /\ OfKind(x)'
  BY <1>1, <1>3 DEF IInv, Typing, OfKind, NameLabels
<1> HIDE DEF rows
<1>5. /\ Typing' /\ Locks' /\ Acts(x) /\ (Stored(x)' => Stored(x)) /\ Named(x)'
      /\ (\A k \in DOMAIN rows : \A r : r = rows[k] => RowOf(x, k, r)') => Wrote(x)'
      /\ \A k : Exists(x, k)' <=> Exists(x, k) \/ k \in DOMAIN rows
  BY <1>1, <1>2, <1>4, InsertStep DEF Writers
<1>6. Wrote(x)'
  <2> SUFFICES ASSUME NEW k, k = MySnapshot(x), NEW r, r = rows[k] PROVE RowOf(x, k, r)'
    BY <1>2, <1>5
  <2> QED BY <1>2, <1>3, <1>4 DEF RowOf
<1>7. Reached(x)'
  BY <1>1, <1>2, <1>3, <1>4, <1>5 DEF IInv, Reached, Committing, Timed, Referred
<1> QED BY <1>5, <1>6, <1>7, StatementKeeps

LEMMA ManifestKeeps == ASSUME IInv, NEW x \in Writes, InsertManifest(x) PROVE IInv'
<1> DEFINE c == content[x]
           rows == Only(Manifest(c), [file |-> x])
<1>1. /\ pc[x] = "insert_manifest" /\ Goto(x, "versions") /\ InsertOnce(x, rows)
      /\ UNCHANGED <<argVars, db, files, row, clock, redis>>
  BY DEF InsertManifest
<1>2. DOMAIN rows = {Manifest(c)} /\ Manifest(c)[1] = "manifest" /\ rows[Manifest(c)] = [file |-> x]
  <2>1. DOMAIN rows = {Manifest(c)} /\ rows[Manifest(c)] = [file |-> x]
    BY OneRow
  <2> QED BY <2>1, Keys
<1>3. pc'[x] = "versions" /\ UNCHANGED <<kind, content, minute>> /\ MySnapshot(x)' = MySnapshot(x)
  BY <1>1 DEF Goto, IInv, Typing, argVars, MySnapshot
<1>4. OfKind(x)' /\ x \in files
  BY <1>1, <1>3 DEF IInv, Typing, OfKind, NameLabels, Reached
<1> HIDE DEF rows
<1>5. /\ Typing' /\ Locks' /\ Acts(x) /\ (Stored(x)' => Stored(x)) /\ Named(x)'
      /\ (\A k \in DOMAIN rows : \A r : r = rows[k] => RowOf(x, k, r)') => Wrote(x)'
      /\ \A k : Exists(x, k)' <=> Exists(x, k) \/ k \in DOMAIN rows
  BY <1>1, <1>2, <1>4, InsertStep DEF Writers
<1>6. Wrote(x)'
  <2> SUFFICES ASSUME NEW k, k = Manifest(c), NEW r, r = rows[k] PROVE RowOf(x, k, r)'
    BY <1>2, <1>5
  <2> QED BY <1>1, <1>2, <1>3, <1>4 DEF RowOf
<1>7. Reached(x)'
  BY <1>1, <1>2, <1>3, <1>5 DEF IInv, Reached, Committing
<1> QED BY <1>5, <1>6, <1>7, StatementKeeps

LEMMA EventKeeps == ASSUME IInv, NEW x \in Writes, WriteEvent(x) PROVE IInv'
<1> DEFINE rows == Only(Event, [body |-> content[x]])
<1>1. /\ pc[x] = "event" /\ Goto(x, "commit") /\ InsertOnce(x, rows)
      /\ UNCHANGED <<argVars, db, files, row, clock, redis>>
  BY DEF WriteEvent
<1>2. DOMAIN rows = {Event} /\ Event[1] = "event" /\ rows[Event] = [body |-> content[x]]
  <2>1. DOMAIN rows = {Event} /\ rows[Event] = [body |-> content[x]]
    BY DEF Only
  <2> QED BY <2>1, Keys
<1>3. pc'[x] = "commit" /\ UNCHANGED <<kind, content, minute>>
  BY <1>1 DEF Goto, IInv, Typing, argVars
<1>4. OfKind(x)' /\ kind = "event"
  BY <1>1, <1>3 DEF IInv, Typing, OfKind, NameLabels
<1> HIDE DEF rows
<1>5. /\ Typing' /\ Locks' /\ Acts(x) /\ (Stored(x)' => Stored(x)) /\ Named(x)'
      /\ (\A k \in DOMAIN rows : \A r : r = rows[k] => RowOf(x, k, r)') => Wrote(x)'
      /\ \A k : Exists(x, k)' <=> Exists(x, k) \/ k \in DOMAIN rows
  BY <1>1, <1>2, <1>4, InsertStep DEF Writers
<1>6. Wrote(x)'
  <2> SUFFICES ASSUME NEW r, r = rows[Event] PROVE RowOf(x, Event, r)'
    BY <1>2, <1>5
  <2> QED BY <1>2, <1>3, <1>4 DEF RowOf
<1>7. Reached(x)'
  BY <1>2, <1>3, <1>4, <1>5 DEF Reached, Committing, Timed, Referred
<1> QED BY <1>5, <1>6, <1>7, StatementKeeps

LEMMA ReferenceKeeps == ASSUME IInv, NEW x \in Writes, UpsertReference(x) PROVE IInv'
<1> DEFINE set == [body |-> content[x], last |-> x]
           fresh == [body |-> content[x], first |-> x, last |-> x]
           new == Upserted(x, Reference, fresh, set)
           rows == Only(Reference, new)
<1>1. /\ pc[x] = "reference" /\ Goto(x, "commit") /\ Upsert(x, Reference, fresh, set)
      /\ UNCHANGED <<argVars, db, files, row, clock, redis>>
  BY DEF UpsertReference
<1>2. DOMAIN rows = {Reference} /\ rows[Reference] = new /\ Reference[1] = "reference"
  <2>1. Reference[1] = "reference"
    BY Keys
  <2> HIDE DEF new
  <2> QED BY <2>1 DEF Only
<1>3. new.body = content[x]
  <2>1. "body" \in DOMAIN set
    OBVIOUS
  <2>2. CASE Exists(x, Reference)
    <3> DEFINE old == Sees(x)[Reference]
    <3>1. new = Over(old, set)
      BY <2>2 DEF Upserted
    <3>2. Over(old, set)["body"] = set["body"]
      <4> HIDE DEF old, set
      <4>1. \A k \in DOMAIN set : Over(old, set)[k] = set[k]
        BY OverRows
      <4> QED BY <2>1, <4>1
    <3> QED BY <3>1, <3>2
  <2>3. CASE ~Exists(x, Reference)
    BY <2>3 DEF Upserted
  <2> QED BY <2>2, <2>3
<1>4. Writing(x, rows)
  <2>1. DOMAIN set \subseteq Mutable(Reference)
    BY DEF Mutable
  <2> HIDE DEF set, fresh
  <2> QED BY <1>1, <2>1, UpsertWrites DEF IInv
<1>5. Moves(x, "commit") /\ UNCHANGED <<kind, content, minute, row, files, clock, redis>>
  BY <1>1, GotoMoves DEF IInv, Labels, argVars
<1>6. OfKind(x)' /\ kind \in Referred
  BY <1>1, <1>5 DEF IInv, Typing, OfKind, NameLabels, Moves
<1> HIDE DEF rows, new
<1>7. /\ row' \in [Writes -> Nat \ {0}] /\ \A u \in Writes \ {x} : row'[u] = row[u]
      /\ row'[x] <= Len(Listing(x)) + 1
  BY <1>5 DEF IInv, Typing
<1>8. /\ Typing' /\ Locks' /\ Acts(x) /\ (Stored(x)' => Stored(x)) /\ Named(x)'
      /\ (\A k \in DOMAIN rows : \A r : r = rows[k] => RowOf(x, k, r)') => Wrote(x)'
      /\ \A k : Exists(x, k)' <=> Exists(x, k) \/ k \in DOMAIN rows
  BY <1>1, <1>2, <1>4, <1>5, <1>6, <1>7, WritingStep DEF Writers
<1>9. Wrote(x)'
  <2> SUFFICES ASSUME NEW r, r = rows[Reference] PROVE RowOf(x, Reference, r)'
    BY <1>2, <1>8
  <2> QED BY <1>2, <1>3, <1>5, <1>6 DEF RowOf
<1>10. Reached(x)'
  BY <1>1, <1>2, <1>5, <1>6, <1>8 DEF IInv, Moves, Reached, Committing, Timed, Referred
<1> QED BY <1>8, <1>9, <1>10, StatementKeeps

LEMMA VersionKeeps == ASSUME IInv, NEW x \in Writes, UpsertVersion(x) PROVE IInv'
<1> DEFINE key == Version(OrdersIn(x)[row[x]])
           new == Upserted(x, key, [first |-> x, last |-> x], [last |-> x])
           rows == Only(key, new)
<1>1. /\ pc[x] = "versions" /\ row[x] <= Len(OrdersIn(x))
      /\ Upsert(x, key, [first |-> x, last |-> x], [last |-> x])
      /\ row' = [row EXCEPT ![x] = @ + 1]
      /\ UNCHANGED <<argVars, db, files, pc, clock, redis>>
  BY DEF UpsertVersion
<1>2. DOMAIN rows = {key} /\ key[1] = "version"
  <2>1. DOMAIN rows = {key}
    BY OneRow
  <2> QED BY <2>1, Keys
<1>3. Writing(x, rows)
  <2>1. DOMAIN [last |-> x] \subseteq Mutable(key)
    BY DEF Mutable
  <2> HIDE DEF key
  <2> QED BY <1>1, <2>1, UpsertWrites DEF IInv
<1>4. Moves(x, "versions") /\ UNCHANGED <<kind, content, minute, files, clock, redis>>
  BY <1>1 DEF IInv, Typing, Moves, argVars
<1>5. OfKind(x)' /\ kind = "market"
  BY <1>1, <1>4 DEF IInv, Typing, OfKind, NameLabels, Moves
<1>6. /\ row' \in [Writes -> Nat \ {0}] /\ \A u \in Writes \ {x} : row'[u] = row[u]
      /\ row'[x] = row[x] + 1 /\ row[x] \in Nat \ {0} /\ row'[x] <= Len(Listing(x)) + 1
  <2>1. Listing(x) = OrdersIn(x) /\ Len(OrdersIn(x)) \in Nat
    BY <1>5, ArchiveAssumption DEF Listing, OrdersIn, IInv, Typing
  <2>2. row[x] \in Nat \ {0} /\ row'[x] = row[x] + 1 /\ \A u \in Writes \ {x} : row'[u] = row[u]
    BY <1>1 DEF IInv, Typing
  <2>3. row' \in [Writes -> Nat \ {0}]
    <3>1. row \in [Writes -> Nat \ {0}]
      BY DEF IInv, Typing
    <3>2. row[x] + 1 \in Nat \ {0}
      BY <2>2
    <3> QED BY <1>1, <3>1, <3>2
  <2>4. row[x] + 1 <= Len(Listing(x)) + 1
    BY <1>1, <2>1, <2>2
  <2> QED BY <2>2, <2>3, <2>4
<1> HIDE DEF rows, new, key
<1>7. /\ Typing' /\ Locks' /\ Acts(x) /\ (Stored(x)' => Stored(x)) /\ Named(x)'
      /\ (\A k \in DOMAIN rows : \A r : r = rows[k] => RowOf(x, k, r)') => Wrote(x)'
      /\ \A k : Exists(x, k)' <=> Exists(x, k) \/ k \in DOMAIN rows
  BY <1>1, <1>2, <1>3, <1>4, <1>5, <1>6, WritingStep DEF Writers
<1>8. Wrote(x)'
  BY <1>2, <1>7 DEF RowOf
<1>9. Reached(x)'
  <2>1. \A i \in 1..(row'[x] - 1) : Exists(x, Version(OrdersOf[content[x]][i]))'
    <3> SUFFICES ASSUME NEW i \in 1..(row'[x] - 1), NEW k, k = Version(OrdersOf[content[x]][i])
                 PROVE  Exists(x, k)'
      BY <1>4
    <3>1. CASE i = row[x]
      BY <1>2, <1>7, <3>1 DEF key, OrdersIn
    <3>2. CASE i # row[x]
      <4>1. i \in 1..(row[x] - 1)
        BY <1>6, <3>2
      <4> QED BY <1>1, <1>7, <4>1 DEF IInv, Reached
    <3> QED BY <3>1, <3>2
  <2>2. MySnapshot(x)' = MySnapshot(x)
    BY <1>4 DEF MySnapshot
  <2> QED BY <1>1, <1>4, <1>7, <2>1, <2>2 DEF IInv, Reached, Moves, Committing
<1> QED BY <1>7, <1>8, <1>9, StatementKeeps

\* The row of its own snapshot, when x sees it.
LEMMA SnapshotSeen ==
  ASSUME IInv, NEW x \in Writes, Exists(x, MySnapshot(x)),
         NEW old, old = Sees(x)[MySnapshot(x)]
  PROVE  /\ {"fetched", "storage"} \subseteq DOMAIN old
         /\ old.fetched = x \/ MySnapshot(x) \in DOMAIN db
<1> DEFINE key == MySnapshot(x)
<1>1. key = Snapshot(minute[x], content[x]) /\ minute[x] \in Minutes /\ content[x] \in Contents
  BY DEF IInv, Typing, MySnapshot
<1>2. CASE key \in DOMAIN tx[x]
  <2>1. key[1] = "snapshot"
    BY <1>1, Keys
  <2>2. RowOf(x, key, tx[x][key]) /\ old = tx[x][key]
    BY <1>2, SeenRows DEF IInv, Wrote
  <2> QED BY <2>1, <2>2 DEF RowOf
<1>3. CASE key \notin DOMAIN tx[x]
  <2>1. key \in DOMAIN db /\ old = db[key]
    BY <1>3, SeenRows
  <2>2. {"fetched", "storage"} \subseteq DOMAIN db[Snapshot(minute[x], content[x])]
    BY <1>1, <2>1 DEF IInv, Kept
  <2> QED BY <1>1, <2>1, <2>2
<1> QED BY <1>2, <1>3

LEMMA RelabelKeeps == ASSUME IInv, NEW x \in Writes, Relabel(x) PROVE IInv'
<1> DEFINE key == MySnapshot(x)
           old == Sees(x)[key]
           new == [old EXCEPT !.storage = "market_parquet_delta"]
           rows == Only(key, new)
<1>1. /\ pc[x] = "relabel" /\ Goto(x, "commit") /\ Holders(x, {key}) = {} /\ Write(x, rows)
      /\ UNCHANGED <<argVars, db, files, row, clock, redis>>
  BY DEF Relabel
<1>2. DOMAIN rows = {key} /\ rows[key] = new
  BY OneRow
<1>3. Exists(x, key) /\ key[1] = "snapshot"
  <2>1. key[1] = "snapshot"
    BY Keys DEF MySnapshot
  <2> QED BY <1>1, <2>1 DEF IInv, Reached
<1>4. /\ {"fetched", "storage"} \subseteq DOMAIN old
      /\ old.fetched = x \/ key \in DOMAIN db
  BY <1>3, SnapshotSeen
<1>5. /\ DOMAIN new = DOMAIN old /\ new.storage = "market_parquet_delta"
      /\ \A f \in DOMAIN old : f # "storage" => new[f] = old[f]
  <2> HIDE DEF old
  <2> QED BY <1>4
<1>6. Moves(x, "commit") /\ UNCHANGED <<kind, content, minute, row, files, clock, redis>>
  BY <1>1, GotoMoves DEF IInv, Labels, argVars
<1>7. Writing(x, rows)
  <2>1. ASSUME key \in DOMAIN db PROVE Keeps(key, db[key], new)
    <3>1. Keeps(key, db[key], old)
      BY <1>3, <2>1, KeepsItself DEF IInv
    <3>2. "storage" \in Mutable(key)
      BY <1>3, Keys DEF Mutable
    <3> HIDE DEF new, old, key
    <3> QED BY <1>5, <3>1, <3>2 DEF Keeps
  <2>2. \A u \in Writes \ {x} : DOMAIN tx[u] \cap {key} = {}
    BY <1>1, NoHolders
  <2> HIDE DEF rows, new, key
  <2> QED BY <1>1, <1>2, <2>1, <2>2 DEF Writing, Write
<1>8. OfKind(x)' /\ kind = "market"
  BY <1>1, <1>6 DEF IInv, Typing, OfKind, NameLabels, Moves
<1>9. key' = key
  BY <1>6 DEF MySnapshot
<1> HIDE DEF rows, new
<1>10. /\ row' \in [Writes -> Nat \ {0}] /\ \A u \in Writes \ {x} : row'[u] = row[u]
       /\ row'[x] <= Len(Listing(x)) + 1
  BY <1>6 DEF IInv, Typing
<1>11. /\ Typing' /\ Locks' /\ Acts(x) /\ (Stored(x)' => Stored(x)) /\ Named(x)'
       /\ (\A k \in DOMAIN rows : \A r : r = rows[k] => RowOf(x, k, r)') => Wrote(x)'
       /\ \A k : Exists(x, k)' <=> Exists(x, k) \/ k \in DOMAIN rows
       /\ key \in DOMAIN tx'[x] /\ tx'[x][key] = new
  BY <1>1, <1>2, <1>3, <1>6, <1>7, <1>8, <1>10, WritingStep DEF Writers
<1>12. Wrote(x)'
  <2> SUFFICES ASSUME NEW k, k = MySnapshot(x), NEW r, r = rows[k] PROVE RowOf(x, k, r)'
    BY <1>2, <1>11
  <2>1. r = new /\ db' = db /\ k = MySnapshot(x)' /\ k[1] = "snapshot"
    BY <1>1, <1>2, <1>3, <1>9
  <2>2. {"fetched", "storage"} \subseteq DOMAIN r /\ (r.fetched = x \/ k \in DOMAIN db)
    BY <1>4, <1>5, <2>1
  <2> QED BY <1>6, <1>8, <2>1, <2>2 DEF RowOf, Timed
<1>13. Reached(x)'
  BY <1>1, <1>5, <1>6, <1>8, <1>9, <1>11 DEF IInv, Reached, Committing, Moves, Timed, Referred
<1> QED BY <1>11, <1>12, <1>13, StatementKeeps

\* The first item of a listing that has an id.
LEMMA FirstExists ==
  ASSUME NEW x \in Writes, content[x] \in Contents, NEW i \in DOMAIN OrdersIn(x),
         NEW id, id = OrdersIn(x)[i][1]
  PROVE  FirstOf(x, id) \in DOMAIN OrdersIn(x)
<1> DEFINE n == Len(OrdersIn(x))
           T == {j \in 1..n : OrdersIn(x)[j][1] = id}
<1>1. n \in Nat /\ DOMAIN OrdersIn(x) = 1..n
  BY ArchiveAssumption DEF OrdersIn
<1>2. T \in SUBSET (1..n) /\ T # {}
  BY <1>1
<1>3. PICK f \in T : \A j \in T : f <= j
  <2> HIDE DEF T, n
  <2> QED BY <1>1, <1>2, LeastIndex
<1>4. \A j \in 1..(f - 1) : OrdersIn(x)[j][1] # id
  <2> SUFFICES ASSUME NEW j \in 1..(f - 1), OrdersIn(x)[j][1] = id PROVE FALSE
    OBVIOUS
  <2>1. j \in T /\ j < f
    BY <1>1
  <2>2. f <= j
    BY <1>3, <2>1
  <2> QED BY <1>1, <2>1, <2>2
<1>5. f \in DOMAIN OrdersIn(x) /\ OrdersIn(x)[f][1] = id
  BY <1>1
<1> QED BY <1>4, <1>5 DEF FirstOf

LEMMA EntriesKeeps == ASSUME IInv, NEW x \in Writes, WriteEntries(x) PROVE IInv'
<1> DEFINE c == content[x]
           rows == MyEntries(x)
<1>1. /\ pc[x] = "versions" /\ row[x] > Len(OrdersIn(x))
      /\ Goto(x, "relabel") /\ InsertOnce(x, rows)
      /\ UNCHANGED <<argVars, db, files, row, clock, redis>>
  BY DEF WriteEntries
<1>2. /\ c \in Contents /\ OrdersIn(x) = OrdersOf[c]
      /\ Len(OrdersOf[c]) \in Nat /\ DOMAIN OrdersOf[c] = 1..Len(OrdersOf[c])
  BY ArchiveAssumption DEF IInv, Typing, OrdersIn
<1>3. \A i \in DOMAIN OrdersOf[c] : Exists(x, Version(OrdersOf[c][i]))
  <2>0. row[x] \in Nat
    BY DEF IInv, Typing
  <2>1. \A i \in 1..Len(OrdersOf[c]) : i \in 1..(row[x] - 1)
    BY <1>1, <1>2, <2>0
  <2> QED BY <1>1, <1>2, <2>1 DEF IInv, Reached
<1>4. /\ DOMAIN rows = {Entry(minute[x], c, OrdersIn(x)[i][1]) : i \in DOMAIN OrdersIn(x)}
      /\ \A k \in DOMAIN rows : rows[k] = [version |-> OrdersIn(x)[FirstOf(x, k[4])]]
  BY DEF MyEntries
<1>5. \A k \in DOMAIN rows : k[1] = "entry" /\ \E i \in DOMAIN OrdersIn(x) : k[4] = OrdersIn(x)[i][1]
  <2> SUFFICES ASSUME NEW i \in DOMAIN OrdersIn(x), NEW k, k = Entry(minute[x], c, OrdersIn(x)[i][1])
               PROVE  k[1] = "entry" /\ k[4] = OrdersIn(x)[i][1]
    BY <1>4
  <2> QED BY Keys
<1>6. \A k \in DOMAIN rows : Exists(x, Version(rows[k].version))
  <2> SUFFICES ASSUME NEW k \in DOMAIN rows PROVE Exists(x, Version(rows[k].version))
    OBVIOUS
  <2>1. PICK i \in DOMAIN OrdersIn(x) : k[4] = OrdersIn(x)[i][1]
    BY <1>5
  <2>2. FirstOf(x, k[4]) \in DOMAIN OrdersIn(x)
    BY <1>2, <2>1, FirstExists
  <2>3. rows[k].version = OrdersIn(x)[FirstOf(x, k[4])]
    <3>1. rows[k] = [version |-> OrdersIn(x)[FirstOf(x, k[4])]]
      BY <1>4
    <3> HIDE DEF rows
    <3> QED BY <3>1
  <2> QED BY <1>2, <1>3, <2>2, <2>3
<1>7. pc'[x] = "relabel" /\ UNCHANGED <<kind, content, minute, db>> /\ MySnapshot(x)' = MySnapshot(x)
  BY <1>1 DEF Goto, IInv, Typing, argVars, MySnapshot
<1>8. OfKind(x)' /\ kind = "market"
  BY <1>1, <1>7 DEF IInv, Typing, OfKind, NameLabels
<1> HIDE DEF rows
<1>9. /\ Typing' /\ Locks' /\ Acts(x) /\ (Stored(x)' => Stored(x)) /\ Named(x)'
      /\ (\A k \in DOMAIN rows : \A r : r = rows[k] => RowOf(x, k, r)') => Wrote(x)'
      /\ \A k : Exists(x, k)' <=> Exists(x, k) \/ k \in DOMAIN rows
  <2>1. \A k \in DOMAIN rows : k[1] # "name"
    BY <1>5
  <2> QED BY <1>1, <1>8, <2>1, InsertStep DEF Writers
<1>10. Wrote(x)'
  <2> SUFFICES ASSUME NEW k \in DOMAIN rows, NEW r, r = rows[k] PROVE RowOf(x, k, r)'
    BY <1>9
  <2>1. k[1] = "entry" /\ Exists(x, Version(r.version))
    BY <1>5, <1>6
  <2>2. Exists(x, Version(r.version))'
    <3>1. \A v : v = Version(r.version) => Exists(x, v)'
      BY <1>9, <2>1
    <3> QED BY <3>1
  <2> QED BY <2>1, <2>2 DEF RowOf
<1>11. Reached(x)'
  <2>2. \A i \in DOMAIN OrdersOf[c] :
          /\ \A k : k = Version(OrdersOf[c][i]) => Exists(x, k)'
          /\ \A k : k = Entry(minute[x], c, OrdersOf[c][i][1]) => Exists(x, k)'
    BY <1>2, <1>3, <1>4, <1>9
  <2>3. \A i \in DOMAIN OrdersOf[c] :
          Exists(x, Version(OrdersOf[c][i]))' /\ Exists(x, Entry(minute[x], c, OrdersOf[c][i][1]))'
    BY <1>7, <2>2
  <2> QED BY <1>1, <1>7, <1>9, <2>3 DEF IInv, Reached, Committing
<1> QED BY <1>9, <1>10, <1>11, StatementKeeps

\* x moves on without writing rows.
LEMMA IdleStep ==
  ASSUME IInv, NEW x \in Writes, NEW l \in Writers, pc[x] \in Writers, Goto(x, l),
         UNCHANGED <<argVars, db, tx, row, clock, redis>>,
         files \subseteq files', files' \subseteq Writes, OfKind(x)'
  PROVE  /\ Typing' /\ Locks' /\ Acts(x) /\ (Stored(x)' => Stored(x)) /\ Named(x)' /\ Wrote(x)'
         /\ \A k : Exists(x, k)' <=> Exists(x, k)
<1>1. Moves(x, l) /\ UNCHANGED <<kind, content, minute>>
  BY GotoMoves DEF IInv, Writers, Labels, argVars
<1>2. Typing'
  <2>1. /\ row' \in [Writes -> Nat \ {0}] /\ tx' \in [Writes -> {tx'[u] : u \in Writes}]
        /\ \A u \in Writes : row'[u] <= Len(Listing(u)) + 1
    BY DEF IInv, Typing
  <2> QED BY <1>1, <2>1, TypingStays
<1>3. Locks'
  <2>1. \A u \in Writes : pc'[u] = "new" \/ Ended(u)' => tx'[u] = NoRows
    BY <1>1 DEF IInv, Locks, Ended, Moves, Writers
  <2> QED BY <2>1 DEF IInv, Locks, Keeps, Mutable
<1>4. Acts(x) /\ (Stored(x)' => Stored(x))
  BY <1>1 DEF Acts, Moves, Stored, Writers
<1>5. Named(x)'
  BY <1>1, NoNames DEF Moves, Writers, NameLabels
<1>6. \A k : Exists(x, k)' <=> Exists(x, k)
  BY SeenRows, SeenNext
<1>7. MySnapshot(x)' = MySnapshot(x)
  BY <1>1 DEF MySnapshot
<1>8. Wrote(x)'
  <2> SUFFICES ASSUME NEW k \in DOMAIN tx[x], NEW r, r = tx[x][k] PROVE RowOf(x, k, r)'
    BY DEF Wrote, RowOf
  <2>1. RowOf(x, k, r)
    BY DEF IInv, Wrote
  <2>2. Exists(x, Version(r.version)) => Exists(x, Version(r.version))'
    <3>1. \A v : v = Version(r.version) /\ Exists(x, v) => Exists(x, v)'
      BY <1>6
    <3> QED BY <3>1
  <2> QED BY <1>1, <1>7, <2>1, <2>2 DEF RowOf
<1> QED BY <1>2, <1>3, <1>4, <1>5, <1>6, <1>8

LEMMA ParquetKeeps == ASSUME IInv, NEW x \in Writes, WriteParquetFile(x) PROVE IInv'
<1>1. PICK l \in {"versions", "insert_manifest"} :
        /\ pc[x] = "manifest" /\ Goto(x, l)
        /\ UNCHANGED <<argVars, db, tx, row, clock, redis>>
        /\ files \subseteq files' /\ files' \subseteq files \cup {x}
        /\ l = "versions" => Exists(x, Manifest(content[x]))
        /\ l = "insert_manifest" => x \in files'
  BY DEF WriteParquetFile
<1>2. pc'[x] = l /\ UNCHANGED <<kind, content, minute>> /\ MySnapshot(x)' = MySnapshot(x)
  BY <1>1 DEF Goto, IInv, Typing, argVars, MySnapshot
<1>3. OfKind(x)' /\ files' \subseteq Writes
  BY <1>1, <1>2 DEF IInv, Typing, OfKind, NameLabels
<1>4. /\ Typing' /\ Locks' /\ Acts(x) /\ (Stored(x)' => Stored(x)) /\ Named(x)' /\ Wrote(x)'
      /\ \A k : Exists(x, k)' <=> Exists(x, k)
  BY <1>1, <1>3, IdleStep DEF Writers
<1>5. Reached(x)'
  BY <1>1, <1>2, <1>4 DEF IInv, Reached, Committing
<1> QED BY <1>4, <1>5, StatementKeeps

-----------------------------------------------------------------------------
(* The statements of write_names *)

\* A transaction that writes nothing has written what it had.
LEMMA WroteStays ==
  ASSUME NEW x \in Writes, Wrote(x), UNCHANGED <<kind, content, minute, db>>,
         files \subseteq files', tx'[x] = tx[x]
  PROVE  Wrote(x)'
<1>1. \A k : Exists(x, k)' <=> Exists(x, k)
  BY SeenRows, SeenNext
<1>2. MySnapshot(x)' = MySnapshot(x)
  BY DEF MySnapshot
<1> SUFFICES ASSUME NEW k \in DOMAIN tx[x], NEW r, r = tx[x][k] PROVE RowOf(x, k, r)'
  BY DEF Wrote, RowOf
<1>3. RowOf(x, k, r)
  BY DEF Wrote
<1>4. Exists(x, Version(r.version)) => Exists(x, Version(r.version))'
  <2>1. \A v : v = Version(r.version) /\ Exists(x, v) => Exists(x, v)'
    BY <1>1
  <2> QED BY <2>1
<1> QED BY <1>2, <1>3, <1>4 DEF RowOf

LEMMA NameKeeps == ASSUME IInv, NEW x \in Writes, UpsertName(x) PROVE IInv'
<1> DEFINE item == Listing(x)[row[x]]
           key == Name(item[1])
           set == [name |-> item[2], last |-> x]
           fresh == Over(set, [first |-> x])
           new == Upserted(x, key, fresh, set)
           rows == Only(key, new)
<1>1. pc[x] = "names" /\ kind = "names"
  BY DEF UpsertName, IInv, Typing, OfKind, NameLabels
<1>2. /\ row[x] <= Len(Listing(x))
      /\ Upsert(x, key, fresh, set)
      /\ row' = [row EXCEPT ![x] = @ + 1]
      /\ UNCHANGED <<argVars, db, files, pc, clock, redis>>
  BY <1>1 DEF UpsertName, RowKey
<1>3. DOMAIN rows = {key} /\ rows[key] = new /\ key[1] = "name"
  <2>1. DOMAIN rows = {key} /\ rows[key] = new
    BY OneRow
  <2> QED BY <2>1, Keys
<1>4. new.name = item[2]
  <2>1. DOMAIN set = {"name", "last"} /\ set["name"] = item[2]
    OBVIOUS
  <2>2. DOMAIN [first |-> x] = {"first"}
    OBVIOUS
  <2>3. fresh["name"] = set["name"]
    <3> DEFINE g == [first |-> x]
    <3> HIDE DEF set, g
    <3>1. \A k \in DOMAIN set \ DOMAIN g : Over(set, g)[k] = set[k]
      BY OverRows
    <3>2. fresh = Over(set, g)
      BY DEF g
    <3>3. "name" \in DOMAIN set \ DOMAIN g
      BY <2>1, <2>2 DEF g
    <3> HIDE DEF fresh
    <3> QED BY <3>1, <3>2, <3>3
  <2>4. CASE Exists(x, key)
    <3> DEFINE old == Sees(x)[key]
    <3>1. new = Over(old, set)
      BY <2>4 DEF Upserted
    <3>2. Over(old, set)["name"] = set["name"]
      <4> HIDE DEF old, set
      <4>1. \A k \in DOMAIN set : Over(old, set)[k] = set[k]
        BY OverRows
      <4> QED BY <2>1, <4>1
    <3> QED BY <2>1, <3>1, <3>2
  <2>5. CASE ~Exists(x, key)
    <3>1. new = fresh
      BY <2>5 DEF Upserted
    <3> HIDE DEF fresh, new
    <3> QED BY <2>1, <2>3, <3>1
  <2> QED BY <2>4, <2>5
<1>5. Writing(x, rows)
  <2>1. DOMAIN set \subseteq Mutable(key)
    <3>1. key # Reference
      BY Keys
    <3> QED BY <3>1 DEF Mutable
  <2> HIDE DEF key, set, fresh
  <2> QED BY <1>2, <2>1, UpsertWrites DEF IInv
<1>6. /\ UNCHANGED <<kind, content, minute, files, clock, redis, db, pc>>
      /\ \A u \in Writes : Listing(u)' = Listing(u)
  BY <1>2 DEF argVars, Listing, OrdersIn
<1>7. Moves(x, "names") /\ OfKind(x)'
  BY <1>1, <1>6 DEF Moves, IInv, Typing, OfKind
<1>8. /\ row' \in [Writes -> Nat \ {0}] /\ \A u \in Writes \ {x} : row'[u] = row[u]
      /\ row'[x] = row[x] + 1 /\ row[x] \in Nat \ {0}
      /\ row'[x] <= Len(Listing(x)) + 1
  <2>1. Len(Listing(x)) \in Nat
    BY ArchiveAssumption DEF Listing, OrdersIn, IInv, Typing
  <2>2. row \in [Writes -> Nat \ {0}]
    BY DEF IInv, Typing
  <2>3. row[x] \in Nat \ {0} /\ row'[x] = row[x] + 1 /\ \A u \in Writes \ {x} : row'[u] = row[u]
    BY <1>2, <2>2
  <2>4. row' \in [Writes -> Nat \ {0}]
    <3>1. row[x] + 1 \in Nat \ {0}
      BY <2>3
    <3> QED BY <1>2, <2>2, <3>1
  <2>5. row[x] + 1 <= Len(Listing(x)) + 1
    BY <1>2, <2>1, <2>3
  <2> QED BY <2>3, <2>4, <2>5
<1> HIDE DEF rows, new, key, item
<1>9. /\ Locks'
      /\ tx' \in [Writes -> {tx'[u] : u \in Writes}]
      /\ \A u \in Writes \ {x} : tx'[u] = tx[u]
      /\ DOMAIN tx'[x] = DOMAIN tx[x] \cup {key}
      /\ tx'[x][key] = new
      /\ \A k \in DOMAIN tx[x] \ {key} : tx'[x][k] = tx[x][k]
  <2>1. pc'[x] \notin Endings /\ \A u \in Writes \ {x} : pc'[u] = pc[u]
    BY <1>1, <1>6 DEF Endings
  <2>2. /\ Locks'
        /\ tx' \in [Writes -> {tx'[u] : u \in Writes}]
        /\ \A u \in Writes \ {x} : tx'[u] = tx[u]
        /\ DOMAIN tx'[x] = DOMAIN tx[x] \cup DOMAIN rows
        /\ \A k \in DOMAIN rows : tx'[x][k] = rows[k]
        /\ \A k \in DOMAIN tx[x] \ DOMAIN rows : tx'[x][k] = tx[x][k]
    BY <1>5, <2>1, WritingKeeps DEF IInv
  <2> QED BY <1>3, <2>2
<1>10. Typing'
  <2>1. \A u \in Writes : row'[u] <= Len(Listing(u)) + 1
    BY <1>8 DEF IInv, Typing
  <2>2. files' \subseteq Writes
    BY <1>6 DEF IInv, Typing
  <2> QED BY <1>6, <1>7, <1>8, <1>9, <2>1, <2>2, TypingStays
<1>11. Acts(x) /\ (Stored(x)' => Stored(x))
  BY <1>1, <1>6, <1>8, <1>9 DEF Acts, Stored
<1>12. Reached(x)'
  BY <1>1, <1>6 DEF Reached, Committing
<1>13. Wrote(x)'
  <2>1. \A k \in DOMAIN rows : \A r : r = rows[k] => RowOf(x, k, r)'
    BY <1>3 DEF RowOf
  <2> QED BY <1>3, <1>5, <1>6, <1>9, <2>1, WroteGrows
<1>14. Named(x)'
  <2>1. \A k \in DOMAIN tx'[x] : k[1] = "name" =>
          \E i \in 1..(row'[x] - 1) : k = Name(Listing(x)[i][1])
    <3> SUFFICES ASSUME NEW k \in DOMAIN tx'[x], k[1] = "name"
                 PROVE  \E i \in 1..(row'[x] - 1) : k = Name(Listing(x)[i][1])
      OBVIOUS
    <3>1. CASE k = key
      <4>1. row[x] \in 1..(row'[x] - 1)
        BY <1>8
      <4> QED BY <3>1, <4>1 DEF key, item
    <3>2. CASE k # key
      <4>1. k \in DOMAIN tx[x]
        BY <1>9, <3>2
      <4>2. PICK i \in 1..(row[x] - 1) : k = Name(Listing(x)[i][1])
        BY <4>1 DEF IInv, Named
      <4>3. i \in 1..(row'[x] - 1)
        BY <1>8
      <4> QED BY <4>2, <4>3
    <3> QED BY <3>1, <3>2
  <2>2. ASSUME NEW i \in 1..(row'[x] - 1),
               \A j \in (i + 1)..(row'[x] - 1) : Listing(x)[j][1] # Listing(x)[i][1]
        PROVE  /\ Name(Listing(x)[i][1]) \in DOMAIN tx'[x]
               /\ tx'[x][Name(Listing(x)[i][1])].name = Listing(x)[i][2]
    <3>1. CASE i = row[x]
      BY <1>4, <1>9, <3>1 DEF key, item
    <3>2. CASE i # row[x]
      <4>1. i \in 1..(row[x] - 1) /\ row[x] \in (i + 1)..(row'[x] - 1)
        BY <1>8, <3>2
      <4>2. \A j \in (i + 1)..(row[x] - 1) : Listing(x)[j][1] # Listing(x)[i][1]
        <5>1. \A j \in (i + 1)..(row[x] - 1) : j \in (i + 1)..(row'[x] - 1)
          BY <1>8
        <5> QED BY <2>2, <5>1
      <4>3. /\ Name(Listing(x)[i][1]) \in DOMAIN tx[x]
            /\ tx[x][Name(Listing(x)[i][1])].name = Listing(x)[i][2]
        BY <1>1, <4>1, <4>2 DEF IInv, Named
      <4>4. Name(Listing(x)[i][1]) # key
        <5>1. Listing(x)[row[x]][1] # Listing(x)[i][1]
          BY <2>2, <4>1
        <5> QED BY <5>1, Keys DEF key, item
      <4> QED BY <1>9, <4>3, <4>4
    <3> QED BY <3>1, <3>2
  <2>3. pc'[x] = "names" /\ Listing(x)' = Listing(x)
    BY <1>1, <1>6
  <2> QED BY <2>1, <2>2, <2>3 DEF Named, NameLabels
<1> QED BY <1>9, <1>10, <1>11, <1>12, <1>13, <1>14, StatementKeeps

LEMMA UpsertedKeeps == ASSUME IInv, NEW x \in Writes, NamesUpserted(x) PROVE IInv'
<1>1. /\ pc[x] = "names" /\ kind = "names" /\ row[x] > Len(Listing(x)) /\ Goto(x, "set_names")
      /\ UNCHANGED <<kind, content, minute, db, tx, files, row, clock, redis>>
  BY DEF NamesUpserted, After, argVars, IInv, Typing, OfKind, NameLabels
<1>2. Moves(x, "set_names") /\ \A u \in Writes : Listing(u)' = Listing(u)
  BY <1>1, GotoMoves DEF IInv, Labels, Listing, OrdersIn
<1>3. Locks'
  <2>1. \A u \in Writes : pc'[u] = "new" \/ Ended(u)' => tx'[u] = NoRows
    BY <1>1, <1>2 DEF IInv, Locks, Ended, Moves
  <2> QED BY <1>1, <2>1 DEF IInv, Locks, Keeps, Mutable
<1>4. OfKind(x)'
  BY <1>1, <1>2 DEF OfKind, Moves
<1>5. Typing'
  <2>1. /\ row' \in [Writes -> Nat \ {0}] /\ tx' \in [Writes -> {tx'[u] : u \in Writes}]
        /\ files' \subseteq Writes /\ \A u \in Writes : row'[u] <= Len(Listing(u)) + 1
    BY <1>1 DEF IInv, Typing
  <2> QED BY <1>1, <1>2, <1>4, <2>1, TypingStays
<1>6. Acts(x) /\ (Stored(x)' => Stored(x))
  BY <1>1, <1>2 DEF Acts, Stored, Moves
<1>7. Reached(x)'
  BY <1>1, <1>2 DEF Reached, Committing, Moves
<1>8. Wrote(x)'
  BY <1>1, WroteStays DEF IInv
<1>9. Named(x)'
  <2>1. row[x] = Len(Listing(x)) + 1
    <3>1. row[x] \in Nat /\ row[x] <= Len(Listing(x)) + 1 /\ Len(Listing(x)) \in Nat
      BY ArchiveAssumption DEF Listing, OrdersIn, IInv, Typing
    <3> QED BY <1>1, <3>1
  <2>2. pc'[x] = "set_names" /\ tx'[x] = tx[x] /\ row'[x] = row[x] /\ Listing(x)' = Listing(x)
    BY <1>1, <1>2 DEF Moves
  <2>3. Named(x)
    BY DEF IInv
  <2> QED BY <1>1, <2>1, <2>2, <2>3 DEF Named, NameLabels
<1> QED BY <1>3, <1>5, <1>6, <1>7, <1>8, <1>9, StatementKeeps

\* The last item of a listing that has an id.
LEMMA LastExists ==
  ASSUME NEW x \in Writes, content[x] \in Contents, NEW i \in DOMAIN Listing(x),
         NEW id, id = Listing(x)[i][1]
  PROVE  /\ LastOf(x, id) \in DOMAIN Listing(x) /\ Listing(x)[LastOf(x, id)][1] = id
         /\ \A j \in DOMAIN Listing(x) : Listing(x)[j][1] = id => j <= LastOf(x, id)
<1> DEFINE n == Len(Listing(x))
           T == {j \in 1..n : Listing(x)[j][1] = id}
<1>1. n \in Nat /\ DOMAIN Listing(x) = 1..n
  BY ArchiveAssumption DEF Listing, OrdersIn
<1>2. T \in SUBSET (1..n) /\ T # {}
  BY <1>1
<1>3. PICK f \in T : \A j \in T : j <= f
  <2> HIDE DEF T, n
  <2> QED BY <1>1, <1>2, GreatestIndex
<1>4. f \in DOMAIN Listing(x) /\ Listing(x)[f][1] = id
  BY <1>1
<1>5. \A j \in DOMAIN Listing(x) : Listing(x)[j][1] = id => j <= f
  BY <1>1, <1>3
<1> QED BY <1>4, <1>5 DEF LastOf

\* When x is to set its names, it has written what it is about to set.
LEMMA NamesWritten ==
  ASSUME IInv, NEW x \in Writes, pc[x] = "set_names", NEW i \in DOMAIN Listing(x),
         NEW id, id = Listing(x)[i][1]
  PROVE  Name(id) \in DOMAIN tx[x] /\ tx[x][Name(id)].name = Listing(x)[LastOf(x, id)][2]
<1> DEFINE n == Len(Listing(x))
           f == LastOf(x, id)
<1>1. n \in Nat /\ DOMAIN Listing(x) = 1..n /\ row[x] = n + 1
  BY ArchiveAssumption DEF Listing, OrdersIn, IInv, Typing, Named
<1>2. /\ f \in DOMAIN Listing(x) /\ Listing(x)[f][1] = id
      /\ \A j \in DOMAIN Listing(x) : Listing(x)[j][1] = id => j <= f
  BY LastExists DEF IInv, Typing
<1> HIDE DEF f
<1>3. f \in 1..(row[x] - 1) /\ \A j \in (f + 1)..(row[x] - 1) : Listing(x)[j][1] # Listing(x)[f][1]
  <2> SUFFICES ASSUME NEW j \in (f + 1)..(row[x] - 1), Listing(x)[j][1] = id PROVE FALSE
    BY <1>1, <1>2
  <2>1. j \in 1..n /\ f < j
    BY <1>1, <1>2
  <2> QED BY <1>1, <1>2, <2>1
<1>4. /\ Name(Listing(x)[f][1]) \in DOMAIN tx[x]
      /\ tx[x][Name(Listing(x)[f][1])].name = Listing(x)[f][2]
  BY <1>3 DEF IInv, Named
<1> QED BY <1>2, <1>4 DEF f

LEMMA SetKeeps == ASSUME IInv, NEW x \in Writes, SetNames(x) PROVE IInv'
<1> DEFINE ids == {Listing(x)[i][1] : i \in DOMAIN Listing(x)}
           set == [id \in ids |-> [name |-> Listing(x)[LastOf(x, id)][2], by |-> x]]
<1>1. /\ pc[x] = "set_names" /\ kind = "names" /\ Goto(x, "commit_names")
      /\ redis' = Over(redis, set)
      /\ UNCHANGED <<kind, content, minute, db, tx, files, row, clock>>
  BY DEF SetNames, After, argVars, IInv, Typing, OfKind, NameLabels
<1>2. Moves(x, "commit_names") /\ \A u \in Writes : Listing(u)' = Listing(u)
  BY <1>1, GotoMoves DEF IInv, Labels, Listing, OrdersIn
<1>3. \A id \in ids : /\ Name(id) \in DOMAIN tx[x]
                      /\ set[id] = [name |-> tx[x][Name(id)].name, by |-> x]
  <2> SUFFICES ASSUME NEW i \in DOMAIN Listing(x), NEW id, id = Listing(x)[i][1]
               PROVE  /\ Name(id) \in DOMAIN tx[x]
                      /\ set[id] = [name |-> tx[x][Name(id)].name, by |-> x]
    OBVIOUS
  <2>1. Name(id) \in DOMAIN tx[x] /\ tx[x][Name(id)].name = Listing(x)[LastOf(x, id)][2]
    BY <1>1, NamesWritten
  <2>2. id \in ids
    OBVIOUS
  <2> QED BY <2>1, <2>2
<1>4. /\ DOMAIN redis' = DOMAIN redis \cup ids
      /\ \A id \in ids : redis'[id] = [name |-> tx[x][Name(id)].name, by |-> x]
      /\ \A id \in DOMAIN redis \ ids : redis'[id] = redis[id]
  <2>1. DOMAIN set = ids
    OBVIOUS
  <2> HIDE DEF set, ids
  <2>2. /\ DOMAIN Over(redis, set) = DOMAIN redis \cup DOMAIN set
        /\ \A k \in DOMAIN set : Over(redis, set)[k] = set[k]
        /\ \A k \in DOMAIN redis \ DOMAIN set : Over(redis, set)[k] = redis[k]
    BY OverRows
  <2> QED BY <1>1, <1>3, <2>1, <2>2
<1> HIDE DEF set
<1>5. Locks'
  <2>1. \A u \in Writes : pc'[u] = "new" \/ Ended(u)' => tx'[u] = NoRows
    BY <1>1, <1>2 DEF IInv, Locks, Ended, Moves
  <2> QED BY <1>1, <2>1 DEF IInv, Locks, Keeps, Mutable
<1>6. Typing'
  <2>1. /\ row' \in [Writes -> Nat \ {0}] /\ tx' \in [Writes -> {tx'[u] : u \in Writes}]
        /\ files' \subseteq Writes /\ \A u \in Writes : row'[u] <= Len(Listing(u)) + 1
    BY <1>1 DEF IInv, Typing
  <2>2. OfKind(x)'
    BY <1>1, <1>2 DEF OfKind, Moves
  <2> QED BY <1>1, <1>2, <2>1, <2>2, TypingStays
<1>7. Kept'
  <2>1. \A u \in Writes : Stored(u)' <=> Stored(u)
    BY <1>1, <1>2 DEF Moves, Stored
  <2> QED BY <1>1, <2>1, KeptStays DEF IInv
<1>8. Cached'
  <2> SUFFICES ASSUME NEW id \in DOMAIN redis'
               PROVE  LET w == redis'[id].by IN
                        /\ w \in Writes /\ pc'[w] \in {"commit_names", "ok", "unnamed"}
                        /\ pc'[w] = "commit_names" => Name(id) \in DOMAIN tx'[w]
                        /\ pc'[w] = "ok" => Name(id) \in DOMAIN db' /\ db'[Name(id)].name = redis'[id].name
    BY DEF Cached
  <2>1. CASE id \in ids
    <3>1. redis'[id].by = x
      <4> DEFINE new == [name |-> tx[x][Name(id)].name, by |-> x]
      <4>1. redis'[id] = new
        BY <1>4, <2>1
      <4>2. new.by = x
        OBVIOUS
      <4> QED BY <4>1, <4>2
    <3> QED BY <1>1, <1>2, <1>3, <2>1, <3>1 DEF Moves
  <2>2. CASE id \notin ids
    <3>1. id \in DOMAIN redis /\ redis'[id] = redis[id]
      BY <1>4, <2>2
    <3>2. redis[id].by \in Writes \ {x}
      BY <1>1, <3>1 DEF IInv, Cached
    <3>3. pc'[redis[id].by] = pc[redis[id].by] /\ tx' = tx /\ db' = db
      BY <1>1, <1>2, <3>2 DEF Moves
    <3> QED BY <3>1, <3>2, <3>3 DEF IInv, Cached
  <2> QED BY <2>1, <2>2
<1>9. ASSUME NEW u \in Writes PROVE Wrote(u)'
  <2>1. tx'[u] = tx[u] /\ Wrote(u)
    BY <1>1 DEF IInv
  <2> QED BY <1>1, <2>1, WroteStays
<1>10. ASSUME NEW u \in Writes PROVE Reached(u)'
  <2>1. CASE u = x
    BY <1>1, <1>2, <2>1 DEF Reached, Committing, Moves
  <2>2. CASE u # x
    <3>1. Apart(u)
      BY <1>1, <1>2, <2>2 DEF Apart, Moves
    <3> QED BY <3>1, ApartKeeps DEF IInv
  <2> QED BY <2>1, <2>2
<1>11. ASSUME NEW u \in Writes PROVE Named(u)'
  <2>1. Named(u) /\ tx'[u] = tx[u] /\ row'[u] = row[u] /\ Listing(u)' = Listing(u)
    BY <1>1, <1>2 DEF IInv
  <2>2. CASE u = x
    <3>1. pc'[x] = "commit_names"
      BY <1>2 DEF Moves
    <3>2. \A k \in DOMAIN tx[x] : k[1] = "name" =>
            k[2] \in DOMAIN redis' /\ redis'[k[2]] = [name |-> tx[x][k].name, by |-> x]
      <4> SUFFICES ASSUME NEW k \in DOMAIN tx[x], k[1] = "name"
                   PROVE  k[2] \in DOMAIN redis' /\ redis'[k[2]] = [name |-> tx[x][k].name, by |-> x]
        OBVIOUS
      <4>1. PICK i \in 1..(row[x] - 1) : k = Name(Listing(x)[i][1])
        BY DEF IInv, Named
      <4>2. i \in DOMAIN Listing(x)
        BY <1>1, ArchiveAssumption DEF Listing, OrdersIn, IInv, Typing, Named
      <4>3. k[2] = Listing(x)[i][1]
        BY <4>1, Keys
      <4>4. k[2] \in ids /\ k = Name(k[2])
        BY <4>1, <4>2, <4>3
      <4> QED BY <1>4, <4>4
    <3>3. \A k \in DOMAIN tx'[x] : k[1] = "name" =>
            \E i \in 1..(row'[x] - 1) : k = Name(Listing(x)'[i][1])
      BY <2>1, <2>2 DEF Named
    <3>4. \A k \in DOMAIN tx'[x] : k[1] = "name" =>
            k[2] \in DOMAIN redis' /\ redis'[k[2]] = [name |-> tx'[x][k].name, by |-> x]
      BY <2>1, <2>2, <3>2
    <3> QED BY <2>2, <3>1, <3>3, <3>4 DEF Named, NameLabels
  <2>3. CASE u # x
    <3>1. pc'[u] = pc[u]
      BY <1>2, <2>3 DEF Moves
    <3>2. ASSUME pc[u] = "commit_names", NEW k \in DOMAIN tx[u], k[1] = "name"
          PROVE  k[2] \in DOMAIN redis' /\ redis'[k[2]] = redis[k[2]]
      <4>1. k[2] \in DOMAIN redis
        BY <2>1, <3>2 DEF Named
      <4>2. PICK i \in 1..(row[u] - 1) : k = Name(Listing(u)[i][1])
        BY <2>1, <3>2 DEF Named
      <4>3. k = Name(k[2])
        BY <4>2, Keys
      <4>4. k \notin DOMAIN tx[x]
        BY <2>3, <3>2 DEF IInv, Locks
      <4>5. k[2] \notin ids
        BY <1>3, <4>3, <4>4
      <4> QED BY <1>4, <4>1, <4>5
    <3> QED BY <2>1, <3>1, <3>2 DEF Named, NameLabels
  <2> QED BY <2>2, <2>3
<1> QED BY <1>5, <1>6, <1>7, <1>8, <1>9, <1>10, <1>11 DEF IInv

-----------------------------------------------------------------------------
(* The end of a transaction *)

LEMMA TypingEnds ==
  ASSUME IInv, NEW x \in Writes, NEW status \in Labels, End(x, status),
         UNCHANGED <<argVars, files, row, clock, redis>>, OfKind(x)',
         tx' \in [Writes -> {tx'[u] : u \in Writes}]
  PROVE  Typing' /\ Moves(x, status)
<1>1. Moves(x, status) /\ UNCHANGED <<kind, content, minute, clock>>
  BY DEF End, IInv, Typing, Moves, argVars
<1>2. /\ row' \in [Writes -> Nat \ {0}] /\ files' \subseteq Writes
      /\ \A u \in Writes : row'[u] <= Len(Listing(u)) + 1
  BY DEF IInv, Typing
<1> QED BY <1>1, <1>2, TypingStays

\* A transaction fails, in whatever way.
LEMMA FailureKeeps ==
  ASSUME IInv, NEW x \in Writes, End(x, Failure(x)), pc[x] \notin Endings,
         UNCHANGED <<argVars, db, files, row, clock, redis>>
  PROVE  IInv'
<1>1. Failure(x) \in {"failed", "unnamed"} /\ (Failure(x) = "unnamed" <=> pc[x] \in NameLabels)
  BY DEF Failure, NameLabels
<1>2. /\ Locks'
      /\ tx' \in [Writes -> {tx'[u] : u \in Writes}]
      /\ tx'[x] = NoRows
      /\ \A u \in Writes \ {x} : tx'[u] = tx[u] /\ pc'[u] = pc[u]
      /\ pc'[x] = Failure(x)
  BY EndKeeps DEF IInv
<1>3. UNCHANGED <<kind, content, minute>> /\ DOMAIN tx'[x] = {}
  BY <1>2, EmptyRows DEF argVars
<1>4. Typing'
  <2>1. OfKind(x)'
    BY <1>1, <1>2, <1>3 DEF IInv, Typing, OfKind, NameLabels
  <2> QED BY <1>1, <1>2, <2>1, TypingEnds DEF Labels
<1>5. Kept'
  <2>1. \A u \in Writes : Stored(u)' <=> Stored(u)
    BY <1>1, <1>2 DEF Stored, NameLabels, Endings
  <2> QED BY <1>3, <2>1, KeptStays DEF IInv
<1>6. Cached'
  <2> SUFFICES ASSUME NEW id \in DOMAIN redis
               PROVE  LET w == redis[id].by IN
                        /\ w \in Writes /\ pc'[w] \in {"commit_names", "ok", "unnamed"}
                        /\ pc'[w] = "commit_names" => Name(id) \in DOMAIN tx'[w]
                        /\ pc'[w] = "ok" => Name(id) \in DOMAIN db /\ db[Name(id)].name = redis[id].name
    BY DEF Cached
  <2> DEFINE w == redis[id].by
  <2>1. /\ w \in Writes /\ pc[w] \in {"commit_names", "ok", "unnamed"}
        /\ pc[w] = "commit_names" => Name(id) \in DOMAIN tx[w]
        /\ pc[w] = "ok" => Name(id) \in DOMAIN db /\ db[Name(id)].name = redis[id].name
    BY DEF IInv, Cached
  <2> HIDE DEF w
  <2>2. CASE w = x
    <3>1. pc'[x] = "unnamed"
      BY <1>1, <1>2, <2>1, <2>2 DEF Endings, NameLabels
    <3> QED BY <2>2, <3>1 DEF w
  <2>3. CASE w # x
    BY <1>2, <2>1, <2>3 DEF w
  <2> QED BY <2>2, <2>3
<1>7. ASSUME NEW u \in Writes PROVE Reached(u)' /\ Wrote(u)' /\ Named(u)'
  <2>1. CASE u = x
    <3>1. Reached(x)'
      BY <1>1, <1>2 DEF Reached, Committing
    <3>2. Wrote(x)' /\ Named(x)'
      BY <1>1, <1>2, <1>3 DEF Wrote, Named
    <3> QED BY <2>1, <3>1, <3>2
  <2>2. CASE u # x
    <3>1. Apart(u) /\ Listing(u)' = Listing(u)
      BY <1>2, <1>3, <2>2 DEF Apart, Listing, OrdersIn
    <3>2. Named(u) /\ pc'[u] = pc[u] /\ row'[u] = row[u] /\ tx'[u] = tx[u] /\ redis' = redis
      BY <1>2, <2>2 DEF IInv
    <3>3. Named(u)'
      BY <3>1, <3>2 DEF Named, NameLabels
    <3> QED BY <3>1, <3>3, ApartKeeps DEF IInv
  <2> QED BY <2>1, <2>2
<1> QED BY <1>2, <1>4, <1>5, <1>6, <1>7 DEF IInv

LEMMA AbortKeeps == ASSUME IInv, NEW x \in Writes, AbortDeadlocked(x) PROVE IInv'
<1>1. pc[x] \notin Endings
  <2> SUFFICES ASSUME pc[x] \in Endings PROVE FALSE
    OBVIOUS
  <2>1. Wants(x) = {}
    BY DEF Wants, Endings
  <2>2. WaitsFor(x) = {}
    BY <2>1 DEF WaitsFor, Holders
  <2> QED BY <2>2 DEF AbortDeadlocked, Deadlocked
<1> QED BY <1>1, FailureKeeps DEF AbortDeadlocked

LEMMA RejectKeeps == ASSUME IInv, NEW x \in Writes, RejectRepeated(x) PROVE IInv'
<1>1. pc[x] \notin Endings
  BY DEF RejectRepeated, Endings
<1> QED BY <1>1, FailureKeeps DEF RejectRepeated

LEMMA FailKeeps == ASSUME IInv, NEW x \in Writes, Fail(x) PROVE IInv'
<1>1. pc[x] \notin Endings
  BY DEF Fail, Ended, Endings
<1> QED BY <1>1, FailureKeeps DEF Fail

\* What becomes of the committed rows.
LEMMA CommitStep ==
  ASSUME IInv, NEW x \in Writes, Commit(x)
  PROVE  /\ Typing' /\ Locks' /\ UNCHANGED <<kind, content, minute, files, row, redis>>
         /\ pc[x] \in {"commit", "commit_names"} /\ pc'[x] = After(pc[x])
         /\ pc'[x] = IF pc[x] = "commit" /\ kind = "names" THEN "names" ELSE "ok"
         /\ DOMAIN tx'[x] = {} /\ tx'[x] = NoRows
         /\ \A u \in Writes \ {x} : tx'[u] = tx[u] /\ pc'[u] = pc[u]
         /\ DOMAIN db' = DOMAIN db \cup DOMAIN tx[x]
         /\ \A k : k \in DOMAIN db' <=> Exists(x, k)
         /\ \A k \in DOMAIN tx[x] : db'[k] = tx[x][k]
         /\ \A k \in DOMAIN db \ DOMAIN tx[x] : db'[k] = db[k]
         /\ \A k \in DOMAIN db : Keeps(k, db[k], db'[k])
<1> DEFINE status == After(pc[x])
<1>1. /\ pc[x] \in {"commit", "commit_names"} /\ db' = Sees(x) /\ End(x, status)
      /\ UNCHANGED <<argVars, files, row, clock, redis>>
  BY DEF Commit
<1>2. /\ Locks' /\ tx' \in [Writes -> {tx'[u] : u \in Writes}] /\ tx'[x] = NoRows
      /\ \A u \in Writes \ {x} : tx'[u] = tx[u] /\ pc'[u] = pc[u]
      /\ pc'[x] = status
      /\ \A k \in DOMAIN db : Keeps(k, db[k], db'[k])
  <2> HIDE DEF status
  <2> QED BY <1>1, CommitKeeps DEF IInv
<1>3. status = IF pc[x] = "commit" /\ kind = "names" THEN "names" ELSE "ok"
  BY <1>1 DEF After
<1>4. OfKind(x)' /\ status \in Labels
  BY <1>1, <1>2, <1>3 DEF OfKind, NameLabels, Labels, argVars
<1> HIDE DEF status
<1>5. Typing'
  BY <1>1, <1>2, <1>4, TypingEnds
<1>6. /\ DOMAIN db' = DOMAIN db \cup DOMAIN tx[x]
      /\ \A k : k \in DOMAIN db' <=> Exists(x, k)
      /\ \A k \in DOMAIN tx[x] : db'[k] = tx[x][k]
      /\ \A k \in DOMAIN db \ DOMAIN tx[x] : db'[k] = db[k]
  <2>1. /\ DOMAIN Sees(x) = DOMAIN db \cup DOMAIN tx[x]
        /\ \A k : Exists(x, k) <=> k \in DOMAIN db \cup DOMAIN tx[x]
        /\ \A k \in DOMAIN tx[x] : Sees(x)[k] = tx[x][k]
        /\ \A k \in DOMAIN db \ DOMAIN tx[x] : Sees(x)[k] = db[k]
    BY SeenRows
  <2> QED BY <1>1, <2>1
<1> QED BY <1>1, <1>2, <1>3, <1>5, <1>6, EmptyRows DEF argVars, status

LEMMA CommitKept == ASSUME IInv, NEW x \in Writes, Commit(x) PROVE Kept'
<1>1. /\ UNCHANGED <<kind, content, minute, files, row, redis>>
      /\ pc[x] \in {"commit", "commit_names"}
      /\ pc'[x] = IF pc[x] = "commit" /\ kind = "names" THEN "names" ELSE "ok"
      /\ \A u \in Writes \ {x} : tx'[u] = tx[u] /\ pc'[u] = pc[u]
      /\ DOMAIN db' = DOMAIN db \cup DOMAIN tx[x]
      /\ \A k : k \in DOMAIN db' <=> Exists(x, k)
      /\ \A k \in DOMAIN tx[x] : db'[k] = tx[x][k]
      /\ \A k \in DOMAIN db \ DOMAIN tx[x] : db'[k] = db[k]
      /\ \A k \in DOMAIN db : Keeps(k, db[k], db'[k])
  BY CommitStep
<1>2. /\ Stored(x)' /\ \A u \in Writes : Stored(u) => Stored(u)'
      /\ \A u \in Writes \ {x} : Stored(u)' => Stored(u)
      /\ \A u \in Writes : MySnapshot(u)' = MySnapshot(u)
  BY <1>1 DEF Stored, MySnapshot
<1>3. /\ \A k \in DOMAIN tx[x] : \A r : r = tx[x][k] => RowOf(x, k, r)
      /\ pc[x] = "commit_names" => kind = "names"
      /\ minute[x] \in Minutes /\ content[x] \in Contents
  BY DEF IInv, Wrote, Typing, OfKind, NameLabels
<1>4. ASSUME NEW m \in Minutes, NEW c \in Contents, NEW k, k = Snapshot(m, c), k \in DOMAIN db'
      PROVE  /\ kind \in Timed /\ Blob(c) \in DOMAIN db'
             /\ {"fetched", "storage"} \subseteq DOMAIN db'[k]
             /\ \E u \in Writes : db'[k].fetched = u /\ Stored(u)' /\ content[u] = c
             /\ kind = "market" =>
                  /\ db'[k].storage = "market_parquet_delta"
                  /\ Manifest(c) \in DOMAIN db'
                  /\ \A i \in DOMAIN OrdersOf[c] :
                       Version(OrdersOf[c][i]) \in DOMAIN db'
                       /\ Entry(m, c, OrdersOf[c][i][1]) \in DOMAIN db'
  <2>1. k[1] = "snapshot" /\ k[2] = m /\ k[3] = c
    BY <1>4, Keys
  <2>2. CASE k \in DOMAIN tx[x]
    <3>1. /\ kind \in Timed /\ k = MySnapshot(x) /\ {"fetched", "storage"} \subseteq DOMAIN tx[x][k]
          /\ tx[x][k].fetched = x \/ k \in DOMAIN db
      BY <1>3, <2>1, <2>2 DEF RowOf
    <3>2. m = minute[x] /\ c = content[x]
      BY <2>1, <3>1, Keys DEF MySnapshot
    <3>3. db'[k] = tx[x][k] /\ pc[x] = "commit"
      BY <1>1, <1>3, <2>2, <3>1 DEF Timed
    <3>4. Blob(c) \in DOMAIN db'
      BY <1>1, <3>1, <3>2, <3>3 DEF IInv, Reached, Committing
    <3>5. \E u \in Writes : db'[k].fetched = u /\ Stored(u)' /\ content[u] = c
      <4>1. CASE tx[x][k].fetched = x
        BY <1>2, <3>2, <3>3, <4>1
      <4>2. CASE k \in DOMAIN db
        <5>1. PICK u \in Writes : db[k].fetched = u /\ Stored(u) /\ content[u] = c
          BY <1>4, <4>2 DEF IInv, Kept
        <5>2. "fetched" \in DOMAIN db[k] \ Mutable(k)
          <6>1. {"fetched", "storage"} \subseteq DOMAIN db[k]
            BY <1>4, <4>2 DEF IInv, Kept
          <6>2. k # Reference
            BY <2>1, Keys
          <6> QED BY <6>1, <6>2 DEF Mutable
        <5>3. db'[k].fetched = db[k].fetched
          BY <1>1, <4>2, <5>2 DEF Keeps
        <5> QED BY <1>2, <5>1, <5>3
      <4> QED BY <3>1, <4>1, <4>2
    <3>6. ASSUME kind = "market"
          PROVE  /\ db'[k].storage = "market_parquet_delta"
                 /\ Manifest(c) \in DOMAIN db'
                 /\ \A i \in DOMAIN OrdersOf[c] :
                      Version(OrdersOf[c][i]) \in DOMAIN db'
                      /\ Entry(m, c, OrdersOf[c][i][1]) \in DOMAIN db'
      <4>1. /\ Exists(x, Manifest(c))
            /\ tx[x][k].storage = "market_parquet_delta"
            /\ \A i \in DOMAIN OrdersOf[c] :
                 /\ Exists(x, Version(OrdersOf[c][i]))
                 /\ Exists(x, Entry(m, c, OrdersOf[c][i][1]))
        BY <3>1, <3>2, <3>3, <3>6 DEF IInv, Reached, Committing
      <4> QED BY <1>1, <3>3, <4>1
    <3> QED BY <3>1, <3>3, <3>4, <3>5, <3>6
  <2>3. CASE k \notin DOMAIN tx[x]
    <3>1. k \in DOMAIN db /\ db'[k] = db[k] /\ DOMAIN db \subseteq DOMAIN db'
      BY <1>1, <1>4, <2>3
    <3> QED BY <1>2, <1>4, <3>1 DEF IInv, Kept
  <2> QED BY <2>2, <2>3
<1>5. ASSUME NEW c \in Contents, NEW k, k = Manifest(c), k \in DOMAIN db'
      PROVE  db'[k].file \in files /\ content[db'[k].file] = c
  <2>1. CASE k \in DOMAIN tx[x]
    <3>1. k[1] = "manifest" /\ k[2] = c
      BY <1>5, Keys
    <3>2. k = Manifest(content[x]) /\ x \in files /\ tx[x][k].file = x
      BY <1>3, <2>1, <3>1 DEF RowOf
    <3>3. content[x] = c
      BY <3>1, <3>2, Keys
    <3> QED BY <1>1, <2>1, <3>2, <3>3
  <2>2. CASE k \notin DOMAIN tx[x]
    BY <1>1, <1>5, <2>2 DEF IInv, Kept
  <2> QED BY <2>1, <2>2
<1>6. ASSUME NEW m \in Minutes, NEW c \in Contents, NEW i \in DOMAIN OrdersOf[c],
             NEW k, k = Entry(m, c, OrdersOf[c][i][1]), k \in DOMAIN db'
      PROVE  Version(db'[k].version) \in DOMAIN db'
  <2>1. CASE k \in DOMAIN tx[x]
    <3>1. k[1] = "entry"
      BY <1>6, Keys
    <3>2. Exists(x, Version(tx[x][k].version))
      BY <1>3, <2>1, <3>1 DEF RowOf
    <3> QED BY <1>1, <2>1, <3>2
  <2>2. CASE k \notin DOMAIN tx[x]
    <3>1. Version(db[k].version) \in DOMAIN db
      BY <1>1, <1>6, <2>2 DEF IInv, Kept
    <3> QED BY <1>1, <1>6, <2>2, <3>1
  <2> QED BY <2>1, <2>2
<1>7. ASSUME Reference \in DOMAIN db'
      PROVE  kind \in Referred /\ \E u \in Writes : Stored(u)' /\ db'[Reference].body = content[u]
  <2>1. CASE Reference \in DOMAIN tx[x]
    <3>1. kind \in Referred /\ tx[x][Reference].body = content[x]
      BY <1>3, <2>1, Keys DEF RowOf
    <3> QED BY <1>1, <1>2, <2>1, <3>1
  <2>2. CASE Reference \notin DOMAIN tx[x]
    BY <1>1, <1>2, <1>7, <2>2 DEF IInv, Kept
  <2> QED BY <2>1, <2>2
<1>8. ASSUME Event \in DOMAIN db'
      PROVE  kind = "event" /\ \E u \in Writes : Stored(u)' /\ db'[Event] = [body |-> content[u]]
  <2>1. CASE Event \in DOMAIN tx[x]
    <3>1. kind = "event" /\ tx[x][Event] = [body |-> content[x]]
      BY <1>3, <2>1, Keys DEF RowOf
    <3> QED BY <1>1, <1>2, <2>1, <3>1
  <2>2. CASE Event \notin DOMAIN tx[x]
    BY <1>1, <1>2, <1>8, <2>2 DEF IInv, Kept
  <2> QED BY <2>1, <2>2
<1>9. ASSUME NEW w \in Writes, Stored(w)'
      PROVE  /\ kind \in Timed => MySnapshot(w) \in DOMAIN db'
             /\ kind \in Referred => Reference \in DOMAIN db'
             /\ kind = "event" => Event \in DOMAIN db'
  <2>1. CASE Stored(w)
    BY <1>1, <2>1 DEF IInv, Kept
  <2>2. CASE ~Stored(w)
    <3>1. w = x /\ pc[x] = "commit"
      BY <1>1, <1>2, <1>9, <2>2 DEF Stored
    <3>2. /\ kind \in Timed => Exists(x, MySnapshot(x))
          /\ kind \in Referred => Exists(x, Reference)
          /\ kind = "event" => Exists(x, Event)
      BY <3>1 DEF IInv, Reached, Committing
    <3> QED BY <1>1, <3>1, <3>2
  <2> QED BY <2>1, <2>2
<1>10. \A m \in Minutes, c \in Contents : Snapshot(m, c) \in DOMAIN db' =>
       /\ kind' \in Timed /\ Blob(c) \in DOMAIN db'
       /\ {"fetched", "storage"} \subseteq DOMAIN db'[Snapshot(m, c)]
       /\ \E u \in Writes : db'[Snapshot(m, c)].fetched = u /\ Stored(u)' /\ content'[u] = c
       /\ kind' = "market" =>
            /\ db'[Snapshot(m, c)].storage = "market_parquet_delta"
            /\ Manifest(c) \in DOMAIN db'
            /\ \A i \in DOMAIN OrdersOf[c] :
                 Version(OrdersOf[c][i]) \in DOMAIN db'
                 /\ Entry(m, c, OrdersOf[c][i][1]) \in DOMAIN db'
  BY <1>1, <1>4
<1>11. /\ \A c \in Contents : Manifest(c) \in DOMAIN db' =>
            db'[Manifest(c)].file \in files' /\ content'[db'[Manifest(c)].file] = c
       /\ \A m \in Minutes, c \in Contents : \A i \in DOMAIN OrdersOf[c] :
            Entry(m, c, OrdersOf[c][i][1]) \in DOMAIN db' =>
              Version(db'[Entry(m, c, OrdersOf[c][i][1])].version) \in DOMAIN db'
  BY <1>1, <1>5, <1>6
<1>12. /\ Reference \in DOMAIN db' =>
            kind' \in Referred /\ \E u \in Writes : Stored(u)' /\ db'[Reference].body = content'[u]
       /\ Event \in DOMAIN db' =>
            kind' = "event" /\ \E u \in Writes : Stored(u)' /\ db'[Event] = [body |-> content'[u]]
       /\ \A w \in Writes : Stored(w)' =>
            /\ kind' \in Timed => MySnapshot(w)' \in DOMAIN db'
            /\ kind' \in Referred => Reference \in DOMAIN db'
            /\ kind' = "event" => Event \in DOMAIN db'
  BY <1>1, <1>2, <1>7, <1>8, <1>9
<1> QED BY <1>10, <1>11, <1>12 DEF Kept, Minutes, Writes, Timed, Referred

LEMMA CommitsKeeps == ASSUME IInv, NEW x \in Writes, Commit(x) PROVE IInv'
<1>1. /\ Typing' /\ Locks' /\ UNCHANGED <<kind, content, minute, files, row, redis>>
      /\ pc[x] \in {"commit", "commit_names"}
      /\ pc'[x] = IF pc[x] = "commit" /\ kind = "names" THEN "names" ELSE "ok"
      /\ DOMAIN tx'[x] = {}
      /\ \A u \in Writes \ {x} : tx'[u] = tx[u] /\ pc'[u] = pc[u]
      /\ DOMAIN db' = DOMAIN db \cup DOMAIN tx[x]
      /\ \A k \in DOMAIN tx[x] : db'[k] = tx[x][k]
      /\ \A k \in DOMAIN db \ DOMAIN tx[x] : db'[k] = db[k]
  BY CommitStep
<1>2. Cached'
  <2> SUFFICES ASSUME NEW id \in DOMAIN redis
               PROVE  LET w == redis[id].by IN
                        /\ w \in Writes /\ pc'[w] \in {"commit_names", "ok", "unnamed"}
                        /\ pc'[w] = "commit_names" => Name(id) \in DOMAIN tx'[w]
                        /\ pc'[w] = "ok" => Name(id) \in DOMAIN db' /\ db'[Name(id)].name = redis[id].name
    BY <1>1 DEF Cached
  <2> DEFINE w == redis[id].by
             k == Name(id)
  <2>1. /\ w \in Writes /\ pc[w] \in {"commit_names", "ok", "unnamed"}
        /\ pc[w] = "commit_names" => k \in DOMAIN tx[w]
        /\ pc[w] = "ok" => k \in DOMAIN db /\ db[k].name = redis[id].name
    BY DEF IInv, Cached
  <2>2. k[1] = "name" /\ k[2] = id
    BY Keys
  <2>3. k \in DOMAIN tx[x] =>
          pc[x] = "commit_names" /\ redis[id].name = tx[x][k].name /\ redis[id].by = x
    <3> SUFFICES ASSUME k \in DOMAIN tx[x]
                 PROVE  pc[x] = "commit_names" /\ redis[id].name = tx[x][k].name /\ redis[id].by = x
      OBVIOUS
    <3>1. pc[x] = "commit_names"
      BY <1>1, <2>2 DEF IInv, Named, NameLabels
    <3>2. redis[id] = [name |-> tx[x][k].name, by |-> x]
      BY <2>2, <3>1 DEF IInv, Named
    <3> HIDE DEF k
    <3> QED BY <3>1, <3>2
  <2> HIDE DEF k
  <2>4. CASE w = x
    <3>1. pc[x] = "commit_names" /\ pc'[x] = "ok" /\ k \in DOMAIN tx[x]
      BY <1>1, <2>1, <2>4
    <3> QED BY <1>1, <2>3, <2>4, <3>1 DEF k
  <2>5. CASE w # x
    <3>1. k \notin DOMAIN tx[x] /\ pc'[w] = pc[w] /\ tx'[w] = tx[w]
      BY <1>1, <2>1, <2>3, <2>5
    <3> HIDE DEF w
    <3> QED BY <1>1, <2>1, <3>1 DEF k, w
  <2> QED BY <2>4, <2>5
<1>3. ASSUME NEW u \in Writes PROVE Reached(u)' /\ Wrote(u)' /\ Named(u)'
  <2>1. CASE u = x
    <3>1. Reached(x)'
      BY <1>1 DEF Reached, Committing
    <3>2. Wrote(x)'
      BY <1>1 DEF Wrote
    <3>3. pc'[x] = "names" => row'[x] = 1
      BY <1>1 DEF IInv, Reached, Committing
    <3>4. Named(x)'
      BY <1>1, <3>3 DEF Named
    <3> QED BY <2>1, <3>1, <3>2, <3>4
  <2>2. CASE u # x
    <3>1. Apart(u) /\ Listing(u)' = Listing(u)
      BY <1>1, <2>2 DEF Apart, Listing, OrdersIn
    <3>2. Named(u) /\ pc'[u] = pc[u] /\ row'[u] = row[u] /\ tx'[u] = tx[u] /\ redis' = redis
      BY <1>1, <2>2 DEF IInv
    <3>3. Named(u)'
      BY <3>1, <3>2 DEF Named, NameLabels
    <3> QED BY <3>1, <3>3, ApartKeeps DEF IInv
  <2> QED BY <2>1, <2>2
<1> QED BY <1>1, <1>2, <1>3, CommitKept DEF IInv

-----------------------------------------------------------------------------
(* The other steps *)

LEMMA BeginKeeps == ASSUME IInv, NEW x \in Writes, Begin(x) PROVE IInv'
<1>1. PICK l \in {"blob", "reference", "event"} :
        /\ pc[x] = "new" /\ minute' = [minute EXCEPT ![x] = clock] /\ Goto(x, l)
        /\ UNCHANGED <<kind, db, tx, files, content, row, clock, redis>>
        /\ l = "blob" => kind \in Timed
        /\ l = "reference" => kind \in Referred
        /\ l = "event" => kind = "event"
  <2>1. kind \in {"market", "series", "reference", "names", "event"}
    BY ArchiveAssumption DEF IInv, Typing
  <2> QED BY <2>1 DEF Begin, Timed, Referred
<1>2. Moves(x, l)
  BY <1>1, GotoMoves DEF IInv, Labels
<1>3. /\ tx[x] = NoRows /\ DOMAIN tx'[x] = {} /\ row'[x] = 1
      /\ \A u \in Writes \ {x} : minute'[u] = minute[u]
      /\ \A u \in Writes : Listing(u)' = Listing(u)
  BY <1>1, EmptyRows DEF IInv, Locks, Reached, Typing, Listing, OrdersIn
<1>4. Typing'
  <2>1. minute' \in [Writes -> Minutes]
    BY <1>1 DEF IInv, Typing
  <2>2. \A u \in Writes : OfKind(u)'
    BY <1>1, <1>2 DEF IInv, Typing, OfKind, NameLabels, Moves
  <2>3. pc' \in [Writes -> Labels]
    BY <1>2 DEF Moves
  <2>4. /\ kind' \in Kinds /\ tx' \in [Writes -> {tx'[u] : u \in Writes}]
        /\ files' \subseteq Writes /\ content' \in [Writes -> Contents]
        /\ row' \in [Writes -> Nat \ {0}] /\ clock' \in Minutes
        /\ \A u \in Writes : row'[u] <= Len(Listing(u)') + 1
    BY <1>1, <1>3 DEF IInv, Typing
  <2> QED BY <2>1, <2>2, <2>3, <2>4 DEF Typing, Writes, Minutes
<1>5. Locks'
  <2>1. \A u \in Writes : pc'[u] = "new" \/ Ended(u)' => tx'[u] = NoRows
    BY <1>1, <1>2 DEF IInv, Locks, Ended, Moves
  <2> QED BY <1>1, <2>1 DEF IInv, Locks, Keeps, Mutable
<1>6. Kept'
  <2>1. \A u \in Writes : Stored(u)' <=> Stored(u)
    BY <1>1, <1>2 DEF Moves, Stored
  <2>2. \A u \in Writes : Stored(u) => minute'[u] = minute[u]
    BY <1>1, <1>3 DEF Stored
  <2> QED BY <1>1, <2>1, <2>2, KeptStays DEF IInv
<1>7. Cached'
  <2> SUFFICES ASSUME NEW id \in DOMAIN redis
               PROVE  LET w == redis[id].by IN
                        /\ w \in Writes /\ pc'[w] \in {"commit_names", "ok", "unnamed"}
                        /\ pc'[w] = "commit_names" => Name(id) \in DOMAIN tx[w]
                        /\ pc'[w] = "ok" => Name(id) \in DOMAIN db /\ db[Name(id)].name = redis[id].name
    BY <1>1 DEF Cached
  <2>1. redis[id].by \in Writes \ {x} /\ pc'[redis[id].by] = pc[redis[id].by]
    BY <1>1, <1>2 DEF IInv, Cached, Moves
  <2> QED BY <2>1 DEF IInv, Cached
<1>8. ASSUME NEW u \in Writes PROVE Reached(u)' /\ Wrote(u)' /\ Named(u)'
  <2>1. CASE u = x
    <3>1. Reached(x)'
      BY <1>1, <1>2, <1>3 DEF Reached, Committing, Moves
    <3>2. Wrote(x)' /\ Named(x)'
      BY <1>1, <1>2, <1>3 DEF Wrote, Named, Moves, NameLabels
    <3> QED BY <2>1, <3>1, <3>2
  <2>2. CASE u # x
    <3>1. Apart(u)
      BY <1>1, <1>2, <1>3, <2>2 DEF Apart, Moves
    <3>2. Named(u) /\ pc'[u] = pc[u] /\ row'[u] = row[u] /\ tx'[u] = tx[u] /\ redis' = redis
      BY <1>1, <1>2, <2>2 DEF IInv, Moves
    <3>3. Named(u)'
      BY <1>3, <3>2 DEF Named, NameLabels
    <3> QED BY <3>1, <3>3, ApartKeeps DEF IInv
  <2> QED BY <2>1, <2>2
<1> QED BY <1>4, <1>5, <1>6, <1>7, <1>8 DEF IInv

\* Steps that are not about the archive.
LEMMA ClockKeeps ==
  ASSUME IInv, UNCHANGED <<kind, db, tx, files, pc, content, minute, row, redis>>, clock' \in Minutes
  PROVE  IInv'
<1>1. \A u \in Writes : Listing(u)' = Listing(u) /\ MySnapshot(u)' = MySnapshot(u)
  BY DEF Listing, OrdersIn, MySnapshot
<1>2. Typing'
  <2>1. \A u \in Writes : OfKind(u)'
    BY DEF IInv, Typing, OfKind
  <2>2. \A u \in Writes : row'[u] <= Len(Listing(u)') + 1
    BY <1>1 DEF IInv, Typing
  <2> QED BY <2>1, <2>2 DEF IInv, Typing, Writes, Minutes
<1>3. Locks'
  BY DEF IInv, Locks, Ended, Keeps, Mutable
<1>4. Kept'
  <2>1. \A u \in Writes : Stored(u)' <=> Stored(u)
    BY DEF Stored
  <2> QED BY <2>1, KeptStays DEF IInv
<1>5. Cached'
  BY DEF IInv, Cached
<1>6. ASSUME NEW u \in Writes PROVE Reached(u)' /\ Wrote(u)' /\ Named(u)'
  <2>1. Apart(u)
    BY DEF Apart
  <2>2. Named(u)
    BY DEF IInv
  <2>3. Named(u)'
    BY <1>1, <2>2 DEF Named, NameLabels
  <2> QED BY <2>1, <2>3, ApartKeeps DEF IInv
<1> QED BY <1>2, <1>3, <1>4, <1>5, <1>6 DEF IInv

-----------------------------------------------------------------------------
(* The invariant *)

LEMMA InitIInv == Init => IInv
<1> SUFFICES ASSUME Init PROVE IInv
  OBVIOUS
<1>1. /\ db = NoRows /\ redis = NoRows /\ DOMAIN db = {} /\ DOMAIN redis = {}
      /\ \A w \in Writes : tx[w] = NoRows /\ DOMAIN tx[w] = {} /\ pc[w] = "new" /\ row[w] = 1
  BY EmptyRows DEF Init
<1>2. Typing
  <2>1. \A w \in Writes : Len(Listing(w)) \in Nat
    BY ArchiveAssumption DEF Init, Listing, OrdersIn
  <2>2. tx \in [Writes -> {tx[w] : w \in Writes}] /\ row \in [Writes -> Nat \ {0}]
    BY DEF Init
  <2>3. 0 \in Minutes
    BY ArchiveAssumption DEF Minutes
  <2>4. \A w \in Writes : OfKind(w) /\ row[w] <= Len(Listing(w)) + 1
    BY <1>1, <2>1 DEF OfKind, NameLabels
  <2> QED BY <2>2, <2>3, <2>4 DEF Init, Typing, Labels
<1>3. Locks
  BY <1>1 DEF Locks
<1>4. Kept
  BY <1>1 DEF Kept, Stored
<1>5. Cached
  BY <1>1 DEF Cached
<1>6. \A w \in Writes : Reached(w) /\ Wrote(w) /\ Named(w)
  BY <1>1 DEF Reached, Committing, Wrote, Named, NameLabels
<1> QED BY <1>2, <1>3, <1>4, <1>5, <1>6 DEF IInv

LEMMA NextIInv == IInv /\ [Next]_vars => IInv'
<1> SUFFICES ASSUME IInv, [Next]_vars PROVE IInv'
  OBVIOUS
<1>1. CASE PassMinute
  <2>1. clock' \in Minutes
    BY <1>1, ArchiveAssumption DEF PassMinute, Minutes, IInv, Typing
  <2> QED BY <1>1, <2>1, ClockKeeps DEF PassMinute, argVars
<1>2. ASSUME NEW w \in Writes, Begin(w) \/ Proceed(w) \/ Fail(w) PROVE IInv'
  <2>1. CASE WriteBlob(w) \/ WriteTimeseries(w) \/ WriteParquetFile(w) \/ InsertManifest(w)
    BY <2>1, BlobKeeps, TimeseriesKeeps, ParquetKeeps, ManifestKeeps
  <2>2. CASE UpsertVersion(w) \/ WriteEntries(w) \/ Relabel(w)
    BY <2>2, VersionKeeps, EntriesKeeps, RelabelKeeps
  <2>3. CASE UpsertReference(w) \/ WriteEvent(w) \/ Commit(w)
    BY <2>3, ReferenceKeeps, EventKeeps, CommitsKeeps
  <2>4. CASE UpsertName(w) \/ NamesUpserted(w) \/ SetNames(w)
    BY <2>4, NameKeeps, UpsertedKeeps, SetKeeps
  <2>5. CASE RejectRepeated(w) \/ AbortDeadlocked(w) \/ Fail(w)
    BY <2>5, RejectKeeps, AbortKeeps, FailKeeps
  <2>6. CASE Begin(w)
    BY <2>6, BeginKeeps
  <2> QED BY <1>2, <2>1, <2>2, <2>3, <2>4, <2>5, <2>6 DEF Proceed
<1>3. CASE UNCHANGED vars
  <2>1. clock' \in Minutes
    BY <1>3 DEF vars, IInv, Typing
  <2> QED BY <1>3, <2>1, ClockKeeps DEF vars
<1> QED BY <1>1, <1>2, <1>3 DEF Next

\* The inductive invariant holds in every state.
THEOREM Invariance == Spec => []IInv
<1>1. Init => IInv
  BY InitIInv
<1>2. IInv /\ [Next]_vars => IInv'
  BY NextIInv
<1> QED BY <1>1, <1>2, PTL DEF Spec

\* The calls, the clock, and whose files and Redis names there are, are of their
\* kinds; a call that has ended holds no row lock.
THEOREM TypeCorrect == Spec => []TypeOK
<1>1. IInv => TypeOK
  <2> SUFFICES ASSUME IInv PROVE TypeOK
    OBVIOUS
  <2>1. \A w \in Writes : row[w] \in 1..(Len(Listing(w)) + 1)
    <3> SUFFICES ASSUME NEW w \in Writes PROVE row[w] \in 1..(Len(Listing(w)) + 1)
      OBVIOUS
    <3>1. row[w] \in Nat \ {0} /\ row[w] <= Len(Listing(w)) + 1
      BY DEF IInv, Typing
    <3>2. Len(Listing(w)) \in Nat
      BY ArchiveAssumption DEF Listing, OrdersIn, IInv, Typing
    <3> QED BY <3>1, <3>2
  <2> QED BY <2>1 DEF IInv, Typing, Locks, Cached, TypeOK
<1> QED BY <1>1, Invariance, PTL

\* What is committed is complete: payload, manifest, file, versions, entries.
THEOREM CommittedWhole == Spec => []CommittedIsComplete
<1>1. IInv => CommittedIsComplete
  <2> SUFFICES ASSUME IInv, NEW m \in Minutes, NEW c \in Contents,
                      NEW s, s = <<m, c>>, Snapshot(s[1], s[2]) \in DOMAIN db
               PROVE  /\ Blob(c) \in DOMAIN db
                      /\ kind = "market" =>
                           /\ Row(s).storage = "market_parquet_delta"
                           /\ Manifest(c) \in DOMAIN db
                           /\ db[Manifest(c)].file \in files /\ content[db[Manifest(c)].file] = c
                           /\ \A i \in DOMAIN OrdersOf[c] :
                                LET o == OrdersOf[c][i] IN
                                  /\ Version(o) \in DOMAIN db /\ Entry(m, c, o[1]) \in DOMAIN db
                                  /\ Version(db[Entry(m, c, o[1])].version) \in DOMAIN db
    BY DEF CommittedIsComplete, Snapshots
  <2>1. Kept /\ Snapshot(m, c) \in DOMAIN db /\ Row(s) = db[Snapshot(m, c)]
    BY DEF IInv, Row
  <2> QED BY <2>1 DEF Kept
<1> QED BY <1>1, Invariance, PTL

\* The row of archive_timeseries that get_latest_payload takes is there.
LEMMA NewestExists == ASSUME IInv, Snapshots # {} PROVE Newest \in Snapshots
<1> DEFINE T == {Row(s).fetched : s \in Snapshots}
<1>1. \A s \in Snapshots : Row(s).fetched \in Writes
  BY DEF IInv, Kept, Snapshots, Row
<1>2. T \in SUBSET (1..NumWrites) /\ T # {}
  <2>1. PICK s \in Snapshots : TRUE
    OBVIOUS
  <2> QED BY <1>1, <2>1 DEF Writes
<1>3. PICK t \in T : \A r \in T : r <= t
  <2> HIDE DEF T
  <2> QED BY <1>2, GreatestIndex, ArchiveAssumption
<1>4. PICK s \in Snapshots : t = Row(s).fetched
  OBVIOUS
<1>5. \A r \in Snapshots : Row(r).fetched <= Row(s).fetched
  BY <1>3, <1>4
<1> QED BY <1>5 DEF Newest

\* A success is in the archive, and with it a payload to fall back to.
THEOREM SuccessArchived == Spec => []SuccessIsArchived
<1>1. IInv => SuccessIsArchived
  <2> SUFFICES ASSUME IInv, NEW w \in Writes, Stored(w)
               PROVE  /\ kind \in Timed => MySnapshot(w) \in DOMAIN db
                      /\ \E u \in Writes : Stored(u) /\ LatestPayload = {content[u]}
    BY DEF SuccessIsArchived, Timed
  <2>1. kind \in Timed \cup Referred \cup {"event"}
    BY ArchiveAssumption DEF IInv, Typing, Timed, Referred
  <2>2. /\ kind \in Timed => MySnapshot(w) \in DOMAIN db
        /\ kind \in Referred => Reference \in DOMAIN db
        /\ kind = "event" => Event \in DOMAIN db
    BY DEF IInv, Kept
  <2>3. Snapshots # {} => kind \in Timed
    BY DEF IInv, Kept, Snapshots
  <2>4. CASE kind \in Timed
    <3>1. <<minute[w], content[w]>> \in Snapshots
      BY <2>2, <2>4 DEF IInv, Typing, Snapshots, MySnapshot
    <3>2. Newest \in Snapshots
      BY <3>1, NewestExists
    <3> DEFINE s == Newest
    <3>3. /\ s[1] \in Minutes /\ s[2] \in Contents /\ Snapshot(s[1], s[2]) \in DOMAIN db
      BY <3>2 DEF Snapshots
    <3> HIDE DEF s
    <3>4. Blob(s[2]) \in DOMAIN db /\ \E u \in Writes : Stored(u) /\ content[u] = s[2]
      BY <3>3 DEF IInv, Kept
    <3> QED BY <2>2, <2>4, <3>1, <3>4 DEF LatestPayload, s
  <2>5. CASE kind \in Referred
    <3>1. Snapshots = {} /\ Reference \in DOMAIN db
      BY <2>2, <2>3, <2>5 DEF Timed, Referred
    <3>2. PICK u \in Writes : Stored(u) /\ db[Reference].body = content[u]
      BY <3>1 DEF IInv, Kept
    <3> QED BY <2>2, <3>1, <3>2 DEF LatestPayload
  <2>6. CASE kind = "event"
    <3>1. Snapshots = {} /\ Reference \notin DOMAIN db /\ Event \in DOMAIN db
      BY <2>2, <2>3, <2>6 DEF Timed, Referred, IInv, Kept
    <3>2. PICK u \in Writes : Stored(u) /\ db[Event].body = content[u]
      BY <3>1 DEF IInv, Kept
    <3> QED BY <2>2, <3>1, <3>2 DEF LatestPayload
  <2> QED BY <2>1, <2>4, <2>5, <2>6
<1> QED BY <1>1, Invariance, PTL

\* Redis and the table of names agree on every name a call has committed.
THEOREM NamesAgreed == Spec => []NamesAgree
<1>1. IInv => NamesAgree
  BY DEF IInv, Cached, NamesAgree
<1> QED BY <1>1, Invariance, PTL

\* A committed row is never removed and never changes where it may not.
THEOREM Appending == Spec => AppendOnly
<1>1. IInv /\ [Next]_vars =>
        [\A k \in DOMAIN db :
           /\ k \in DOMAIN db'
           /\ \A f \in DOMAIN db[k] \ Mutable(k) : db'[k][f] = db[k][f]]_vars
  <2> SUFFICES ASSUME IInv, Next, NEW k \in DOMAIN db
               PROVE  /\ k \in DOMAIN db'
                      /\ \A f \in DOMAIN db[k] \ Mutable(k) : db'[k][f] = db[k][f]
    OBVIOUS
  <2>1. UNCHANGED db \/ \E w \in Writes : Commit(w)
    BY DEF Next, PassMinute, Begin, Proceed, Fail, WriteBlob, WriteTimeseries, WriteParquetFile,
           InsertManifest, UpsertVersion, RejectRepeated, WriteEntries, Relabel, UpsertReference,
           WriteEvent, UpsertName, NamesUpserted, SetNames, AbortDeadlocked
  <2>2. CASE UNCHANGED db
    BY <2>2
  <2>3. ASSUME NEW w \in Writes, Commit(w)
        PROVE  /\ k \in DOMAIN db'
               /\ \A f \in DOMAIN db[k] \ Mutable(k) : db'[k][f] = db[k][f]
    <3>1. DOMAIN db' = DOMAIN db \cup DOMAIN tx[w] /\ Keeps(k, db[k], db'[k])
      BY <2>3, CommitStep
    <3> QED BY <3>1 DEF Keeps
  <2> QED BY <2>1, <2>2, <2>3
<1> QED BY <1>1, Invariance, PTL DEF Spec, AppendOnly

-----------------------------------------------------------------------------
(* Implementation of AtomicArchive.                                        *)
(* What a call is about to commit: in its second transaction only names,   *)
(* so that it moves no payload; of a reference its own row, which replaces *)
(* the one that is there.                                                  *)

Pending(w) ==
  /\ pc[w] \in NameLabels => \A k \in DOMAIN tx[w] : k[1] = "name"
  /\ Committing(w, Referred) => Reference \in DOMAIN tx[w]

\* A step of w leaves the other calls alone.
Alone(w) == kind' = kind /\ \A u \in Writes \ {w} : pc'[u] = pc[u] /\ tx'[u] = tx[u]

LEMMA StepsAreAlone ==
  ASSUME IInv, NEW w \in Writes, Begin(w) \/ Proceed(w) \/ Fail(w)
  PROVE  Alone(w) /\ UNCHANGED content /\ \A u \in Writes : Stored(u) => minute'[u] = minute[u]
<1> USE DEF Alone, argVars, Goto, Write, InsertOnce, Upsert, End
<1>1. pc \in [Writes -> Labels] /\ tx \in [Writes -> {tx[u] : u \in Writes}]
      /\ minute \in [Writes -> Minutes]
  BY DEF IInv, Typing
<1>2. CASE Begin(w)
  BY <1>1, <1>2 DEF Begin, Stored
<1>3. CASE WriteBlob(w) \/ WriteTimeseries(w) \/ WriteParquetFile(w) \/ InsertManifest(w)
  BY <1>1, <1>3 DEF WriteBlob, WriteTimeseries, WriteParquetFile, InsertManifest
<1>4. CASE UpsertVersion(w) \/ WriteEntries(w) \/ Relabel(w)
  BY <1>1, <1>4 DEF UpsertVersion, WriteEntries, Relabel
<1>5. CASE UpsertReference(w) \/ WriteEvent(w) \/ Commit(w)
  BY <1>1, <1>5 DEF UpsertReference, WriteEvent, Commit
<1>6. CASE UpsertName(w) \/ NamesUpserted(w) \/ SetNames(w)
  BY <1>1, <1>6 DEF UpsertName, NamesUpserted, SetNames
<1>7. CASE RejectRepeated(w) \/ AbortDeadlocked(w) \/ Fail(w)
  BY <1>1, <1>7 DEF RejectRepeated, AbortDeadlocked, Fail
<1> QED BY <1>2, <1>3, <1>4, <1>5, <1>6, <1>7 DEF Proceed

LEMMA StepPending ==
  ASSUME IInv, NEW w \in Writes, Pending(w), Begin(w) \/ Proceed(w) \/ Fail(w)
  PROVE  Pending(w)'
<1>1. /\ pc \in [Writes -> Labels] /\ tx \in [Writes -> {tx[u] : u \in Writes}]
      /\ OfKind(w)
  BY DEF IInv, Typing
<1>2. CASE Begin(w)
  <2>1. pc'[w] \in {"blob", "reference", "event"}
    BY <1>1, <1>2, ArchiveAssumption DEF Begin, Goto, IInv, Typing
  <2> QED BY <2>1 DEF Pending, Committing, NameLabels
<1>3. CASE WriteBlob(w) \/ WriteParquetFile(w) \/ InsertManifest(w) \/ UpsertVersion(w)
           \/ WriteEntries(w)
  <2>1. pc'[w] \in {"snapshot", "versions", "insert_manifest", "relabel"}
    BY <1>1, <1>3 DEF WriteBlob, WriteParquetFile, InsertManifest, UpsertVersion, WriteEntries, Goto
  <2> QED BY <2>1 DEF Pending, Committing, NameLabels
<1>4. CASE WriteTimeseries(w) \/ Relabel(w) \/ WriteEvent(w)
  <2>1. pc'[w] \in {"manifest", "commit"} /\ kind' \in Timed \cup {"event"}
    BY <1>1, <1>4 DEF WriteTimeseries, Relabel, WriteEvent, Goto, OfKind, argVars, Timed
  <2> QED BY <2>1 DEF Pending, Committing, NameLabels, Timed, Referred
<1>5. CASE UpsertReference(w)
  <2>1. pc'[w] = "commit"
    BY <1>1, <1>5 DEF UpsertReference, Goto
  <2> DEFINE r == Upserted(w, Reference, [body |-> content[w], first |-> w, last |-> w],
                           [body |-> content[w], last |-> w])
  <2>2. tx'[w] = Over(tx[w], Only(Reference, r))
    BY <1>1, <1>5 DEF UpsertReference, Upsert, Write, Upserted
  <2> HIDE DEF r
  <2>3. Reference \in DOMAIN tx'[w]
    BY <2>2 DEF Over, Only
  <2> QED BY <2>1, <2>3 DEF Pending, NameLabels
<1>6. CASE Commit(w)
  <2>1. /\ pc'[w] = IF pc[w] = "commit" /\ kind = "names" THEN "names" ELSE "ok"
        /\ DOMAIN tx'[w] = {}
    BY <1>6, CommitStep
  <2> QED BY <2>1 DEF Pending, Committing, NameLabels
<1>7. CASE UpsertName(w)
  <2>1. pc[w] = "names" /\ pc'[w] = "names"
    BY <1>7 DEF UpsertName
  <2> DEFINE n == [name |-> Listing(w)[row[w]][2], last |-> w]
             k == Name(Listing(w)[row[w]][1])
             r == Upserted(w, k, Over(n, [first |-> w]), n)
  <2>2. RowKey(w, row[w]) = k
    BY <1>1, <2>1 DEF RowKey, OfKind, NameLabels
  <2>3. tx'[w] = Over(tx[w], Only(k, r))
    BY <1>1, <1>7, <2>2 DEF UpsertName, Upsert, Write, Upserted
  <2>4. k[1] = "name"
    BY Keys
  <2> HIDE DEF k, r
  <2>5. DOMAIN tx'[w] = DOMAIN tx[w] \cup {k}
    BY <2>3 DEF Over, Only
  <2> QED BY <2>1, <2>4, <2>5 DEF Pending, Committing, NameLabels
<1>8. CASE NamesUpserted(w) \/ SetNames(w)
  <2>1. /\ pc[w] \in NameLabels /\ pc'[w] \in NameLabels /\ tx'[w] = tx[w]
    BY <1>1, <1>8 DEF NamesUpserted, SetNames, Goto, After, NameLabels
  <2> QED BY <2>1 DEF Pending, Committing, NameLabels
<1>9. CASE RejectRepeated(w) \/ AbortDeadlocked(w) \/ Fail(w)
  <2>1. pc'[w] \in {"failed", "unnamed"}
    BY <1>1, <1>9 DEF RejectRepeated, AbortDeadlocked, Fail, End, Failure
  <2> QED BY <2>1 DEF Pending, Committing, NameLabels
<1> QED BY <1>2, <1>3, <1>4, <1>5, <1>6, <1>7, <1>8, <1>9 DEF Proceed

AllPending == \A w \in Writes : Pending(w)

LEMMA PendingHolds == Spec => []AllPending
<1>1. Init => AllPending
  BY DEF Init, AllPending, Pending, Committing, NameLabels
<1>2. IInv /\ AllPending /\ [Next]_vars => AllPending'
  <2> SUFFICES ASSUME IInv, AllPending, [Next]_vars PROVE AllPending'
    OBVIOUS
  <2>1. CASE UNCHANGED <<kind, pc, tx>>
    BY <2>1 DEF AllPending, Pending, Committing
  <2>2. ASSUME NEW w \in Writes, Begin(w) \/ Proceed(w) \/ Fail(w) PROVE AllPending'
    <3>1. Pending(w)'
      BY <2>2, StepPending DEF AllPending
    <3>2. \A u \in Writes \ {w} : Pending(u)'
      BY <2>2, StepsAreAlone DEF Alone, AllPending, Pending, Committing
    <3> QED BY <3>1, <3>2 DEF AllPending
  <2> QED BY <2>1, <2>2 DEF Next, PassMinute, argVars, vars
<1> QED BY <1>1, <1>2, Invariance, PTL DEF Spec

\* The payload to fall back to is read off the committed rows alone.
LEMMA LatestIsCommitted ==
  ASSUME UNCHANGED db
  PROVE  LatestPayload' = LatestPayload /\ AbstractSince' = AbstractSince
<1>1. Snapshots' = Snapshots
  BY DEF Snapshots, Minutes
<1>2. \A s : Row(s)' = Row(s)
  BY DEF Row
<1>3. Newest' = Newest
  BY <1>1, <1>2 DEF Newest
<1> QED BY <1>1, <1>2, <1>3 DEF LatestPayload, AbstractSince

\* A call that stands where it stood, to AtomicArchive, has done nothing to it ...
LEMMA SameStage ==
  ASSUME UNCHANGED <<kind, content>>, LatestPayload' = LatestPayload,
         AbstractSince' = AbstractSince, \A u \in Writes : AbstractStage(u)' = AbstractStage(u)
  PROVE  UNCHANGED Abstract!vars
<1>1. AbstractPolicy' = AbstractPolicy
  BY DEF AbstractPolicy
<1>2. [u \in Writes |-> AbstractStage(u)]' = [u \in Writes |-> AbstractStage(u)]
  BY DEF Writes
<1> QED BY <1>1, <1>2 DEF Abstract!vars

\* ... and one whose stage has changed has advanced.
LEMMA StageAdvances ==
  ASSUME NEW w \in Writes, NEW s, AbstractStage(w) = "open", AbstractStage(w)' = s,
         UNCHANGED <<kind, content>>, \A u \in Writes \ {w} : AbstractStage(u)' = AbstractStage(u)
  PROVE  Abstract!Advance(w, s)
<1>1. AbstractPolicy' = AbstractPolicy
  BY DEF AbstractPolicy
<1>2. [u \in Writes |-> AbstractStage(u)]'
      = [[u \in Writes |-> AbstractStage(u)] EXCEPT ![w] = s]
  <2>1. \A u \in Writes : AbstractStage(u)' = IF u = w THEN s ELSE AbstractStage(u)
    OBVIOUS
  <2> QED BY <2>1 DEF Writes
<1> QED BY <1>1, <1>2 DEF Abstract!Advance

\* A step that commits nothing and stays within a stage.
StoredLabels == {"ok", "names", "set_names", "commit_names", "unnamed"}

LEMMA StagesOfLabels ==
  /\ \A w : AbstractStage(w) = IF pc[w] \in StoredLabels THEN "stored"
                               ELSE IF pc[w] = "failed" THEN "failed" ELSE "open"
  /\ \A w : AbstractStage(w)' = IF pc'[w] \in StoredLabels THEN "stored"
                                ELSE IF pc'[w] = "failed" THEN "failed" ELSE "open"
BY DEF AbstractStage, Stored, StoredLabels

LEMMA AloneInStage ==
  ASSUME NEW w \in Writes, Alone(w), NEW u \in Writes \ {w}
  PROVE  AbstractStage(u)' = AbstractStage(u)
BY StagesOfLabels DEF Alone

\* A step that commits nothing stutters, unless the response fails.
LEMMA StutterOrFail ==
  ASSUME IInv, NEW w \in Writes, UNCHANGED db, ~ Commit(w), Begin(w) \/ Proceed(w) \/ Fail(w)
  PROVE  Abstract!Fail(w) \/ UNCHANGED Abstract!vars
<1>1. pc \in [Writes -> Labels] /\ OfKind(w)
  BY DEF IInv, Typing
<1>2. Alone(w) /\ UNCHANGED <<kind, content>>
  BY StepsAreAlone DEF Alone
<1>3. LatestPayload' = LatestPayload /\ AbstractSince' = AbstractSince
  BY LatestIsCommitted
<1>4. CASE RejectRepeated(w) \/ AbortDeadlocked(w) \/ Fail(w)
  <2>1. pc[w] \notin Endings /\ pc'[w] = Failure(w)
    <3>1. CASE RejectRepeated(w)
      BY <1>1, <3>1 DEF RejectRepeated, End, Endings
    <3>2. CASE Fail(w)
      BY <1>1, <3>2 DEF Fail, Ended, End, Endings
    <3>3. CASE AbortDeadlocked(w)
      <4>1. Wants(w) # {}
        BY <3>3 DEF AbortDeadlocked, Deadlocked, WaitsFor, Holders
      <4>2. pc[w] \notin Endings
        BY <4>1 DEF Wants, Endings
      <4> QED BY <1>1, <3>3, <4>2 DEF AbortDeadlocked, End
    <3> QED BY <1>4, <3>1, <3>2, <3>3
  <2>2. CASE pc[w] \in NameLabels
    <3>1. AbstractStage(w)' = AbstractStage(w)
      BY <2>1, <2>2, StagesOfLabels DEF Failure, NameLabels, StoredLabels
    <3> QED BY <1>2, <1>3, <3>1, AloneInStage, SameStage
  <2>3. CASE pc[w] \notin NameLabels
    <3>1. AbstractStage(w) = "open" /\ AbstractStage(w)' = "failed"
      BY <2>1, <2>3, StagesOfLabels DEF Failure, NameLabels, Endings, StoredLabels
    <3>2. Abstract!Advance(w, "failed")
      BY <1>2, <3>1, AloneInStage, StageAdvances
    <3> QED BY <1>3, <3>2 DEF Abstract!Fail
  <2> QED BY <2>2, <2>3
<1>5. ASSUME AbstractStage(w)' = AbstractStage(w) PROVE UNCHANGED Abstract!vars
  BY <1>2, <1>3, <1>5, AloneInStage, SameStage
<1>6. CASE Begin(w) \/ WriteBlob(w) \/ WriteTimeseries(w) \/ WriteParquetFile(w)
           \/ InsertManifest(w) \/ UpsertVersion(w) \/ WriteEntries(w) \/ Relabel(w)
           \/ UpsertReference(w) \/ WriteEvent(w)
  <2>1. CASE Begin(w)
    <3>1. pc[w] = "new" /\ pc'[w] \in {"blob", "reference", "event"}
      BY <1>1, <2>1, ArchiveAssumption DEF Begin, Goto, IInv, Typing
    <3> QED BY <1>5, <3>1, StagesOfLabels DEF StoredLabels
  <2>2. CASE UpsertVersion(w)
    BY <1>5, <2>2, StagesOfLabels DEF UpsertVersion
  <2>3. CASE ~ Begin(w) /\ ~ UpsertVersion(w)
    <3>1. /\ pc[w] \notin StoredLabels \cup {"failed"}
          /\ pc'[w] \notin StoredLabels \cup {"failed"}
      BY <1>1, <1>6, <2>3 DEF WriteBlob, WriteTimeseries, WriteParquetFile, InsertManifest,
           WriteEntries, Relabel, UpsertReference, WriteEvent, Goto, StoredLabels
    <3> QED BY <1>5, <3>1, StagesOfLabels
  <2> QED BY <2>1, <2>2, <2>3
<1>7. CASE UpsertName(w) \/ NamesUpserted(w) \/ SetNames(w)
  <2>1. pc[w] \in NameLabels /\ pc'[w] \in NameLabels
    BY <1>1, <1>7 DEF UpsertName, NamesUpserted, SetNames, Goto, After, NameLabels
  <2> QED BY <1>5, <2>1, StagesOfLabels DEF NameLabels, StoredLabels
<1> QED BY <1>4, <1>6, <1>7 DEF Proceed

\* get_latest_payload for each policy.  Of time series it is the payload of the
\* newest snapshot, whichever of equally new ones is chosen.
Top(u) ==
  /\ u \in Writes /\ Stored(u)
  /\ AbstractSince = u /\ LatestPayload = {content[u]}
  /\ \A s \in Snapshots : Row(s).fetched <= u
  /\ \E s \in Snapshots : Row(s).fetched = u

LatestByPolicy ==
  /\ kind \in Timed /\ Snapshots = {} => LatestPayload = {} /\ AbstractSince = 0
  /\ kind \in Timed /\ Snapshots # {} => \E u : Top(u)
  /\ kind \notin Timed => Snapshots = {} /\ AbstractSince = 0
  /\ kind \in Referred =>
       LatestPayload = IF Reference \in DOMAIN db THEN {db[Reference].body} ELSE {}
  /\ kind = "event" => LatestPayload = IF Event \in DOMAIN db THEN {db[Event].body} ELSE {}

LEMMA IInvLatest == IInv => LatestByPolicy
<1> SUFFICES ASSUME IInv PROVE LatestByPolicy
  OBVIOUS
<1>1. Snapshots # {} => kind \in Timed
  BY DEF IInv, Kept, Snapshots
<1>2. /\ Reference \in DOMAIN db => kind \in Referred
      /\ Event \in DOMAIN db => kind = "event"
  BY DEF IInv, Kept
<1>3. ASSUME Snapshots # {} PROVE \E u : Top(u)
  <2>1. Newest \in Snapshots
    BY <1>3, NewestExists
  <2> DEFINE s == Newest
  <2>2. s[1] \in Minutes /\ s[2] \in Contents /\ Snapshot(s[1], s[2]) \in DOMAIN db
    BY <2>1 DEF Snapshots
  <2>3. /\ \A r \in Snapshots : Row(r).fetched \in Writes
        /\ \E top \in Snapshots : \A r \in Snapshots : Row(r).fetched <= Row(top).fetched
    <3>1. \A r \in Snapshots : Row(r).fetched \in Writes
      BY DEF IInv, Kept, Snapshots, Row
    <3> DEFINE T == {Row(r).fetched : r \in Snapshots}
    <3>2. T \in SUBSET (1..NumWrites) /\ T # {}
      BY <1>3, <3>1 DEF Writes
    <3>3. PICK t \in T : \A r \in T : r <= t
      <4> HIDE DEF T
      <4> QED BY <3>2, GreatestIndex, ArchiveAssumption
    <3>4. PICK top \in Snapshots : t = Row(top).fetched
      OBVIOUS
    <3> QED BY <3>1, <3>3, <3>4
  <2>4. \A r \in Snapshots : Row(r).fetched <= Row(s).fetched
    BY <2>3 DEF Newest
  <2> HIDE DEF s
  <2>5. PICK u \in Writes : Row(s).fetched = u /\ Stored(u) /\ content[u] = s[2]
    BY <2>2 DEF IInv, Kept, Row
  <2>6. Blob(s[2]) \in DOMAIN db
    BY <2>2 DEF IInv, Kept
  <2>7. LatestPayload = {s[2]} /\ AbstractSince = Row(s).fetched
    BY <1>3, <2>6 DEF LatestPayload, AbstractSince, s
  <2> QED BY <2>1, <2>4, <2>5, <2>7 DEF Top, s
<1>4. Snapshots = {} =>
        /\ AbstractSince = 0
        /\ LatestPayload = IF Reference \in DOMAIN db THEN {db[Reference].body}
                           ELSE IF Event \in DOMAIN db THEN {db[Event].body} ELSE {}
  BY DEF AbstractSince, LatestPayload
<1>5. Timed \cap Referred = {} /\ "event" \notin Timed \cup Referred
  BY DEF Timed, Referred
<1> QED BY <1>1, <1>2, <1>3, <1>4, <1>5 DEF LatestByPolicy

LEMMA IInvLatestNext == IInv' => LatestByPolicy'
BY IInvLatest, PTL

\* The second commit of a call moves no payload.
LEMMA NamesStutter ==
  ASSUME IInv, IInv', NEW w \in Writes, Pending(w), Commit(w), pc[w] = "commit_names"
  PROVE  UNCHANGED Abstract!vars
<1>1. /\ UNCHANGED <<kind, content>> /\ pc'[w] = "ok"
      /\ \A u \in Writes \ {w} : tx'[u] = tx[u] /\ pc'[u] = pc[u]
      /\ DOMAIN db' = DOMAIN db \cup DOMAIN tx[w]
      /\ \A k \in DOMAIN db \ DOMAIN tx[w] : db'[k] = db[k]
  BY CommitStep
<1>2. kind = "names"
  BY DEF IInv, Typing, OfKind, NameLabels
<1>3. Reference \notin DOMAIN tx[w]
  BY Keys DEF Pending, NameLabels
<1>4. LatestByPolicy /\ LatestByPolicy'
  BY IInvLatest, IInvLatestNext
<1>5. LatestPayload' = LatestPayload /\ AbstractSince' = AbstractSince
  BY <1>1, <1>2, <1>3, <1>4 DEF LatestByPolicy, Timed, Referred
<1>6. AbstractStage(w)' = AbstractStage(w)
  BY <1>1, StagesOfLabels DEF StoredLabels
<1> QED BY <1>1, <1>5, <1>6, AloneInStage, SameStage DEF Alone

\* The commit of a reference or an event.
LEMMA ReferenceStored ==
  ASSUME IInv, IInv', NEW w \in Writes, Pending(w), Commit(w), pc[w] = "commit",
         kind \in Referred, Abstract!Advance(w, "stored")
  PROVE  Abstract!StoreLast(w)
<1>1. /\ UNCHANGED <<kind, content>> /\ DOMAIN db' = DOMAIN db \cup DOMAIN tx[w]
      /\ \A k \in DOMAIN tx[w] : db'[k] = tx[w][k]
  BY CommitStep
<1>2. Reference \in DOMAIN tx[w]
  BY DEF Pending, Committing
<1>3. tx[w][Reference].body = content[w]
  BY <1>2, Keys DEF IInv, Wrote, RowOf
<1>4. LatestByPolicy /\ LatestByPolicy'
  BY IInvLatest, IInvLatestNext
<1>5. LatestPayload' = {content[w]}
  BY <1>1, <1>2, <1>3, <1>4 DEF LatestByPolicy
<1>6. AbstractSince' = AbstractSince
  BY <1>1, <1>4 DEF LatestByPolicy, Timed, Referred
<1>7. AbstractPolicy = "last"
  BY DEF AbstractPolicy, Referred
<1> QED BY <1>5, <1>6, <1>7 DEF Abstract!StoreLast

LEMMA EventStored ==
  ASSUME IInv, IInv', NEW w \in Writes, Commit(w), pc[w] = "commit",
         kind = "event", Abstract!Advance(w, "stored")
  PROVE  Abstract!StoreFirst(w)
<1>1. /\ UNCHANGED <<kind, content>> /\ DOMAIN db' = DOMAIN db \cup DOMAIN tx[w]
      /\ \A k \in DOMAIN tx[w] : db'[k] = tx[w][k]
      /\ \A k \in DOMAIN db : Keeps(k, db[k], db'[k])
  BY CommitStep
<1>2. Event \in DOMAIN db \cup DOMAIN tx[w]
  <2>1. Exists(w, Event)
    BY DEF IInv, Reached, Committing
  <2> QED BY <2>1, SeenRows
<1>3. ASSUME Event \in DOMAIN tx[w] PROVE tx[w][Event].body = content[w]
  <2>1. RowOf(w, Event, tx[w][Event]) /\ Event[1] = "event"
    BY <1>3, Keys DEF IInv, Wrote
  <2> QED BY <2>1 DEF RowOf
<1>4. LatestByPolicy /\ LatestByPolicy'
  BY IInvLatest, IInvLatestNext
<1>5. ASSUME Event \in DOMAIN db PROVE db'[Event].body = db[Event].body
  <2>1. Event # Reference
    BY DEF Event, Reference
  <2>2. Keeps(Event, db[Event], db'[Event])
    BY <1>1, <1>5
  <2>3. "body" \in DOMAIN db[Event]
    BY <1>5 DEF IInv, Kept
  <2> QED BY <2>1, <2>2, <2>3 DEF Keeps, Mutable
<1>6. LatestPayload' = IF LatestPayload = {} THEN {content[w]} ELSE LatestPayload
  BY <1>1, <1>2, <1>3, <1>4, <1>5 DEF LatestByPolicy
<1>7. AbstractSince' = AbstractSince
  BY <1>1, <1>4 DEF LatestByPolicy, Timed
<1>8. AbstractPolicy = "first"
  BY DEF AbstractPolicy
<1> QED BY <1>6, <1>7, <1>8 DEF Abstract!StoreFirst

\* The commit of a time series: its snapshot is the newest one or not, or it
\* found one of the same payload there.
LEMMA SeriesStored ==
  ASSUME IInv, IInv', NEW w \in Writes, Commit(w), pc[w] = "commit",
         kind \in Timed, Abstract!Advance(w, "stored")
  PROVE  Abstract!StoreNewer(w) \/ Abstract!StoreOlder(w)
<1>0. PICK mine : mine = <<minute[w], content[w]>>
  OBVIOUS
<1>1. /\ UNCHANGED <<kind, content, minute>>
      /\ DOMAIN db' = DOMAIN db \cup DOMAIN tx[w]
      /\ \A k : k \in DOMAIN db' <=> Exists(w, k)
      /\ \A k \in DOMAIN tx[w] : db'[k] = tx[w][k]
      /\ \A k \in DOMAIN db \ DOMAIN tx[w] : db'[k] = db[k]
      /\ \A k \in DOMAIN db : Keeps(k, db[k], db'[k])
  BY CommitStep
<1>2. /\ w \in Nat \ {0} /\ ~ Stored(w) /\ minute[w] \in Minutes /\ content[w] \in Contents
      /\ Writes \subseteq Nat \ {0}
  <2>1. Writes \subseteq Nat \ {0}
    BY ArchiveAssumption DEF Writes
  <2> QED BY <2>1 DEF IInv, Typing, Stored
<1>3. AbstractPolicy = "newest"
  BY DEF AbstractPolicy, Timed
<1>4. ASSUME NEW s \in Snapshots', s # mine PROVE s \in Snapshots
  <2>1. s \in Minutes \X Contents /\ Snapshot(s[1], s[2]) \in DOMAIN db'
    BY DEF Snapshots, Minutes
  <2>2. Snapshot(s[1], s[2]) \notin DOMAIN tx[w]
    <3>1. SUFFICES ASSUME Snapshot(s[1], s[2]) \in DOMAIN tx[w] PROVE FALSE
      OBVIOUS
    <3> DEFINE k == Snapshot(s[1], s[2])
    <3>a. RowOf(w, k, tx[w][k]) /\ k[1] = "snapshot"
      BY <3>1, Keys DEF IInv, Wrote
    <3>2. Snapshot(s[1], s[2]) = Snapshot(minute[w], content[w])
      BY <3>a DEF RowOf, MySnapshot
    <3>3. s[1] = minute[w] /\ s[2] = content[w]
      BY <3>2, Keys
    <3> QED BY <1>0, <1>4, <2>1, <3>3
  <2> QED BY <1>1, <2>1, <2>2 DEF Snapshots
<1>5. ASSUME NEW s \in Snapshots
      PROVE  s \in Snapshots' /\ Row(s)'.fetched = Row(s).fetched
  <2> DEFINE k == Snapshot(s[1], s[2])
  <2>1. s \in Minutes \X Contents /\ k \in DOMAIN db
    BY DEF Snapshots
  <2>2. "fetched" \in DOMAIN db[k]
    BY <2>1 DEF IInv, Kept
  <2>3. k # Reference
    BY Keys
  <2>4. db'[k].fetched = db[k].fetched
    BY <1>1, <2>1, <2>2, <2>3 DEF Keeps, Mutable
  <2>5. k \in DOMAIN db'
    BY <1>1, <2>1
  <2> QED BY <2>1, <2>4, <2>5 DEF Snapshots, Row, Minutes
<1>6. mine \in Snapshots'
  <2>1. Exists(w, MySnapshot(w))
    BY DEF IInv, Reached, Committing, Timed
  <2> QED BY <1>0, <1>1, <1>2, <2>1 DEF Snapshots, MySnapshot, Minutes
<1>7. ASSUME mine \notin Snapshots PROVE Row(mine)'.fetched = w
  <2> DEFINE k == MySnapshot(w)
  <2>1. k \notin DOMAIN db /\ k \in DOMAIN db'
    BY <1>0, <1>2, <1>6, <1>7 DEF Snapshots, MySnapshot, Minutes
  <2>2. k \in DOMAIN tx[w] /\ k[1] = "snapshot"
    BY <1>1, <2>1, Keys DEF MySnapshot
  <2>3. RowOf(w, k, tx[w][k])
    BY <2>2 DEF IInv, Wrote
  <2>4. tx[w][k].fetched = w
    BY <2>1, <2>2, <2>3 DEF RowOf
  <2> QED BY <1>0, <1>1, <2>2, <2>4 DEF Row, MySnapshot
<1>8. PICK new : Top(new)'
  BY <1>1, <1>6, IInvLatestNext DEF LatestByPolicy, Timed
<1>9. /\ new \in Nat /\ LatestPayload' = {content[new]} /\ AbstractSince' = new
      /\ \A s \in Snapshots' : Row(s)'.fetched <= new
      /\ \E s \in Snapshots' : Row(s)'.fetched = new
  BY <1>1, <1>2, <1>8 DEF Top, Writes
<1>10. CASE Snapshots = {}
  <2>1. AbstractSince = 0
    BY <1>10, IInvLatest DEF LatestByPolicy
  <2>2. new = w
    BY <1>4, <1>7, <1>9, <1>10
  <2> QED BY <1>2, <1>3, <1>9, <2>1, <2>2 DEF Abstract!StoreNewer
<1>11. CASE Snapshots # {}
  <2>1. PICK old : Top(old)
    BY <1>11, IInvLatest DEF LatestByPolicy
  <2>2. /\ old \in Nat \ {0} /\ old # w
        /\ LatestPayload = {content[old]} /\ AbstractSince = old
        /\ \A s \in Snapshots : Row(s).fetched <= old
        /\ \E s \in Snapshots : Row(s).fetched = old
    BY <1>2, <2>1 DEF Top, Writes
  <2>3. old <= new
    BY <1>5, <1>9, <2>2
  <2>4. CASE mine \in Snapshots
    <3>1. new <= old
      BY <1>4, <1>5, <1>9, <2>2, <2>4
    <3>2. new = old
      BY <1>9, <2>2, <2>3, <3>1
    <3>3. PICK u \in Writes : Stored(u) /\ content[u] = content[w]
      <4>1. Snapshot(minute[w], content[w]) \in DOMAIN db
        BY <1>0, <2>4 DEF Snapshots
      <4> QED BY <1>2, <4>1 DEF IInv, Kept
    <3>4. AbstractStage(u) = "stored"
      BY <3>3 DEF AbstractStage
    <3>5. UNCHANGED <<LatestPayload, AbstractSince>>
      BY <1>9, <2>2, <3>2
    <3>6. \E v \in Abstract!Writes :
            [x \in Writes |-> AbstractStage(x)][v] = "stored" /\ content[v] = content[w]
      BY <3>3, <3>4 DEF Writes, Abstract!Writes
    <3> QED BY <1>3, <2>2, <3>5, <3>6 DEF Abstract!StoreOlder
  <2>5. CASE mine \notin Snapshots /\ old < w
    <3>1. w <= new /\ (new <= old \/ new = w)
      BY <1>4, <1>5, <1>6, <1>7, <1>9, <2>2, <2>5
    <3>2. new = w
      BY <1>2, <1>9, <2>2, <2>5, <3>1
    <3> QED BY <1>2, <1>3, <1>9, <2>2, <2>5, <3>2 DEF Abstract!StoreNewer
  <2>6. CASE mine \notin Snapshots /\ w < old
    <3>1. new <= old \/ new = w
      BY <1>4, <1>5, <1>7, <1>9, <2>2, <2>6
    <3>2. new = old
      BY <1>2, <1>9, <2>2, <2>3, <2>6, <3>1
    <3>3. UNCHANGED <<LatestPayload, AbstractSince>>
      BY <1>9, <2>2, <3>2
    <3> QED BY <1>2, <1>3, <2>2, <2>6, <3>3 DEF Abstract!StoreOlder
  <2> QED BY <1>2, <2>2, <2>4, <2>5, <2>6
<1> QED BY <1>10, <1>11

LEMMA CommitImplements ==
  ASSUME IInv, IInv', NEW w \in Writes, Pending(w), Commit(w)
  PROVE  [Abstract!Next]_(Abstract!vars)
<1>1. /\ UNCHANGED <<kind, content>> /\ pc[w] \in {"commit", "commit_names"}
      /\ pc'[w] \in {"ok", "names"}
      /\ \A u \in Writes \ {w} : tx'[u] = tx[u] /\ pc'[u] = pc[u]
  BY CommitStep
<1>2. CASE pc[w] = "commit_names"
  BY <1>2, NamesStutter
<1>3. CASE pc[w] = "commit"
  <2>1. AbstractStage(w) = "open" /\ AbstractStage(w)' = "stored"
    BY <1>1, <1>3, StagesOfLabels DEF StoredLabels
  <2>2. Abstract!Advance(w, "stored")
    BY <1>1, <2>1, AloneInStage, StageAdvances DEF Alone
  <2>3. kind \in Timed \cup Referred \cup {"event"}
    BY ArchiveAssumption DEF IInv, Typing, Timed, Referred
  <2>4. \/ Abstract!StoreNewer(w) \/ Abstract!StoreOlder(w)
        \/ Abstract!StoreLast(w) \/ Abstract!StoreFirst(w)
    BY <1>3, <2>2, <2>3, SeriesStored, ReferenceStored, EventStored
  <2> QED BY <2>4 DEF Abstract!Next, Abstract!Writes, Writes
<1> QED BY <1>1, <1>2, <1>3

LEMMA InitImplements == Init => Abstract!Init
<1> SUFFICES ASSUME Init PROVE Abstract!Init
  OBVIOUS
<1>1. IInv
  BY InitIInv
<1>2. DOMAIN db = {}
  BY EmptyRows DEF Init
<1>3. Snapshots = {} /\ LatestPayload = {} /\ AbstractSince = 0
  BY <1>2 DEF Snapshots, LatestPayload, AbstractSince
<1>4. AbstractPolicy \in {"newest", "last", "first"}
  BY ArchiveAssumption DEF Init, AbstractPolicy
<1>5. \A w \in Writes : AbstractStage(w) = "open"
  BY DEF Init, AbstractStage, Stored
<1> QED BY <1>3, <1>4, <1>5 DEF Abstract!Init, Abstract!Writes, Writes, Init

LEMMA StepImplements ==
  IInv /\ IInv' /\ AllPending /\ [Next]_vars => [Abstract!Next]_(Abstract!vars)
<1> SUFFICES ASSUME IInv, IInv', AllPending, [Next]_vars
             PROVE  [Abstract!Next]_(Abstract!vars)
  OBVIOUS
<1>1. CASE UNCHANGED <<kind, db, pc, content>>
  <2>1. \A u \in Writes : AbstractStage(u)' = AbstractStage(u)
    BY <1>1, StagesOfLabels
  <2>2. LatestPayload' = LatestPayload /\ AbstractSince' = AbstractSince
    BY <1>1, LatestIsCommitted
  <2> QED BY <1>1, <2>1, <2>2, SameStage
<1>2. ASSUME NEW w \in Writes, Begin(w) \/ Proceed(w) \/ Fail(w)
      PROVE  [Abstract!Next]_(Abstract!vars)
  <2>1. CASE Commit(w)
    BY <2>1, CommitImplements DEF AllPending
  <2>2. CASE ~ Commit(w)
    <3>1. UNCHANGED db
      BY <1>2, <2>2 DEF Begin, Proceed, Fail, WriteBlob, WriteTimeseries, WriteParquetFile,
           InsertManifest, UpsertVersion, RejectRepeated, WriteEntries, Relabel, UpsertReference,
           WriteEvent, UpsertName, NamesUpserted, SetNames, AbortDeadlocked
    <3>2. Abstract!Fail(w) \/ UNCHANGED Abstract!vars
      BY <1>2, <2>2, <3>1, StutterOrFail
    <3> QED BY <3>2 DEF Abstract!Next, Abstract!Writes, Writes
  <2> QED BY <2>1, <2>2
<1> QED BY <1>1, <1>2 DEF Next, PassMinute, argVars, vars

\* A write is stored as a whole or not at all, and the payload to fall back to
\* moves only when one is, as the endpoint's policy has it.
THEOREM Implementation == Spec => ImplementsAtomicArchive
BY Invariance, PendingHolds, InitImplements, StepImplements, PTL
   DEF Spec, Abstract!Spec, ImplementsAtomicArchive
=============================================================================
