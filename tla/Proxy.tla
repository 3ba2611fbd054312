------------------------------- MODULE Proxy --------------------------------
(***************************************************************************)
(* app/proxy.py and app/cache.py, for one cache key: concurrent requests   *)
(* walk _dispatch between the Redis hot cache, the coalesced ESI fetch and *)
(* the PostgreSQL archive, beside the collector, which writes the same     *)
(* Redis keys without coalescing (app/collector.py).                       *)
(*                                                                         *)
(* Every await of _dispatch that reads or writes shared state is a step.   *)
(* Coalescing is SingleFlight, which Coalesce is proved to implement.      *)
(* Bodies and ETags are the versions ESI publishes: an ETag is the version *)
(* it validates.  A Redis TTL is the order in which keys set together may  *)
(* expire, and the one distinction the code can trip over: zero or not.    *)
(***************************************************************************)
EXTENDS FiniteSets

CONSTANTS
  Requests,   \* handlers of concurrent requests for the key
  Versions,   \* the contents ESI may publish
  Collectors, \* collector jobs that fetch the same endpoint
  ArchiveTypes, \* the ArchiveTypes the endpoint may have
  Faults,     \* the faults allowed: a failing archive write, a crash
  None

ASSUME VersionsAssumption ==
  /\ None \notin Versions
  /\ ArchiveTypes \subseteq {"time_series", "reference", "event", "none"}
  /\ Faults \subseteq {"archive", "crash"}

\* ESIResponse, by what _dispatch and the collector tell apart.
Ok(v, e) == [kind |-> "ok", body |-> v, etag |-> e]
NotModified(e, age) == [kind |-> "not_modified", etag |-> e, age |-> age]
Degraded == [kind |-> "degraded"]   \* 420, 5xx, the breaker's 503, a failed fan-out
Rejected == [kind |-> "rejected"]   \* 4xx with a negative TTL above zero
Passed == [kind |-> "passed"]       \* 3xx, 429, 4xx that may not be stored

Ages == {"zero", "positive"}        \* max_age; "positive" also when ESI gives none
Responses ==
  {Ok(v, e) : v \in Versions, e \in Versions \cup {None}}
    \cup {NotModified(e, a) : e \in Versions, a \in Ages} \cup {Degraded, Rejected, Passed}

\* What a handler ends with: a body, somebody's error passed on, the error of
\* degraded mode, a 304, or an exception.
Answers == {"200", "relayed", "ERROR", "304", "raised"}

ASSUME NoneAssumption == None \notin Responses /\ None \notin Answers

VARIABLES
  redis,     \* the keys esi:body, esi:stale, esi:etag (with esi:ttl), esi:neg
  up,        \* the version ESI publishes now
  archiveType,  \* spec.archive_type of the endpoint
  archived,  \* the versions with a row in the archive
  pc,        \* where each request stands
  etag,      \* its local stored_etag
  reply,     \* what ESI answered the fetch it leads, still on the wire
  copy,      \* its local stale_body
  answer,    \* what it was answered
  key, stage, outcome,  \* coalescing: see SingleFlight
  job,       \* what each collector holds
  assured    \* auxiliary: was the endpoint archived when the request began

vars == <<redis, up, archiveType, archived, pc, etag, reply, copy, answer,
          key, stage, outcome, job, assured>>
flightVars == <<key, stage, outcome>>
requestVars == <<archiveType, pc, etag, reply, copy, answer, key, stage, outcome, assured>>

\* coalesce() under cache_key, and under f"{cache_key}:refetch".
CoalesceKeys == {"fetch", "refetch"}

Flight == INSTANCE SingleFlight WITH
  Calls <- Requests, Keys <- CoalesceKeys, Outcomes <- Responses, NoOutcome <- None

Empty == [body |-> None, stale |-> None, etag |-> None, neg |-> FALSE]

Init ==
  /\ redis = Empty
  /\ up \in Versions
  /\ archiveType \in ArchiveTypes
  /\ archived = {}
  /\ pc = [r \in Requests |-> "idle"]
  /\ etag = [r \in Requests |-> None]
  /\ reply = [r \in Requests |-> None]
  /\ copy = [r \in Requests |-> None]
  /\ answer = [r \in Requests |-> None]
  /\ Flight!Init
  /\ key = [r \in Requests |-> "fetch"]
  /\ job = [c \in Collectors |-> [at |-> "idle"]]
  /\ assured = [r \in Requests |-> FALSE]

-----------------------------------------------------------------------------
(* app/cache.py *)

\* A body above stale_cache_max_body_bytes gets no stale copy; the size of a
\* body is left open.
StaleCopies(v) == {v, None}

\* CacheClient.set, one MULTI: a fresh success drops the negative entry.
CacheSet(v, e) ==
  \E s \in StaleCopies(v) :
    redis' = [body |-> v, stale |-> s, etag |-> e, neg |-> FALSE]

\* The same with ttl = 0: Redis refuses SET esi:body with EX 0, applies the
\* other commands of the MULTI, and redis-py raises.
CacheSetZero(v, e) ==
  \E s \in StaleCopies(v) :
    redis' = [body |-> redis.body, stale |-> s, etag |-> e, neg |-> FALSE]

\* TTLs run out.  The stale copy and the ETag are set with the body and live
\* longer, so they expire after it.  (After CacheSetZero beside a body that was
\* set meanwhile they might go first; that they do not is a simplification.)
ExpireBody == redis.body # None /\ redis' = [redis EXCEPT !.body = None]
ExpireStale ==
  redis.body = None /\ redis.stale # None /\ redis' = [redis EXCEPT !.stale = None]
ExpireEtag ==
  redis.body = None /\ redis.etag # None /\ redis' = [redis EXCEPT !.etag = None]
ExpireNegative == redis.neg /\ redis' = [redis EXCEPT !.neg = FALSE]

Expire ==
  /\ ExpireBody \/ ExpireStale \/ ExpireEtag \/ ExpireNegative
  /\ UNCHANGED <<up, archived, requestVars, job>>

\* ESI publishes something else, possibly what it published before.
Publish ==
  /\ up' \in Versions \ {up}
  /\ UNCHANGED <<redis, archived, requestVars, job>>

-----------------------------------------------------------------------------
(* app/proxy.py: _dispatch *)

\* The handler goes on to its next await.
Goto(r, label) == pc' = [pc EXCEPT ![r] = label]
Advance(r, label) == Goto(r, label) /\ UNCHANGED <<etag, reply, copy, answer, flightVars>>

\* A handler's locals go with it.  (SingleFlight's calls are made once: a
\* handler that is used again makes a new call under an old name.)
ForgetLocals(S) ==
  /\ etag' = [q \in Requests |-> IF q \in S THEN None ELSE etag[q]]
  /\ reply' = [q \in Requests |-> IF q \in S THEN None ELSE reply[q]]
  /\ copy' = [q \in Requests |-> IF q \in S THEN None ELSE copy[q]]
  /\ key' = [q \in Requests |-> IF q \in S THEN "fetch" ELSE key[q]]
  /\ stage' = [q \in Requests |-> IF q \in S THEN "new" ELSE stage[q]]
  /\ outcome' = [q \in Requests |-> IF q \in S THEN None ELSE outcome[q]]

\* Return a ProxyResult, or let an exception through: "raised".
Answer(r, status) ==
  /\ Goto(r, "done")
  /\ answer' = [answer EXCEPT ![r] = status]
  /\ ForgetLocals({r})

\* Step 3: the hot cache.
ReadHot(r) ==
  /\ pc[r] = "idle"
  /\ \/ redis.body # None /\ Answer(r, "200")
     \/ redis.body = None /\ Advance(r, "negative")
  /\ assured' = [assured EXCEPT ![r] = archived # {}]
  /\ UNCHANGED <<redis, up, archiveType, archived, job>>

\* Step 3b: the negative cache.
ReadNegative(r) ==
  /\ pc[r] = "negative"
  /\ \/ redis.neg /\ Answer(r, "relayed")
     \/ ~redis.neg /\ Advance(r, "etag")
  /\ UNCHANGED <<redis, up, archived, job>>

\* Step 4: the ETag for If-None-Match.
ReadEtag(r) ==
  /\ pc[r] = "etag"
  /\ etag' = [etag EXCEPT ![r] = redis.etag]
  /\ Goto(r, "coalesce")
  /\ UNCHANGED <<redis, up, archived, reply, copy, answer, flightVars, job>>

\* A slip: Two requests that both find no fetch in flight both start one.
Lead_Uncoalesced(r) ==
  /\ pc[r] = "coalesce"
  /\ stage' = [stage EXCEPT ![r] = "running"]
  /\ Goto(r, "fetching")
  /\ UNCHANGED <<redis, up, archived, etag, reply, copy, answer, key, outcome, job>>

\* Step 5: run the fetch, or share the one in flight; a waiter's own ETag is
\* never used.
Lead(r) ==
  /\ pc[r] = "coalesce"
  /\ Flight!Start(r)
  /\ Goto(r, "fetching")
  /\ UNCHANGED <<redis, up, archived, etag, reply, copy, answer, job>>

Join(r) ==
  /\ pc[r] = "coalesce"
  /\ Flight!Join(r)
  /\ Goto(r, "waiting")
  /\ etag' = [etag EXCEPT ![r] = None]
  /\ UNCHANGED <<redis, up, archived, reply, copy, answer, job>>

\* What ESI, or ESIClient in its place, may answer a fetch with If-None-Match
\* e now.  A merged multi-page body has no ETag.
FetchResponses(e) ==
  (IF e = up THEN {NotModified(e, a) : a \in Ages} ELSE {Ok(up, up), Ok(up, None)})
    \cup {Degraded, Rejected, Passed}

\* ESI evaluates the leader's request; the answer travels.  A 304 carries
\* the ETag it was asked with, which is not needed again.
Evaluate(r) ==
  /\ pc[r] = "fetching" /\ reply[r] = None
  /\ \E resp \in FetchResponses(etag[r]) : reply' = [reply EXCEPT ![r] = resp]
  /\ etag' = [etag EXCEPT ![r] = None]
  /\ UNCHANGED <<redis, up, archived, pc, copy, answer, flightVars, job>>

\* The fetch returns: coalesce() settles it for the leader and the waiters.
Deliver(r) ==
  /\ pc[r] = "fetching" /\ reply[r] # None
  /\ Flight!Finish(r, reply[r])
  /\ reply' = [reply EXCEPT ![r] = None]
  /\ Goto(r, "leader")
  /\ UNCHANGED <<redis, up, archived, etag, copy, answer, job>>

\* A slip: Only a success wakes the waiters.
Resume_SuccessOnly(r) ==
  /\ Flight!Take(r) /\ outcome[r].kind = "ok"
  /\ Goto(r, "waiter")
  /\ UNCHANGED <<redis, up, archived, etag, reply, copy, answer, job>>

Resume(r) ==
  /\ Flight!Take(r)
  /\ Goto(r, "waiter")
  /\ UNCHANGED <<redis, up, archived, etag, reply, copy, answer, job>>

\* esi_resp is here, led or shared.
Holds(r, kind) == pc[r] \in {"leader", "waiter"} /\ outcome[r].kind = kind

\* Step 7: 304.  With a stale copy the leader goes on to extend it and a
\* waiter is done.
RestoreStale(r) ==
  /\ Holds(r, "not_modified") /\ key[r] = "fetch"
  /\ redis.stale # None
  /\ \/ /\ pc[r] = "leader"
        /\ copy' = [copy EXCEPT ![r] = redis.stale]
        /\ Goto(r, "extend")
        /\ UNCHANGED <<etag, reply, answer, flightVars>>
     \/ pc[r] = "waiter" /\ Answer(r, "200")
  /\ UNCHANGED <<redis, up, archived, job>>

\* The leader writes the restored body back, with the ETag that was sent.
Extend(r) ==
  /\ pc[r] = "extend"
  /\ \/ /\ outcome[r].age = "positive"
        /\ CacheSet(copy[r], outcome[r].etag)
        /\ Answer(r, "200")
     \/ /\ outcome[r].age = "zero"
        /\ CacheSetZero(copy[r], outcome[r].etag)
        /\ Answer(r, "raised")
  /\ UNCHANGED <<up, archived, job>>

\* A slip: The refetch sends the ETag again.
Refetch_Conditional(r) ==
  /\ Holds(r, "not_modified") /\ key[r] = "fetch"
  /\ redis.stale = None
  /\ key' = [key EXCEPT ![r] = "refetch"]
  /\ stage' = [stage EXCEPT ![r] = "new"]
  /\ outcome' = [outcome EXCEPT ![r] = None]
  /\ etag' = [etag EXCEPT ![r] = outcome[r].etag]
  /\ Goto(r, "coalesce")
  /\ UNCHANGED <<redis, up, archived, reply, copy, answer, job>>

\* Without one: fetch again under the derived key, without the ETag.
Refetch(r) ==
  /\ Holds(r, "not_modified") /\ key[r] = "fetch"
  /\ redis.stale = None
  /\ key' = [key EXCEPT ![r] = "refetch"]
  /\ stage' = [stage EXCEPT ![r] = "new"]
  /\ outcome' = [outcome EXCEPT ![r] = None]
  /\ Goto(r, "coalesce")
  /\ UNCHANGED <<redis, up, archived, etag, reply, copy, answer, job>>

\* A slip: The leader answers once Redis has the body.
StoreFresh_AnswersFirst(r) ==
  /\ Holds(r, "ok") /\ pc[r] = "leader"
  /\ CacheSet(outcome[r].body, outcome[r].etag)
  /\ Answer(r, "200")
  /\ UNCHANGED <<up, archived, job>>

\* Step 8: 200.  Only the leader writes.
StoreFresh(r) ==
  /\ Holds(r, "ok") /\ pc[r] = "leader"
  /\ CacheSet(outcome[r].body, outcome[r].etag)
  /\ Advance(r, "archive")
  /\ UNCHANGED <<up, archived, job>>

ShareFresh(r) ==
  /\ Holds(r, "ok") /\ pc[r] = "waiter"
  /\ Answer(r, "200")
  /\ UNCHANGED <<redis, up, archived, job>>

\* write_snapshot as the one step AtomicArchive makes of it: a time series keeps
\* every version, a reference has one row, which the last writer sets, an event
\* one which nobody replaces, and the rest is not archived.  Or the write fails,
\* is rolled back and logged, and the caller never knows.
WriteArchive(v) ==
  \/ archiveType = "time_series" /\ archived' = archived \cup {v}
  \/ archiveType = "reference" /\ archived' = {v}
  \/ archiveType = "event" /\ archived' = IF archived = {} THEN {v} ELSE archived
  \/ archiveType = "none" /\ UNCHANGED archived
  \/ "archive" \in Faults /\ UNCHANGED archived

ArchiveResponse(r) ==
  /\ pc[r] = "archive"
  /\ WriteArchive(outcome[r].body)
  /\ Answer(r, "200")
  /\ UNCHANGED <<redis, up, job>>

\* A slip: The stale copy is the only fallback.
FallBackToStale_Only(r) ==
  /\ Holds(r, "degraded")
  /\ \/ redis.stale # None /\ Answer(r, "200")
     \/ redis.stale = None /\ Answer(r, "ERROR")
  /\ UNCHANGED <<redis, up, archived, job>>

\* Step 9: degraded mode, the stale copy first and then the archive.
FallBackToStale(r) ==
  /\ Holds(r, "degraded")
  /\ \/ redis.stale # None /\ Answer(r, "200")
     \/ redis.stale = None /\ Advance(r, "fallback")
  /\ UNCHANGED <<redis, up, archived, job>>

FallBackToArchive(r) ==
  /\ pc[r] = "fallback"
  /\ \/ archived # {} /\ Answer(r, "200")
     \/ archived = {} /\ Answer(r, "ERROR")
  /\ UNCHANGED <<redis, up, archived, job>>

\* Step 10: every holder of a 4xx, led or shared, stores it and passes it on.
StoreNegative(r) ==
  /\ Holds(r, "rejected")
  /\ redis' = [redis EXCEPT !.neg = TRUE]
  /\ Answer(r, "relayed")
  /\ UNCHANGED <<up, archived, job>>

\* Steps 9b and 10: everything else goes through untouched; so would a 304
\* to the unconditional refetch.
PassThrough(r) ==
  /\ \/ Holds(r, "passed") /\ Answer(r, "relayed")
     \/ Holds(r, "not_modified") /\ key[r] = "refetch" /\ Answer(r, "304")
  /\ UNCHANGED <<redis, up, archived, job>>

\* A slip: The answer is left behind for the next request.
Sent_KeepsAnswer(r) ==
  /\ pc[r] = "done"
  /\ Goto(r, "idle")
  /\ assured' = [assured EXCEPT ![r] = FALSE]
  /\ UNCHANGED <<redis, up, archiveType, archived, etag, reply, copy, answer, flightVars, job>>

\* The answer is sent; the handler is free for another request.
Sent(r) ==
  /\ pc[r] = "done"
  /\ Goto(r, "idle")
  /\ answer' = [answer EXCEPT ![r] = None]
  /\ assured' = [assured EXCEPT ![r] = FALSE]
  /\ UNCHANGED <<redis, up, archiveType, archived, etag, reply, copy, flightVars, job>>

Dispatch(r) ==
  /\ \/ ReadNegative(r) \/ ReadEtag(r) \/ Lead(r) \/ Join(r)
     \/ Evaluate(r) \/ Deliver(r) \/ Resume(r)
     \/ RestoreStale(r) \/ Extend(r) \/ Refetch(r)
     \/ StoreFresh(r) \/ ShareFresh(r) \/ ArchiveResponse(r)
     \/ FallBackToStale(r) \/ FallBackToArchive(r)
     \/ StoreNegative(r) \/ PassThrough(r)
  /\ UNCHANGED <<archiveType, assured>>

-----------------------------------------------------------------------------
(* app/collector.py: _fetch_and_store, no ETag, no coalescing, 200 only *)

Collect(c) ==
  /\ job[c].at = "idle"
  /\ \E e \in {up, None} : job' = [job EXCEPT ![c] = [at |-> "store", body |-> up, etag |-> e]]
  /\ UNCHANGED <<redis, up, archived, requestVars>>

CollectorStore(c) ==
  /\ job[c].at = "store"
  /\ CacheSet(job[c].body, job[c].etag)
  /\ job' = [job EXCEPT ![c] = [at |-> "archive", body |-> job[c].body]]
  /\ UNCHANGED <<up, archived, requestVars>>

CollectorArchive(c) ==
  /\ job[c].at = "archive"
  /\ WriteArchive(job[c].body)
  /\ job' = [job EXCEPT ![c] = [at |-> "idle"]]
  /\ UNCHANGED <<redis, up, requestVars>>

\* The process dies and restarts: Redis and PostgreSQL stay.
Crash ==
  /\ "crash" \in Faults
  /\ pc' = [r \in Requests |-> "idle"]
  /\ answer' = [r \in Requests |-> None]
  /\ ForgetLocals(Requests)
  /\ assured' = [r \in Requests |-> FALSE]
  /\ job' = [c \in Collectors |-> [at |-> "idle"]]
  /\ UNCHANGED <<redis, up, archiveType, archived>>

Next ==
  \/ \E r \in Requests : ReadHot(r) \/ Dispatch(r) \/ Sent(r)
  \/ \E c \in Collectors : Collect(c) \/ CollectorStore(c) \/ CollectorArchive(c)
  \/ Expire \/ Publish \/ Crash

\* A handler that has started runs on: Redis, PostgreSQL and the event loop
\* answer, and a fetch ends by its timeouts.  So does a collector job.
\* Nothing makes ESI publish, a TTL run out or a client ask.
Fairness ==
  /\ \A r \in Requests : WF_vars(Dispatch(r))
  /\ \A c \in Collectors : WF_vars(CollectorStore(c) \/ CollectorArchive(c))

Spec == Init /\ [][Next]_vars /\ Fairness

-----------------------------------------------------------------------------
Labels == {"idle", "negative", "etag", "coalesce", "fetching", "waiting", "leader",
           "waiter", "extend", "archive", "fallback", "done"}

\* What a collector job may hold.
JobStates ==
  [at : {"idle"}]
    \cup [at : {"store"}, body : Versions, etag : Versions \cup {None}]
    \cup [at : {"archive"}, body : Versions]

\* Every variable holds a value of its kind, an endpoint that is a reference or
\* an event has one row at most, and a request has an answer exactly while it is
\* being sent.
TypeOK ==
  /\ redis \in [body : Versions \cup {None}, stale : Versions \cup {None},
                etag : Versions \cup {None}, neg : BOOLEAN]
  /\ up \in Versions /\ job \in [Collectors -> JobStates]
  /\ archiveType \in ArchiveTypes /\ archived \subseteq Versions
  /\ archiveType \in {"reference", "event"} => \A v, w \in archived : v = w
  /\ archiveType = "none" => archived = {}
  /\ assured \in [Requests -> BOOLEAN]
  /\ pc \in [Requests -> Labels]
  /\ Flight!TypeOK
  /\ \A r \in Requests :
       /\ etag[r] \in Versions \cup {None}
       /\ reply[r] \in Responses \cup {None}
       /\ copy[r] \in Versions \cup {None}
       /\ answer[r] \in Answers \cup {None}
       /\ answer[r] = None <=> pc[r] # "done"

\* A version some leader or collector holds and is about to archive.
OnItsWay(v) ==
  \/ \E r \in Requests :
       /\ pc[r] \in {"leader", "archive"}
       /\ outcome[r].kind = "ok" /\ outcome[r].body = v
  \/ \E c \in Collectors : job[c].at # "idle" /\ job[c].body = v

\* The versions Redis can serve or revalidate and those handlers hold in hand
\* to answer with.
Seen ==
  ({redis.body, redis.stale, redis.etag} \cup {copy[r] : r \in Requests}
     \cup {outcome[r].body : r \in {q \in Requests : outcome[q] # None /\ outcome[q].kind = "ok"}})
  \ {None}

\* What archiving a version comes to: the version is there, in a time series; a
\* reference or an event has its row, though that may be of a version that
\* replaced this one, or that came before it.
InArchive(v) ==
  IF archiveType = "time_series" THEN v \in archived ELSE archived # {}

\* While no archive write fails and the process does not die, whatever Redis
\* can serve, whatever its ETag can revalidate, and whatever a client is being
\* given of an endpoint that is archived is in the archive (in a time series
\* that very version; of a reference or an event the one row there is) or in the
\* hands of whoever will put it there: only so may a 304 extend without archiving
\* and a waiter answer without writing.
SeenIsArchived ==
  archiveType # "none" => \A v \in Seen : InArchive(v) \/ OnItsWay(v)

\* Once anything was archived for the endpoint, no caller whose request began
\* after that is told "upstream error", whatever expires, fails or dies while
\* it is served: the stale copy or the archive answers.
ArchivedNeverErrors ==
  \A r \in Requests : pc[r] = "done" /\ assured[r] => answer[r] # "ERROR"

\* The 304 that revalidates a body Redis has lost never reaches a caller:
\* the unconditional refetch does not share a conditional fetch's answer.
NoBare304 == \A r \in Requests : pc[r] = "done" => answer[r] # "304"

\* At any time one fetch for the key and one refetch are in flight at most.
OneFetchInFlight ==
  \A r, q \in Requests :
    pc[r] = "fetching" /\ pc[q] = "fetching" /\ key[r] = key[q] => r = q

\* The ETag revalidates the stale copy beside it: a 304 restores the body it
\* is about.
EtagValidatesStale ==
  redis.etag # None /\ redis.stale # None => redis.etag = redis.stale

\* A 304 is answered with the restored body.
RestoredBodyIsServed ==
  \A r \in Requests : pc[r] = "done" => answer[r] # "raised"

\* Every request is answered.
EveryRequestIsAnswered ==
  \A r \in Requests : pc[r] # "idle" ~> pc[r] \in {"done", "idle"}
=============================================================================
