----------------------------- MODULE ProxyProofs -----------------------------
(***************************************************************************)
(* What Proxy keeps for any requests, versions and collector jobs: its     *)
(* type correctness, that fetches are coalesced, that no caller sees a     *)
(* bare 304 nor an error for what is archived; and, while archive writes   *)
(* succeed and the process lives, that what Redis can serve is archived.   *)
(***************************************************************************)
EXTENDS Proxy, TLAPS

\* The rows there may be of the endpoint.
Rows ==
  /\ archiveType \in ArchiveTypes /\ archived \subseteq Versions
  /\ archiveType \in {"reference", "event"} => \A v, w \in archived : v = w
  /\ archiveType = "none" => archived = {}

Kinds ==
  /\ redis \in [body : Versions \cup {None}, stale : Versions \cup {None},
                etag : Versions \cup {None}, neg : BOOLEAN]
  /\ up \in Versions
  /\ Rows
  /\ pc \in [Requests -> Labels]
  /\ etag \in [Requests -> Versions \cup {None}]
  /\ reply \in [Requests -> Responses \cup {None}]
  /\ copy \in [Requests -> Versions \cup {None}]
  /\ answer \in [Requests -> Answers \cup {None}]
  /\ key \in [Requests -> CoalesceKeys]
  /\ stage \in [Requests -> Flight!Stages]
  /\ outcome \in [Requests -> Responses \cup {None}]
  /\ job \in [Collectors -> JobStates]
  /\ assured \in [Requests -> BOOLEAN]

\* Where a request stands in _dispatch, it stands in coalescing, and it has the
\* response it goes by.
Stands(r) ==
  /\ pc[r] \in {"idle", "negative", "etag", "coalesce", "done"} => stage[r] = "new"
  /\ pc[r] \in {"idle", "negative", "etag", "done"} => key[r] = "fetch"
  /\ pc[r] = "fetching" <=> stage[r] = "running"
  /\ pc[r] = "waiting" <=> stage[r] \in {"joined", "settled"}
  /\ stage[r] = "settled" => outcome[r] \in Responses
  /\ pc[r] \in {"leader", "waiter", "extend", "archive", "fallback"} =>
       outcome[r] \in Responses
  /\ reply[r] # None => pc[r] = "fetching" /\ etag[r] = None
  /\ pc[r] \in {"waiting", "leader", "waiter"} => etag[r] = None
  /\ pc[r] = "extend" => outcome[r].kind = "not_modified"
  /\ pc[r] = "archive" => outcome[r].kind = "ok"

\* The refetch sends no ETag, and so is never answered with a 304.
Unconditional(r) ==
  key[r] = "refetch" =>
    /\ etag[r] = None
    /\ reply[r] # None => reply[r].kind # "not_modified"
    /\ outcome[r] \in Responses => outcome[r].kind # "not_modified"

\* What a caller may be told.
Told(r) ==
  /\ answer[r] = None <=> pc[r] # "done"
  /\ answer[r] # "304"
  /\ assured[r] => archived # {} /\ answer[r] # "ERROR"

\* The inductive invariant.
IInv ==
  /\ Kinds
  /\ \A r \in Requests : Stands(r) /\ Unconditional(r) /\ Told(r)
  /\ OneFetchInFlight

LEMMA ResponseFields ==
  \A x \in Responses :
    /\ x.kind \in {"ok", "not_modified", "degraded", "rejected", "passed"}
    /\ x.kind = "ok" => x.body \in Versions /\ x.etag \in Versions \cup {None}
    /\ x.kind = "not_modified" => x.etag \in Versions /\ x.age \in Ages
BY DEF Responses, Ok, NotModified, Degraded, Rejected, Passed

\* A request without ETag is not answered with a 304.
LEMMA FetchFields ==
  ASSUME NEW e \in Versions \cup {None}, up \in Versions, NEW x \in FetchResponses(e)
  PROVE  /\ x \in Responses
         /\ e = None => x.kind # "not_modified"
         /\ x.kind = "not_modified" => x.etag = e
         /\ x.kind = "ok" => x.etag \in {x.body, None}
BY VersionsAssumption
DEF FetchResponses, Responses, Ok, NotModified, Degraded, Rejected, Passed

LEMMA RowsStay == Rows /\ UNCHANGED <<archiveType, archived>> => Rows'
BY DEF Rows

LEMMA RowsWritten ==
  ASSUME Rows, NEW v \in Versions, WriteArchive(v), UNCHANGED archiveType
  PROVE  Rows' /\ (archived # {} => archived' # {})
BY DEF Rows, WriteArchive

LEMMA InitIInv == Init => IInv
<1> SUFFICES ASSUME Init PROVE IInv
  OBVIOUS
<1>1. Kinds
  <2>1. redis \in [body : Versions \cup {None}, stale : Versions \cup {None},
                   etag : Versions \cup {None}, neg : BOOLEAN]
    BY DEF Init, Empty
  <2>2. job \in [Collectors -> JobStates]
    BY DEF Init, JobStates
  <2>3. key \in [Requests -> CoalesceKeys] /\ stage \in [Requests -> Flight!Stages]
        /\ outcome \in [Requests -> Responses \cup {None}]
    BY DEF Init, Flight!Init, Flight!Stages, CoalesceKeys
  <2> QED BY <2>1, <2>2, <2>3 DEF Init, Kinds, Rows, Labels
<1>2. ASSUME NEW r \in Requests
      PROVE  Stands(r) /\ Unconditional(r) /\ Told(r) /\ pc[r] # "fetching"
  BY NoneAssumption DEF Init, Flight!Init, Stands, Unconditional, Told, Answers
<1> QED BY <1>1, <1>2 DEF IInv, OneFetchInFlight

\* A step of one request, if it keeps its own part of the invariant, leaves the
\* other requests alone, does not empty the archive and starts no fetch.
LEMMA OneKeeps ==
  ASSUME IInv, NEW r \in Requests, Kinds',
         \A q \in Requests \ {r} :
           /\ pc'[q] = pc[q] /\ etag'[q] = etag[q] /\ reply'[q] = reply[q]
           /\ answer'[q] = answer[q] /\ key'[q] = key[q] /\ stage'[q] = stage[q]
           /\ outcome'[q] = outcome[q] /\ assured'[q] = assured[q],
         Stands(r)', Unconditional(r)', Told(r)',
         archived # {} => archived' # {},
         pc'[r] = "fetching" => pc[r] = "fetching" /\ key'[r] = key[r]
  PROVE  IInv'
<1>1. ASSUME NEW q \in Requests
      PROVE  (Stands(q) /\ Unconditional(q) /\ Told(q))'
  BY DEF IInv, Stands, Unconditional, Told
<1>2. OneFetchInFlight'
  BY DEF IInv, OneFetchInFlight
<1> QED BY <1>1, <1>2 DEF IInv

LEMMA ReadsKeep ==
  ASSUME IInv, NEW r \in Requests,
         \/ ReadHot(r)
         \/ UNCHANGED <<archiveType, assured>> /\ (ReadNegative(r) \/ ReadEtag(r))
  PROVE  IInv'
<1> USE NoneAssumption, RowsStay
    DEF IInv, Kinds, Stands, Unconditional, Told, OneFetchInFlight, Answer, Advance, Goto,
        ForgetLocals, flightVars, Flight!Stages, Labels, CoalesceKeys, Answers
<1>1. CASE ReadHot(r)
  BY <1>1 DEF ReadHot
<1>2. CASE UNCHANGED <<archiveType, assured>> /\ ReadNegative(r)
  <2>1. pc[r] = "negative" /\ UNCHANGED <<redis, up, archiveType, archived, job, assured>>
    BY <1>2 DEF ReadNegative
  <2>2. CASE Answer(r, "relayed")
    BY <2>1, <2>2
  <2>3. CASE Advance(r, "etag")
    BY <2>1, <2>3
  <2> QED BY <1>2, <2>2, <2>3 DEF ReadNegative
<1>3. CASE UNCHANGED <<archiveType, assured>> /\ ReadEtag(r)
  <2>1. /\ pc[r] = "etag" /\ pc' = [pc EXCEPT ![r] = "coalesce"]
        /\ etag' = [etag EXCEPT ![r] = redis.etag]
        /\ redis.etag \in Versions \cup {None}
        /\ UNCHANGED <<redis, up, archiveType, archived, reply, copy, answer, key, stage,
                      outcome, job, assured>>
    BY <1>3 DEF ReadEtag
  <2>2. Kinds'
    BY <2>1 DEF Kinds, Labels
  <2>3. Stands(r)'
    BY <2>1
  <2>4. Unconditional(r)' /\ Told(r)'
    BY <2>1
  <2> QED BY <2>1, <2>2, <2>3, <2>4, OneKeeps
<1> QED BY <1>1, <1>2, <1>3

LEMMA FlightKeeps ==
  ASSUME IInv, NEW r \in Requests, UNCHANGED <<archiveType, assured>>,
         Lead(r) \/ Join(r) \/ Evaluate(r) \/ Deliver(r) \/ Resume(r)
  PROVE  IInv'
<1> USE RowsStay
    DEF IInv, Kinds, Stands, Unconditional, Told, OneFetchInFlight, Goto, Flight!Stages,
            Labels, CoalesceKeys, Answers
<1>1. CASE Lead(r)
  BY <1>1 DEF Lead, Flight!Start, Flight!Running
<1>2. CASE Join(r)
  BY <1>2 DEF Join, Flight!Join
<1>3. CASE Evaluate(r)
  <2>1. PICK x \in FetchResponses(etag[r]) :
          /\ pc[r] = "fetching"
          /\ reply' = [reply EXCEPT ![r] = x] /\ etag' = [etag EXCEPT ![r] = None]
          /\ UNCHANGED <<redis, up, archiveType, archived, pc, copy, answer, key, stage,
                        outcome, job, assured>>
    BY <1>3 DEF Evaluate, flightVars
  <2>2. x \in Responses /\ (etag[r] = None => x.kind # "not_modified")
    BY <2>1, FetchFields
  <2> QED BY <2>1, <2>2
<1>4. CASE Deliver(r)
  BY <1>4 DEF Deliver, Flight!Finish, Flight!Joined
<1>5. CASE Resume(r)
  BY <1>5 DEF Resume, Flight!Take
<1> QED BY <1>1, <1>2, <1>3, <1>4, <1>5

LEMMA RevalidationKeeps ==
  ASSUME IInv, NEW r \in Requests, UNCHANGED <<archiveType, assured>>,
         RestoreStale(r) \/ Extend(r) \/ Refetch(r)
  PROVE  IInv'
<1> USE NoneAssumption, RowsStay
    DEF IInv, Kinds, Stands, Unconditional, Told, OneFetchInFlight, Answer, Goto,
        ForgetLocals, flightVars, Holds, Flight!Stages, Labels, CoalesceKeys, Answers
<1>1. CASE RestoreStale(r)
  <2>1. Kinds'
    BY <1>1 DEF RestoreStale
  <2>2. Stands(r)' /\ Unconditional(r)' /\ Told(r)'
    BY <1>1 DEF RestoreStale
  <2> QED BY <1>1, <2>1, <2>2, OneKeeps DEF RestoreStale
<1>2. CASE Extend(r)
  <2>1. Kinds'
    <3>1. outcome[r].etag \in Versions /\ copy[r] \in Versions \cup {None}
      BY <1>2, ResponseFields DEF Extend
    <3>2. \E b, s \in Versions \cup {None} :
            redis' = [body |-> b, stale |-> s, etag |-> outcome[r].etag, neg |-> FALSE]
      BY <1>2, <3>1 DEF Extend, CacheSet, CacheSetZero, StaleCopies
    <3>3. redis' \in [body : Versions \cup {None}, stale : Versions \cup {None},
                      etag : Versions \cup {None}, neg : BOOLEAN]
      BY <3>1, <3>2
    <3>4. PICK a \in {"200", "raised"} : Answer(r, a)
      BY <1>2 DEF Extend
    <3>5. Rows' /\ UNCHANGED <<archiveType, archived, up, job, assured>>
      BY <1>2 DEF Extend
    <3>6. /\ pc' \in [Requests -> Labels] /\ etag' \in [Requests -> Versions \cup {None}]
          /\ reply' \in [Requests -> Responses \cup {None}]
          /\ copy' \in [Requests -> Versions \cup {None}]
          /\ answer' \in [Requests -> Answers \cup {None}]
      BY <3>4
    <3>7. /\ key' \in [Requests -> CoalesceKeys] /\ stage' \in [Requests -> Flight!Stages]
          /\ outcome' \in [Requests -> Responses \cup {None}]
      BY <3>4
    <3> QED BY <3>3, <3>5, <3>6, <3>7
  <2>2. Stands(r)' /\ Unconditional(r)' /\ Told(r)'
    BY <1>2 DEF Extend
  <2>3. \A q \in Requests \ {r} :
          /\ pc'[q] = pc[q] /\ etag'[q] = etag[q] /\ reply'[q] = reply[q]
          /\ answer'[q] = answer[q] /\ key'[q] = key[q] /\ stage'[q] = stage[q]
          /\ outcome'[q] = outcome[q] /\ assured'[q] = assured[q]
    BY <1>2 DEF Extend
  <2>4. archived' = archived /\ pc'[r] # "fetching"
    BY <1>2 DEF Extend
  <2> HIDE DEF IInv, Kinds, Stands, Unconditional, Told
  <2> QED BY <2>1, <2>2, <2>3, <2>4, OneKeeps
<1>3. CASE Refetch(r)
  <2>1. Kinds'
    BY <1>3, SMTT(30) DEF Refetch
  <2>2. outcome[r] \in Responses /\ etag[r] \in Versions \cup {None}
    BY <1>3 DEF Refetch
  <2>3. Stands(r)'
    BY <1>3 DEF Refetch
  <2>4. Unconditional(r)' /\ Told(r)'
    BY <1>3 DEF Refetch
  <2> QED BY <1>3, <2>1, <2>3, <2>4, OneKeeps DEF Refetch
<1> QED BY <1>1, <1>2, <1>3

LEMMA OutcomesKeep ==
  ASSUME IInv, NEW r \in Requests, UNCHANGED <<archiveType, assured>>,
         \/ StoreFresh(r) \/ ShareFresh(r) \/ ArchiveResponse(r)
         \/ FallBackToStale(r) \/ FallBackToArchive(r)
         \/ StoreNegative(r) \/ PassThrough(r)
  PROVE  IInv'
<1> USE NoneAssumption, RowsStay
    DEF IInv, Kinds, Stands, Unconditional, Told, OneFetchInFlight, Answer, Advance, Goto,
        ForgetLocals, flightVars, Holds, Flight!Stages, Labels, CoalesceKeys, Answers
<1>1. CASE StoreFresh(r)
  BY <1>1, ResponseFields DEF StoreFresh, CacheSet, StaleCopies
<1>2. CASE ShareFresh(r)
  BY <1>2 DEF ShareFresh
<1>3. CASE ArchiveResponse(r)
  <2>1. outcome[r] \in Responses /\ outcome[r].kind = "ok"
    BY <1>3 DEF ArchiveResponse
  <2>2. Rows' /\ (archived # {} => archived' # {})
    BY <1>3, <2>1, ResponseFields, RowsWritten DEF ArchiveResponse
  <2> QED BY <1>3, <2>2 DEF ArchiveResponse
<1>4. CASE FallBackToStale(r)
  <2>1. /\ Answer(r, "200") \/ Advance(r, "fallback")
        /\ pc[r] \in {"leader", "waiter"} /\ UNCHANGED <<redis, up, archived, job>>
    BY <1>4 DEF FallBackToStale
  <2>2. CASE Answer(r, "200")
    BY <2>1, <2>2
  <2>3. CASE Advance(r, "fallback")
    BY <2>1, <2>3
  <2> QED BY <2>1, <2>2, <2>3
<1>5. CASE FallBackToArchive(r)
  <2>1. CASE Answer(r, "200")
    BY <1>5, <2>1 DEF FallBackToArchive
  <2>2. CASE Answer(r, "ERROR")
    BY <1>5, <2>2 DEF FallBackToArchive
  <2> QED BY <1>5, <2>1, <2>2 DEF FallBackToArchive
<1>6. CASE StoreNegative(r)
  <2>1. Kinds'
    BY <1>6 DEF StoreNegative
  <2>2. Stands(r)' /\ Unconditional(r)' /\ Told(r)'
    BY <1>6 DEF StoreNegative
  <2> QED BY <1>6, <2>1, <2>2, OneKeeps DEF StoreNegative
<1>7. CASE PassThrough(r)
  <2>1. Answer(r, "relayed") /\ UNCHANGED <<redis, up, archived, job>>
    BY <1>7 DEF PassThrough
  <2> QED BY <2>1
<1> QED BY <1>1, <1>2, <1>3, <1>4, <1>5, <1>6, <1>7

LEMMA SentKeeps ==
  ASSUME IInv, NEW r \in Requests, Sent(r)
  PROVE  IInv'
BY NoneAssumption, RowsStay
DEF IInv, Kinds, Stands, Unconditional, Told, OneFetchInFlight, Sent, Goto, flightVars,
    Labels, Answers

LEMMA CollectorKeeps ==
  ASSUME IInv, NEW c \in Collectors, Collect(c) \/ CollectorStore(c) \/ CollectorArchive(c)
  PROVE  IInv'
<1> USE RowsStay DEF IInv, Kinds, Stands, Unconditional, Told, OneFetchInFlight, requestVars
<1>1. CASE Collect(c)
  BY <1>1 DEF Collect, JobStates
<1>2. CASE CollectorStore(c)
  BY <1>2 DEF CollectorStore, JobStates, CacheSet, StaleCopies
<1>3. CASE CollectorArchive(c)
  <2>1. Rows' /\ (archived # {} => archived' # {})
    BY <1>3, RowsWritten DEF CollectorArchive, JobStates
  <2> QED BY <1>3, <2>1 DEF CollectorArchive, JobStates
<1> QED BY <1>1, <1>2, <1>3

LEMMA EnvironmentKeeps ==
  ASSUME IInv, Expire \/ Publish \/ Crash
  PROVE  IInv'
<1> USE NoneAssumption, RowsStay
    DEF IInv, Kinds, Stands, Unconditional, Told, OneFetchInFlight, requestVars, Answers
<1>1. CASE Expire
  <2>1. redis' \in [body : Versions \cup {None}, stale : Versions \cup {None},
                    etag : Versions \cup {None}, neg : BOOLEAN]
    BY <1>1 DEF Expire, ExpireBody, ExpireStale, ExpireEtag, ExpireNegative
  <2> QED BY <1>1, <2>1 DEF Expire
<1>2. CASE Publish
  BY <1>2 DEF Publish
<1>3. CASE Crash
  BY <1>3 DEF Crash, ForgetLocals, Labels, CoalesceKeys, JobStates, Flight!Stages
<1> QED BY <1>1, <1>2, <1>3

LEMMA StepIInv == IInv /\ [Next]_vars => IInv'
<1> SUFFICES ASSUME IInv, [Next]_vars PROVE IInv'
  OBVIOUS
<1>1. CASE UNCHANGED vars
  BY <1>1, RowsStay DEF vars, IInv, Kinds, Stands, Unconditional, Told, OneFetchInFlight
<1>2. CASE Next
  <2>1. ASSUME NEW r \in Requests, ReadHot(r) \/ Sent(r)
        PROVE  IInv'
    <3>1. CASE ReadHot(r)
      BY <3>1, ReadsKeep
    <3>2. CASE Sent(r)
      BY <3>2, SentKeeps
    <3> QED BY <2>1, <3>1, <3>2
  <2>2. ASSUME NEW r \in Requests, Dispatch(r)
        PROVE  IInv'
    BY <2>2, ReadsKeep, FlightKeeps, RevalidationKeeps, OutcomesKeep DEF Dispatch
  <2> QED BY <1>2, <2>1, <2>2, CollectorKeeps, EnvironmentKeeps DEF Next
<1> QED BY <1>1, <1>2

\* The inductive invariant of _dispatch beside the collector.
THEOREM Invariance == Spec => []IInv
<1>1. Init => IInv
  BY InitIInv
<1>2. IInv /\ [Next]_vars => IInv'
  BY StepIInv
<1> QED BY <1>1, <1>2, PTL DEF Spec

\* Every variable holds a value of its kind, whatever fails, expires or crashes.
THEOREM TypeCorrect == Spec => []TypeOK
<1>1. IInv => TypeOK
  BY DEF IInv, Kinds, Rows, Told, TypeOK, Flight!TypeOK
<1> QED BY <1>1, Invariance, PTL

\* coalesce() under the cache key and under the derived key of the refetch: one
\* fetch of either sort is in flight at most, however many requests there are.
THEOREM Coalesced == Spec => []OneFetchInFlight
<1>1. IInv => OneFetchInFlight
  BY DEF IInv
<1> QED BY <1>1, Invariance, PTL

\* The refetch that follows a 304 without a stale copy is not answered with
\* another 304, and no caller sees one.
THEOREM No304 == Spec => []NoBare304
<1>1. IInv => NoBare304
  BY DEF IInv, Told, NoBare304
<1> QED BY <1>1, Invariance, PTL

\* Once the endpoint was archived, degraded mode answers from the stale copy or
\* the archive, with archive writes failing and the process crashing.
THEOREM NoErrorOnceArchived == Spec => []ArchivedNeverErrors
<1>1. IInv => ArchivedNeverErrors
  BY DEF IInv, Told, ArchivedNeverErrors
<1> QED BY <1>1, Invariance, PTL

-----------------------------------------------------------------------------
(* What Redis can serve is archived.  The proof follows versions: through  *)
(* ETags and 304s on the wire too, which SeenIsArchived does not speak of, *)
(* as they may be written back to Redis.                                   *)

Traced(v) == v = None \/ archiveType = "none" \/ InArchive(v) \/ OnItsWay(v)

\* The ETag that comes with a body is its own.
OwnEtag(x) == x.etag \in {x.body, None}

TracedRequest(r) ==
  /\ Traced(copy[r]) /\ Traced(etag[r])
  /\ \A x \in {reply[r], outcome[r]} \ {None} :
       /\ x.kind = "ok" => OwnEtag(x)
       /\ x.kind = "not_modified" => Traced(x.etag)
  /\ outcome[r] # None /\ outcome[r].kind = "ok" => Traced(outcome[r].body)

\* The inductive invariant of a system without faults.
Provenance ==
  /\ Traced(redis.body) /\ Traced(redis.stale) /\ Traced(redis.etag)
  /\ \A r \in Requests : TracedRequest(r)
  /\ \A c \in Collectors : job[c].at = "store" => OwnEtag(job[c])

LEMMA InitProvenance == Init => Provenance
BY DEF Init, Provenance, Traced, TracedRequest, Empty, Flight!Init

\* What is archived stays so, though a reference's row may change its content.
LEMMA ArchiveGrows ==
  Next => archiveType' = archiveType /\ \A v : InArchive(v) => InArchive(v)'
<1> DEFINE Grows == archiveType' = archiveType /\ \A v : InArchive(v) => InArchive(v)'
<1>1. ASSUME NEW v, WriteArchive(v), archiveType' = archiveType
      PROVE  Grows
  BY <1>1 DEF WriteArchive, InArchive
<1>2. ASSUME UNCHANGED <<archiveType, archived>>
      PROVE  Grows
  BY <1>2 DEF InArchive
<1> HIDE DEF Grows
<1>3. ASSUME NEW r \in Requests, ReadHot(r) \/ Dispatch(r) \/ Sent(r)
      PROVE  Grows
  BY <1>1, <1>2, <1>3
  DEF ReadHot, Dispatch, Sent, ReadNegative, ReadEtag, Lead, Join, Evaluate, Deliver, Resume,
      RestoreStale, Extend, Refetch, StoreFresh, ShareFresh, ArchiveResponse,
      FallBackToStale, FallBackToArchive, StoreNegative, PassThrough
<1>4. ASSUME NEW c \in Collectors, Collect(c) \/ CollectorStore(c) \/ CollectorArchive(c)
      PROVE  Grows
  BY <1>1, <1>2, <1>4 DEF Collect, CollectorStore, CollectorArchive, requestVars
<1>5. ASSUME Expire \/ Publish \/ Crash
      PROVE  Grows
  BY <1>2, <1>5 DEF Expire, Publish, Crash, requestVars
<1>6. Next => Grows
  BY <1>3, <1>4, <1>5 DEF Next
<1> QED BY <1>6 DEF Grows

\* The leader of a success goes from Redis to the archive and nowhere else.
LEMMA LeaderArchives ==
  ASSUME IInv, Next, Faults = {}, NEW q \in Requests,
         pc[q] \in {"leader", "archive"}, outcome[q].kind = "ok", NEW v, outcome[q].body = v
  PROVE  \/ pc'[q] \in {"leader", "archive"} /\ outcome'[q] = outcome[q]
         \/ archiveType = "none" \/ InArchive(v)'
<1> DEFINE Kept == pc'[q] \in {"leader", "archive"} /\ outcome'[q] = outcome[q]
<1> USE DEF IInv, Kinds, Stands
<1>1. stage[q] \notin {"running", "joined", "settled"} /\ outcome[q] \in Responses
  OBVIOUS
<1>2. ASSUME NEW r \in Requests, ReadHot(r) \/ Sent(r)
      PROVE  Kept
  BY <1>2 DEF ReadHot, Sent, Answer, Advance, Goto, ForgetLocals, flightVars
<1>3. ASSUME NEW r \in Requests, Dispatch(r)
      PROVE  Kept \/ archiveType = "none" \/ InArchive(v)'
  <2>1. CASE ReadNegative(r) \/ ReadEtag(r)
    BY <2>1 DEF ReadNegative, ReadEtag, Answer, Advance, Goto, ForgetLocals, flightVars
  <2>2. CASE Lead(r) \/ Join(r) \/ Evaluate(r)
    BY <2>2 DEF Lead, Join, Evaluate, Goto, Flight!Start, Flight!Join, flightVars
  <2>3. CASE Deliver(r)
    BY <1>1, <2>3 DEF Deliver, Goto, Flight!Finish, Flight!Joined
  <2>4. CASE Resume(r)
    BY <1>1, <2>4 DEF Resume, Goto, Flight!Take
  <2>5. CASE RestoreStale(r) \/ Extend(r) \/ Refetch(r)
    BY <2>5 DEF RestoreStale, Extend, Refetch, Holds, Answer, Goto, ForgetLocals, flightVars
  <2>6. CASE StoreFresh(r)
    BY <2>6 DEF StoreFresh, Advance, Goto, flightVars
  <2>7. CASE ArchiveResponse(r)
    BY <1>3, <2>7 DEF Dispatch, ArchiveResponse, WriteArchive, InArchive, Answer, Goto, ForgetLocals
  <2>8. CASE ShareFresh(r) \/ FallBackToStale(r) \/ FallBackToArchive(r)
    BY <2>8 DEF ShareFresh, FallBackToStale, FallBackToArchive, Holds, Answer, Advance, Goto,
                ForgetLocals, flightVars
  <2>9. CASE StoreNegative(r) \/ PassThrough(r)
    BY <2>9 DEF StoreNegative, PassThrough, Holds, Answer, Goto, ForgetLocals
  <2> QED BY <1>3, <2>1, <2>2, <2>3, <2>4, <2>5, <2>6, <2>7, <2>8, <2>9 DEF Dispatch
<1>4. ASSUME NEW c \in Collectors, Collect(c) \/ CollectorStore(c) \/ CollectorArchive(c)
      PROVE  Kept
  BY <1>4 DEF Collect, CollectorStore, CollectorArchive, requestVars
<1>5. ASSUME Expire \/ Publish \/ Crash
      PROVE  Kept
  BY <1>5 DEF Expire, Publish, Crash, requestVars
<1> QED BY <1>2, <1>3, <1>4, <1>5 DEF Next

\* So does a collector job.
LEMMA CollectorArchives ==
  ASSUME IInv, Next, Faults = {}, NEW c \in Collectors, job[c].at # "idle",
         NEW v, job[c].body = v
  PROVE  \/ job'[c].at # "idle" /\ job'[c].body = job[c].body
         \/ archiveType = "none" \/ InArchive(v)'
<1> DEFINE Kept == job'[c].at # "idle" /\ job'[c].body = job[c].body
<1>1. ASSUME NEW r \in Requests, ReadHot(r) \/ Dispatch(r) \/ Sent(r)
      PROVE  Kept
  BY <1>1 DEF ReadHot, Dispatch, Sent, ReadNegative, ReadEtag, Lead, Join, Evaluate,
              Deliver, Resume, RestoreStale, Extend, Refetch, StoreFresh, ShareFresh,
              ArchiveResponse, FallBackToStale, FallBackToArchive, StoreNegative, PassThrough
<1>2. ASSUME NEW d \in Collectors, Collect(d) \/ CollectorStore(d)
      PROVE  Kept
  BY <1>2 DEF Collect, CollectorStore, IInv, Kinds
<1>3. ASSUME NEW d \in Collectors, CollectorArchive(d)
      PROVE  Kept \/ archiveType = "none" \/ InArchive(v)'
  BY <1>3 DEF CollectorArchive, WriteArchive, InArchive, requestVars, IInv, Kinds
<1>4. ASSUME Expire \/ Publish \/ Crash
      PROVE  Kept
  BY <1>4 DEF Expire, Publish, Crash
<1> QED BY <1>1, <1>2, <1>3, <1>4 DEF Next

\* A version that is archived, or in the hands of who will archive it, stays so.
LEMMA TracedStays ==
  ASSUME IInv, Next, Faults = {}, NEW v, Traced(v)
  PROVE  Traced(v)'
<1>1. archiveType' = archiveType
  BY ArchiveGrows
<1>2. CASE v = None \/ archiveType = "none" \/ InArchive(v)
  BY <1>1, <1>2, ArchiveGrows DEF Traced
<1>3. ASSUME NEW q \in Requests, pc[q] \in {"leader", "archive"},
             outcome[q].kind = "ok", outcome[q].body = v
      PROVE  Traced(v)'
  BY <1>1, <1>3, LeaderArchives DEF Traced, OnItsWay
<1>4. ASSUME NEW c \in Collectors, job[c].at # "idle", job[c].body = v
      PROVE  Traced(v)'
  BY <1>1, <1>4, CollectorArchives DEF Traced, OnItsWay
<1> QED BY <1>2, <1>3, <1>4 DEF Traced, OnItsWay

\* What a step leaves alone or forgets stays traced.
LEMMA RequestStays ==
  ASSUME \A v : Traced(v) => Traced(v)', NEW q \in Requests, TracedRequest(q),
         copy'[q] \in {copy[q], None}, etag'[q] \in {etag[q], None},
         reply'[q] \in {reply[q], None}, outcome'[q] \in {outcome[q], None}
  PROVE  TracedRequest(q)'
BY DEF TracedRequest, Traced, OwnEtag

LEMMA RedisStays ==
  ASSUME \A v : Traced(v) => Traced(v)', Provenance,
         redis'.body \in {redis.body, None}, redis'.stale \in {redis.stale, None},
         redis'.etag \in {redis.etag, None}
  PROVE  Traced(redis.body)' /\ Traced(redis.stale)' /\ Traced(redis.etag)'
BY DEF Provenance, Traced, OnItsWay

LEMMA ForgetfulStep ==
  ASSUME \A v : Traced(v) => Traced(v)', Provenance, UNCHANGED job,
         \A q \in Requests :
           /\ copy'[q] \in {copy[q], None} /\ etag'[q] \in {etag[q], None}
           /\ reply'[q] \in {reply[q], None} /\ outcome'[q] \in {outcome[q], None},
         redis'.body \in {redis.body, None}, redis'.stale \in {redis.stale, None},
         redis'.etag \in {redis.etag, None}
  PROVE  Provenance'
BY RequestStays, RedisStays DEF Provenance, OwnEtag

\* The steps that write neither Redis nor what is sent to it.
LEMMA QuietProvenance ==
  ASSUME IInv, Provenance, \A v : Traced(v) => Traced(v)', NEW r \in Requests,
         \/ ReadNegative(r) \/ Lead(r) \/ Join(r) \/ Refetch(r) \/ Resume(r)
         \/ ShareFresh(r) \/ ArchiveResponse(r) \/ FallBackToStale(r)
         \/ FallBackToArchive(r) \/ StoreNegative(r) \/ PassThrough(r)
  PROVE  Provenance'
<1> USE ForgetfulStep DEF IInv, Kinds, Answer, Advance, Goto, ForgetLocals, flightVars
<1>1. CASE ReadNegative(r) \/ Lead(r) \/ Join(r)
  BY <1>1 DEF ReadNegative, Lead, Join, Flight!Start, Flight!Join
<1>2. CASE Refetch(r) \/ Resume(r)
  BY <1>2 DEF Refetch, Resume, Flight!Take
<1>3. CASE ShareFresh(r) \/ ArchiveResponse(r)
  BY <1>3 DEF ShareFresh, ArchiveResponse
<1>4. CASE FallBackToStale(r) \/ FallBackToArchive(r)
  BY <1>4 DEF FallBackToStale, FallBackToArchive
<1>5. CASE StoreNegative(r)
  BY <1>5 DEF StoreNegative
<1>6. CASE PassThrough(r)
  BY <1>6 DEF PassThrough
<1> QED BY <1>1, <1>2, <1>3, <1>4, <1>5, <1>6

\* The ETag goes out, and an answer comes back for the leader and its waiters.
LEMMA FlightProvenance ==
  ASSUME IInv, Provenance, \A v : Traced(v) => Traced(v)', NEW r \in Requests,
         ReadEtag(r) \/ Evaluate(r) \/ Deliver(r)
  PROVE  Provenance'
<1>1. UNCHANGED <<redis, job>>
  BY DEF ReadEtag, Evaluate, Deliver
<1>2. Traced(redis.body)' /\ Traced(redis.stale)' /\ Traced(redis.etag)'
  BY <1>1, RedisStays
<1>3. CASE ReadEtag(r)
  <2>1. ASSUME NEW q \in Requests
        PROVE  TracedRequest(q)'
    BY <1>3, RequestStays DEF ReadEtag, IInv, Kinds, Provenance, TracedRequest, Traced, OwnEtag, flightVars
  <2> QED BY <1>1, <1>2, <2>1 DEF Provenance, OwnEtag
<1>4. CASE Evaluate(r)
  <2>1. ASSUME NEW q \in Requests
        PROVE  TracedRequest(q)'
    BY <1>4, RequestStays, FetchFields
    DEF Evaluate, IInv, Kinds, Provenance, TracedRequest, Traced, OwnEtag, flightVars
  <2> QED BY <1>1, <1>2, <2>1 DEF Provenance, OwnEtag
<1>5. CASE Deliver(r)
  <2>1. /\ reply[r] # None /\ pc'[r] = "leader" /\ outcome'[r] = reply[r]
        /\ UNCHANGED <<copy, etag>>
        /\ \A q \in Requests : reply'[q] \in {reply[q], None}
        /\ \A q \in Requests : outcome'[q] \in {outcome[q], reply[r]}
        /\ reply'[r] = None
    BY <1>5 DEF Deliver, Goto, IInv, Kinds, Flight!Finish
  <2>2. \A v : reply[r].kind = "ok" /\ v = reply[r].body => Traced(v)'
    BY <2>1 DEF Traced, OnItsWay
  <2>3. /\ reply[r].kind = "ok" => OwnEtag(reply[r])
        /\ reply[r].kind = "not_modified" => Traced(reply[r].etag)
    BY <2>1 DEF Provenance, TracedRequest
  <2>4. ASSUME NEW q \in Requests
        PROVE  TracedRequest(q)'
    <3>1. CASE outcome'[q] = outcome[q]
      BY <2>1, <3>1, RequestStays DEF Provenance
    <3>2. CASE outcome'[q] = reply[r]
      <4>1. Traced(copy[q])' /\ Traced(etag[q])'
        BY <2>1 DEF Provenance, TracedRequest, Traced, OnItsWay
      <4>2. outcome'[q].kind = "ok" => OwnEtag(outcome'[q]) /\ Traced(outcome[q].body)'
        BY <2>2, <2>3, <3>2 DEF OwnEtag, Traced, OnItsWay
      <4>3. outcome'[q].kind = "not_modified" => Traced(outcome[q].etag)'
        BY <2>3, <3>2 DEF Traced, OnItsWay
      <4>4. \A x \in {reply'[q]} \ {None} :
              /\ x.kind = "ok" => OwnEtag(x)
              /\ \A v : x.kind = "not_modified" /\ v = x.etag => Traced(v)'
        BY <2>1 DEF Provenance, TracedRequest
      <4> QED BY <4>1, <4>2, <4>3, <4>4 DEF TracedRequest, OwnEtag, Traced, OnItsWay
    <3> QED BY <2>1, <3>1, <3>2
  <2> QED BY <1>1, <1>2, <2>4 DEF Provenance, OwnEtag
<1> QED BY <1>3, <1>4, <1>5

LEMMA WritesProvenance ==
  ASSUME IInv, Provenance, \A v : Traced(v) => Traced(v)', NEW r \in Requests,
         RestoreStale(r) \/ Extend(r) \/ StoreFresh(r)
  PROVE  Provenance'
<1>1. CASE RestoreStale(r)
  <2>1. Traced(redis.body)' /\ Traced(redis.stale)' /\ Traced(redis.etag)'
    BY <1>1, RedisStays DEF RestoreStale
  <2>2. ASSUME NEW q \in Requests
        PROVE  TracedRequest(q)'
    <3>1. CASE copy'[q] \in {copy[q], None}
      BY <1>1, <3>1, RequestStays
      DEF RestoreStale, Provenance, IInv, Kinds, Answer, Goto, ForgetLocals, flightVars
    <3>2. CASE copy'[q] = redis.stale /\ UNCHANGED <<etag, reply, outcome>>
      BY <3>2 DEF Provenance, TracedRequest, Traced, OwnEtag
    <3> QED BY <1>1, <3>1, <3>2
        DEF RestoreStale, IInv, Kinds, Answer, Goto, ForgetLocals, flightVars
  <2> QED BY <1>1, <2>1, <2>2 DEF RestoreStale, Provenance, OwnEtag
<1>2. CASE Extend(r)
  <2>1. outcome[r] # None /\ outcome[r].kind = "not_modified"
    BY <1>2, NoneAssumption DEF Extend, IInv, Stands
  <2>2. Traced(copy[r]) /\ Traced(outcome[r].etag)
    BY <2>1 DEF Provenance, TracedRequest
  <2>3. /\ redis'.body \in {copy[r], redis.body} /\ redis'.stale \in {copy[r], None}
        /\ redis'.etag = outcome[r].etag
    BY <1>2 DEF Extend, CacheSet, CacheSetZero, StaleCopies
  <2>4. Traced(redis.body)' /\ Traced(redis.stale)' /\ Traced(redis.etag)'
    BY <2>2, <2>3 DEF Provenance, Traced, OnItsWay
  <2>5. \A q \in Requests : TracedRequest(q)'
    BY <1>2, RequestStays DEF Extend, Provenance, IInv, Kinds, Answer, ForgetLocals
  <2> QED BY <1>2, <2>4, <2>5 DEF Extend, Provenance, OwnEtag
<1>3. CASE StoreFresh(r)
  <2>1. outcome[r] # None /\ outcome[r].kind = "ok"
    BY <1>3, NoneAssumption DEF StoreFresh, Holds, IInv, Stands
  <2>2. Traced(outcome[r].body) /\ outcome[r].etag \in {outcome[r].body, None}
    BY <2>1 DEF Provenance, TracedRequest, OwnEtag
  <2>3. \A v \in {redis'.body, redis'.stale, redis'.etag} : v \in {outcome[r].body, None}
    BY <1>3, <2>2 DEF StoreFresh, CacheSet, StaleCopies
  <2>4. Traced(redis.body)' /\ Traced(redis.stale)' /\ Traced(redis.etag)'
    BY <2>2, <2>3 DEF Traced, OnItsWay
  <2>5. \A q \in Requests : TracedRequest(q)'
    BY <1>3, RequestStays DEF StoreFresh, Provenance, Advance, flightVars
  <2> QED BY <1>3, <2>4, <2>5 DEF StoreFresh, Provenance, OwnEtag
<1> QED BY <1>1, <1>2, <1>3

LEMMA CollectorProvenance ==
  ASSUME IInv, Provenance, \A v : Traced(v) => Traced(v)', NEW c \in Collectors,
         Collect(c) \/ CollectorStore(c) \/ CollectorArchive(c)
  PROVE  Provenance'
<1>1. \A q \in Requests : TracedRequest(q)'
  BY RequestStays DEF Collect, CollectorStore, CollectorArchive, requestVars, Provenance
<1>2. CASE Collect(c)
  BY <1>1, <1>2, RedisStays DEF Collect, Provenance, OwnEtag, IInv, Kinds
<1>3. CASE CollectorStore(c)
  <2>1. job[c].etag \in {job[c].body, None} /\ Traced(job[c].body)
    BY <1>3 DEF CollectorStore, Provenance, OwnEtag, Traced, OnItsWay
  <2>2. \A v \in {redis'.body, redis'.stale, redis'.etag} : v \in {job[c].body, None}
    BY <1>3, <2>1 DEF CollectorStore, CacheSet, StaleCopies
  <2>3. Traced(redis.body)' /\ Traced(redis.stale)' /\ Traced(redis.etag)'
    BY <2>1, <2>2 DEF Traced, OnItsWay
  <2>4. \A d \in Collectors : job'[d].at = "store" => OwnEtag(job'[d])
    BY <1>3 DEF CollectorStore, Provenance, OwnEtag, IInv, Kinds
  <2> QED BY <1>1, <2>3, <2>4 DEF Provenance, OwnEtag
<1>4. CASE CollectorArchive(c)
  BY <1>1, <1>4, RedisStays DEF CollectorArchive, Provenance, OwnEtag, IInv, Kinds
<1> QED BY <1>2, <1>3, <1>4

LEMMA StepProvenance ==
  ASSUME IInv, Provenance, [Next]_vars, Faults = {}
  PROVE  Provenance'
<1>1. CASE UNCHANGED vars
  BY <1>1 DEF vars, Provenance, Traced, TracedRequest, InArchive, OnItsWay, OwnEtag
<1>2. CASE Next
  <2>1. \A v : Traced(v) => Traced(v)'
    BY <1>2, TracedStays DEF Traced
  <2>2. ASSUME NEW r \in Requests, ReadHot(r) \/ Sent(r)
        PROVE  Provenance'
    BY <2>1, <2>2, ForgetfulStep
    DEF IInv, Kinds, ReadHot, Sent, Answer, Advance, Goto, ForgetLocals, flightVars
  <2>3. ASSUME NEW r \in Requests, Dispatch(r)
        PROVE  Provenance'
    BY <2>1, <2>3, QuietProvenance, FlightProvenance, WritesProvenance DEF Dispatch
  <2>4. ASSUME NEW c \in Collectors, Collect(c) \/ CollectorStore(c) \/ CollectorArchive(c)
        PROVE  Provenance'
    BY <2>1, <2>4, CollectorProvenance
  <2>5. CASE Expire
    BY <2>1, <2>5, ForgetfulStep
    DEF IInv, Kinds, Expire, ExpireBody, ExpireStale, ExpireEtag, ExpireNegative, requestVars
  <2>6. CASE Publish
    BY <2>1, <2>6, ForgetfulStep DEF Publish, requestVars
  <2>7. CASE Crash
    BY <2>7 DEF Crash
  <2> QED BY <1>2, <2>2, <2>3, <2>4, <2>5, <2>6, <2>7 DEF Next
<1> QED BY <1>1, <1>2

\* While archive writes succeed and the process lives, whatever Redis can serve
\* or revalidate, and whatever a request answers with, is archived as its endpoint's
\* type has it (a time series has that version, a reference or an event its row)
\* or in the hands of its leader or of a collector job: a 304 may extend a body
\* without archiving it, and waiters need not write.
THEOREM Archival == ASSUME Faults = {} PROVE Spec => []SeenIsArchived
<1>1. Init => IInv /\ Provenance
  BY InitIInv, InitProvenance
<1>2. IInv /\ Provenance /\ [Next]_vars => (IInv /\ Provenance)'
  BY StepIInv, StepProvenance
<1>3. Provenance => SeenIsArchived
  BY DEF Provenance, TracedRequest, Traced, SeenIsArchived, Seen
<1> QED BY <1>1, <1>2, <1>3, PTL DEF Spec
=============================================================================
