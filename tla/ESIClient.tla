----------------------------- MODULE ESIClient ------------------------------
(***************************************************************************)
(* app/esi_client.py: concurrent calls of ESIClient.fetch, each a first    *)
(* request and, for a paginated answer, one task per further page, under   *)
(* the global and the per-page semaphore, with retries, and with the       *)
(* error-budget breaker every response may trip.                           *)
(*                                                                         *)
(* A task is a run of _request_with_retries for one page of one fetch.     *)
(* Each await is a step; what runs between two of them is one step.        *)
(* Token-bucket pacing only delays a task and is a step it takes alone.    *)
(***************************************************************************)
EXTENDS Naturals, FiniteSets

CONSTANTS
  Fetches,              \* the concurrent calls of fetch()
  Versions,             \* the contents ESI may publish
  PageCount,            \* how many pages each has
  MaxPages,             \* the bound on it
  UpstreamConcurrency,  \* upstream_concurrency
  PageConcurrency,      \* page_concurrency
  MaxRetries,           \* esi_max_retries
  BlockTimes,           \* for how many ticks a response may trip the breaker
  None

Pages == 1..MaxPages

ASSUME ClientAssumption ==
  /\ IsFiniteSet(Fetches)
  /\ MaxPages \in Nat \ {0}
  /\ PageCount \in [Versions -> Pages]
  /\ UpstreamConcurrency \in Nat \ {0} /\ PageConcurrency \in Nat \ {0}
  /\ MaxRetries \in Nat
  /\ BlockTimes \subseteq Nat \ {0}
  /\ None \notin Versions

\* ESIResponse, by what the properties tell apart: a success has a body, by the
\* version each page was read from.
Results ==
  [status : {"refused", "500", "limited", "other", "5xx", "503"}]
    \cup [status : {"200"}, body : UNION {[1..n -> Versions] : n \in Pages}]

ASSUME NoneAssumption == None \notin Results

Tasks == Fetches \X Pages
First(f) == <<f, 1>>

VARIABLES
  up,        \* the version ESI publishes now
  pc,        \* where each task stands
  attempt,   \* its attempts used up so far
  page,      \* the version it read its page from
  upstream,  \* _upstream_sem: permits left
  pageSem,   \* _page_sem: permits left
  blocked,   \* ticks until _budget_blocked_until
  call,      \* where each fetch() stands
  total,     \* its x_pages
  result     \* what it returned

vars == <<up, pc, attempt, page, upstream, pageSem, blocked, call, total, result>>
taskVars == <<pc, attempt, page>>
callVars == <<call, total, result>>

Init ==
  /\ up \in Versions
  /\ pc = [t \in Tasks |-> "off"]
  /\ attempt = [t \in Tasks |-> 0]
  /\ page = [t \in Tasks |-> None]
  /\ upstream = UpstreamConcurrency
  /\ pageSem = PageConcurrency
  /\ blocked = 0
  /\ call = [f \in Fetches |-> "new"]
  /\ total = [f \in Fetches |-> 0]
  /\ result = [f \in Fetches |-> None]

-----------------------------------------------------------------------------
(* fetch() *)

PageTasks(f) == {t \in Tasks : t[1] = f /\ t[2] \in 2..total[f]}

Return(f, r) ==
  /\ call' = [call EXCEPT ![f] = "returned"]
  /\ result' = [result EXCEPT ![f] = r]
  /\ UNCHANGED total

\* The breaker is tripped: a synthetic 503 without contacting ESI.
Refuse(f) ==
  /\ call[f] = "new" /\ blocked > 0
  /\ Return(f, [status |-> "refused"])
  /\ UNCHANGED <<up, taskVars, upstream, pageSem, blocked>>

Begin(f) ==
  /\ call[f] = "new" /\ blocked = 0
  /\ call' = [call EXCEPT ![f] = "first"]
  /\ pc' = [pc EXCEPT ![First(f)] = "pace"]
  /\ UNCHANGED <<up, attempt, page, upstream, pageSem, blocked, total, result>>

\* The body of fetched pages 1..n, by the version each was read from.
Merged(f) == [p \in 1..total[f] |-> page[<<f, p>>]]

\* asyncio.gather: all page tasks returned, and the pages are merged in order;
\* unless the first, of several, turns out to be no list.
Merge(f) ==
  /\ call[f] = "fanout"
  /\ \A t \in PageTasks(f) : pc[t] = "ok"
  /\ \/ Return(f, [status |-> "200", body |-> Merged(f)])
     \/ total[f] > 1 /\ Return(f, [status |-> "500"])
  /\ UNCHANGED <<up, taskVars, upstream, pageSem, blocked>>

\* gather raises the first exception of a page task.  It does not cancel the
\* others: they run on, although nobody will read what they fetch.
FailFanout(f) ==
  /\ call[f] = "fanout"
  /\ \E t \in PageTasks(f) : pc[t] = "failed"
  /\ Return(f, [status |-> "500"])
  /\ UNCHANGED <<up, taskVars, upstream, pageSem, blocked>>

-----------------------------------------------------------------------------
(* _fetch_all_pages: fetch_page; and _request_with_retries *)

Goto(t, label) == pc' = [pc EXCEPT ![t] = label]
IsPageTask(t) == t[2] > 1

AcquirePage(t) ==
  /\ pc[t] = "page_sem" /\ pageSem > 0
  /\ pageSem' = pageSem - 1
  /\ Goto(t, "pace")
  /\ UNCHANGED <<up, attempt, page, upstream, blocked, callVars>>

Pace(t) ==
  /\ pc[t] = "pace"
  /\ Goto(t, "upstream_sem")
  /\ UNCHANGED <<up, attempt, page, upstream, pageSem, blocked, callVars>>

\* Take a permit and send the request: the breaker is not asked again.
Send(t) ==
  /\ pc[t] = "upstream_sem" /\ upstream > 0
  /\ upstream' = upstream - 1
  /\ Goto(t, "http")
  /\ UNCHANGED <<up, attempt, page, pageSem, blocked, callVars>>

\* _note_response_budget: 420 and 429 always trip the breaker, any response
\* may by the error budget it reports; the block is never shortened.
NoteBudget(mayPass) ==
  \/ mayPass /\ UNCHANGED blocked
  \/ \E b \in BlockTimes : blocked' = IF b > blocked THEN b ELSE blocked

\* `async with` releases the permit on the way out, by return or exception.
ReleaseUpstream == upstream' = upstream + 1
\* A slip: The page permit is not given back.
ReleasePage_Never(t) == UNCHANGED pageSem

ReleasePage(t) == pageSem' = IF IsPageTask(t) THEN pageSem + 1 ELSE pageSem

\* The task ends: a page task's own end, or fetch()'s answer to its first.
Fail(t, status) ==
  /\ Goto(t, "failed")
  /\ ReleasePage(t)
  /\ IF IsPageTask(t) THEN UNCHANGED callVars ELSE Return(t[1], [status |-> status])
  /\ UNCHANGED <<attempt, page>>

\* A slip: One retry too many.
RetryOrFail_OneMore(t, status) ==
  IF attempt[t] <= MaxRetries
    THEN /\ attempt' = [attempt EXCEPT ![t] = @ + 1]
         /\ Goto(t, "backoff")
         /\ UNCHANGED <<page, pageSem, callVars>>
    ELSE Fail(t, status)

\* 502, 503, 504 or a transport error: once more, if attempts are left.
RetryOrFail(t, status) ==
  IF attempt[t] < MaxRetries
    THEN /\ attempt' = [attempt EXCEPT ![t] = @ + 1]
         /\ Goto(t, "backoff")
         /\ UNCHANGED <<page, pageSem, callVars>>
    ELSE Fail(t, status)

\* A slip: X-Pages of later pages is not looked at.
Consistent_Unchecked(t) == TRUE

\* A later page must announce as many pages as the first one did.
Consistent(t) == IsPageTask(t) => PageCount[up] = total[t[1]]

\* 200 with a page of what ESI publishes now.  The first page says how many
\* there are, and starts a task for each of the others.
ReceivePage(t) ==
  /\ pc[t] = "http" /\ t[2] <= PageCount[up]
  /\ ReleaseUpstream
  /\ NoteBudget(TRUE)
  /\ IF ~Consistent(t)
       THEN Fail(t, "500")
       ELSE /\ pc' = [u \in Tasks |->
                        IF u = t THEN "ok"
                        ELSE IF ~IsPageTask(t) /\ u[1] = t[1] /\ u[2] \in 2..PageCount[up]
                          THEN "page_sem" ELSE pc[u]]
            /\ page' = [page EXCEPT ![t] = up]
            /\ ReleasePage(t)
            /\ IF IsPageTask(t) THEN UNCHANGED callVars
               ELSE /\ total' = [total EXCEPT ![t[1]] = PageCount[up]]
                    /\ call' = [call EXCEPT ![t[1]] = "fanout"]
                    /\ UNCHANGED result
            /\ UNCHANGED attempt
  /\ UNCHANGED up

\* 420 or 429: not retried.
ReceiveLimited(t) ==
  /\ pc[t] = "http"
  /\ ReleaseUpstream
  /\ NoteBudget(FALSE)
  /\ Fail(t, "limited")
  /\ UNCHANGED up

\* Any other status that is not retried; a page beyond the last is one.
ReceiveOther(t) ==
  /\ pc[t] = "http"
  /\ ReleaseUpstream
  /\ NoteBudget(TRUE)
  /\ Fail(t, "other")
  /\ UNCHANGED up

ReceiveRetriable(t) ==
  /\ pc[t] = "http"
  /\ ReleaseUpstream
  /\ NoteBudget(TRUE)
  /\ RetryOrFail(t, "5xx")
  /\ UNCHANGED up

\* A slip: The permit is released only after a response.
TransportError_KeepsPermit(t) ==
  /\ pc[t] = "http"
  /\ RetryOrFail(t, "503")
  /\ UNCHANGED <<up, upstream, blocked>>

\* A timeout or a broken connection: httpx.RequestError, no headers to note.
TransportError(t) ==
  /\ pc[t] = "http"
  /\ ReleaseUpstream
  /\ RetryOrFail(t, "503")
  /\ UNCHANGED <<up, blocked>>

\* _sleep_before_retry; a page task sleeps holding its page permit.
Backoff(t) ==
  /\ pc[t] = "backoff"
  /\ Goto(t, "pace")
  /\ UNCHANGED <<up, attempt, page, upstream, pageSem, blocked, callVars>>

Receive(t) ==
  \/ ReceivePage(t) \/ ReceiveLimited(t) \/ ReceiveOther(t)
  \/ ReceiveRetriable(t) \/ TransportError(t)

-----------------------------------------------------------------------------
Tick ==
  /\ blocked > 0
  /\ blocked' = blocked - 1
  /\ UNCHANGED <<up, taskVars, upstream, pageSem, callVars>>

Publish ==
  /\ up' \in Versions \ {up}
  /\ UNCHANGED <<taskVars, upstream, pageSem, blocked, callVars>>

Run(t) == AcquirePage(t) \/ Pace(t) \/ Send(t) \/ Receive(t) \/ Backoff(t)
Conclude(f) == Merge(f) \/ FailFanout(f)

Next ==
  \/ \E f \in Fetches : Refuse(f) \/ Begin(f) \/ Conclude(f)
  \/ \E t \in Tasks : Run(t)
  \/ Tick \/ Publish

\* Requests have timeouts, sleeps end, and the event loop runs what can run.
\* A task waits for a permit at most MaxRetries + 1 times per semaphore and
\* there are finitely many tasks, so weak fairness stands for FIFO queues.
Fairness ==
  /\ \A t \in Tasks : WF_vars(Run(t))
  /\ \A f \in Fetches : WF_vars(Conclude(f))

Spec == Init /\ [][Next]_vars /\ Fairness

-----------------------------------------------------------------------------
\* Every variable holds a value of its kind: no permit too many, no attempt
\* beyond the last, and a result exactly once a fetch has returned.
TypeOK ==
  /\ up \in Versions
  /\ pc \in [Tasks -> {"off", "page_sem", "pace", "upstream_sem", "http", "backoff", "ok", "failed"}]
  /\ attempt \in [Tasks -> 0..MaxRetries]
  /\ page \in [Tasks -> Versions \cup {None}]
  /\ upstream \in 0..UpstreamConcurrency
  /\ pageSem \in 0..PageConcurrency
  /\ blocked \in Nat
  /\ call \in [Fetches -> {"new", "first", "fanout", "returned"}]
  /\ total \in [Fetches -> Pages \cup {0}]
  /\ result \in [Fetches -> Results \cup {None}]
  /\ \A f \in Fetches : result[f] = None <=> call[f] # "returned"

\* Requests on the wire and permits add up for either semaphore, whatever
\* fails, retries or is orphaned: no permit is lost and none is made up.
PermitsAddUp ==
  /\ upstream + Cardinality({t \in Tasks : pc[t] = "http"}) = UpstreamConcurrency
  /\ pageSem + Cardinality({t \in Tasks : IsPageTask(t) /\
                              pc[t] \in {"pace", "upstream_sem", "http", "backoff"}})
       = PageConcurrency

\* A 200 holds every page of the listing: one for each page number the first
\* page announced, each read while ESI announced that same number.  A listing
\* that grows, shrinks or fails halfway is an error, never a shorter success.
SuccessIsComplete ==
  \A f \in Fetches : call[f] = "returned" /\ result[f].status = "200" =>
    LET body == result[f].body IN
      \A p \in DOMAIN body :
        body[p] # None /\ PageCount[body[p]] = Cardinality(DOMAIN body)

\* Every fetch() returns: the semaphores, taken in the order page, upstream,
\* never wait for each other, and no permit stays with an orphaned task.
EveryFetchReturns == \A f \in Fetches : call[f] # "new" ~> call[f] = "returned"

\* The breaker's promise: upstream calls are refused for the reset window.
NoContactWhileBlocked ==
  [][\A t \in Tasks : pc[t] # "http" /\ pc'[t] = "http" => blocked = 0]_vars
=============================================================================
