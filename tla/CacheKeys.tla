----------------------------- MODULE CacheKeys ------------------------------
(***************************************************************************)
(* app/allowlist.py and its users: which requests are let in, under which  *)
(* key their responses are kept in Redis and in the archive, and what ESI  *)
(* is asked on their behalf.  The proxy (_dispatch, steps 1 and 2) and the *)
(* collector (_fetch_and_store) compute keys and ESI requests separately   *)
(* and meet in Redis.                                                      *)
(*                                                                         *)
(* A request is a version, an unversioned path, a method, its parameters   *)
(* (a function from names to values, as of a dict) and its body (a list of *)
(* items, or NoBody).  A path is the text the client wrote: with and       *)
(* without its trailing slash it is two paths, which the table's patterns  *)
(* both let in.  An item is its place in the order of JSON texts.  Hashes  *)
(* are taken to be injective.                                              *)
(***************************************************************************)
EXTENDS Integers, Sequences, FiniteSets, Functions

CONSTANTS
  Endpoints,     \* _ENDPOINTS: from each path to its EndpointSpec
  Versions,      \* VALID_VERSIONS
  Datasources,   \* VALID_DATASOURCES
  Requests,      \* what clients may send
  Jobs,          \* the requests the collector makes, without datasource
  WarmVersions,  \* collector_warm_alias_versions
  MaxItems,      \* max_post_batch_items
  NoBody,        \* the body of a GET
  MaxKeys        \* the bound on the keys in use

\* No endpoint requires what the proxy deals with itself.
ASSUME CacheKeysAssumption ==
  /\ \A path \in DOMAIN Endpoints :
       Endpoints[path].required \cap {"page", "datasource"} = {}
  /\ "tranquility" \in Datasources
  /\ MaxItems \in Nat /\ MaxKeys \in Nat

\* The routes take GET and POST, and read a body for a POST only.
ASSUME BodiesAssumption ==
  /\ NoBody \notin Seq(Int)
  /\ \A q \in Requests : \/ q.method = "GET" /\ q.body = NoBody
                         \/ q.method = "POST" /\ q.body \in Seq(Int) \cup {NoBody}

\* The calls of _fetch_and_store: declared endpoints, with declared parameters
\* and a version ESI knows.
ASSUME JobsAssumption ==
  /\ WarmVersions \subseteq Versions
  /\ \A job \in Jobs :
       /\ job.version \in Versions /\ job.path \in DOMAIN Endpoints
       /\ Endpoints[job.path].required \subseteq DOMAIN job.params
       /\ DOMAIN job.params \subseteq Endpoints[job.path].allowed
       /\ DOMAIN job.params \cap {"page", "datasource"} = {}
       /\ job.method = "GET" /\ job.body = NoBody

VARIABLES
  default,   \* the setting default_datasource
  cache,     \* the ESI request whose response is under each Redis key
  archive    \* the same for each row's datasource, path and query hash

vars == <<default, cache, archive>>

NoKeys == [k \in {} |-> {}]

Init ==
  /\ default \in Datasources
  /\ cache = NoKeys
  /\ archive = NoKeys

-----------------------------------------------------------------------------
\* f with the value v under each key of K.
Put(f, K, v) == [k \in DOMAIN f \cup K |-> IF k \in K THEN v ELSE f[k]]

(* allowlist.py *)

\* Parameters the proxy deals with itself.
ProxyParams == {"page", "datasource"}

\* A slip: Undeclared parameters are let through.
CheckParams_RequiredOnly(spec, params) == spec.required \subseteq DOMAIN params

CheckParams(spec, params) ==
  /\ DOMAIN params \ ProxyParams \subseteq spec.allowed
  /\ spec.required \subseteq DOMAIN params

NormalizeParams(params) == Restrict(params, DOMAIN params \ ProxyParams)

\* The members of a finite set S from first to last, where R is a total order
\* of S: the n-th has n members up to itself.
InOrder(S, R) ==
  [n \in 1..Cardinality(S) |-> CHOOSE x \in S : Cardinality({y \in S : <<y, x>> \in R}) = n]

\* The items at the positions P, in the order of their positions.
Select(body, P) ==
  LET at == InOrder(P, {r \in P \X P : r[1] <= r[2]})
  IN [n \in 1..Cardinality(P) |-> body[at[n]]]

\* sorted(): a stable sort.
Sorted(body) ==
  LET D == DOMAIN body
      R == {r \in D \X D : body[r[1]] < body[r[2]] \/ (body[r[1]] = body[r[2]] /\ r[1] <= r[2])}
      at == InOrder(D, R)
  IN [n \in D |-> body[at[n]]]

\* The positions of items that were not seen before.
Unseen(body) == {i \in DOMAIN body : \A j \in 1..(i - 1) : body[j] # body[i]}

\* A slip: An item is dropped only if it is given twice in a row.
NormalizeBody_Unsorted(body) ==
  IF body = NoBody THEN NoBody
  ELSE Select(body, {i \in DOMAIN body : i = 1 \/ body[i] # body[i - 1]})

\* Sort the items, and drop those seen before.
NormalizeBody(body) ==
  IF body = NoBody THEN NoBody ELSE Select(Sorted(body), Unseen(Sorted(body)))

\* A slip: The body does not enter the hash.
QueryHash_ParamsOnly(params, body) == <<NormalizeParams(params), NoBody>>

QueryHash(params, body) == <<NormalizeParams(params), NormalizeBody(body)>>

\* A slip: The datasource does not enter the key.
CacheKey_AnyDatasource(datasource, method, version, path, params, body) ==
  [datasource |-> "tranquility", method |-> method, version |-> version, path |-> path,
   hash |-> QueryHash(params, body)]

\* build_cache_key; version and path are the full path.
CacheKey(datasource, method, version, path, params, body) ==
  [datasource |-> datasource, method |-> method, version |-> version, path |-> path,
   hash |-> QueryHash(params, body)]

-----------------------------------------------------------------------------
(* proxy.py: _dispatch, steps 1 and 2 *)

Datasource(q) == IF "datasource" \in DOMAIN q.params THEN q.params["datasource"] ELSE default

\* The path, the endpoint, the datasource, the parameters and the body.
Accepted(q) ==
  /\ q.version \in Versions
  /\ q.path \in DOMAIN Endpoints /\ q.method \in Endpoints[q.path].methods
  /\ Datasource(q) \in Datasources
  /\ CheckParams(Endpoints[q.path], q.params)
  /\ q.method = "POST" => q.body # NoBody /\ Len(q.body) <= MaxItems

Key(q) ==
  CacheKey(Datasource(q), q.method, q.version, q.path, q.params, NormalizeBody(q.body))

\* The row of the archive knows no method.
ArchiveId(q) ==
  [datasource |-> Datasource(q), version |-> q.version, path |-> q.path,
   hash |-> QueryHash(NormalizeParams(q.params), NormalizeBody(q.body))]

\* A slip: The service's own default need not be sent.
WithDatasource_NotDefault(params, datasource) ==
  IF datasource = default THEN params ELSE Put(params, {"datasource"}, datasource)

\* ESI's default need not be sent.
WithDatasource(params, datasource) ==
  IF datasource = "tranquility" THEN params ELSE Put(params, {"datasource"}, datasource)

EsiRequest(q) ==
  [version |-> q.version, path |-> q.path, method |-> q.method,
   params |-> WithDatasource(NormalizeParams(q.params), Datasource(q)),
   body |-> NormalizeBody(q.body)]

\* There is room for a further key.
Room == Cardinality(DOMAIN cache) < MaxKeys /\ Cardinality(DOMAIN archive) < MaxKeys

Archives(q) == Endpoints[q.path].archived

\* A miss that ESI answers with a success.
Serve(q) ==
  /\ Room /\ Accepted(q) /\ Key(q) \notin DOMAIN cache
  /\ cache' = Put(cache, {Key(q)}, EsiRequest(q))
  /\ archive' = IF Archives(q) THEN Put(archive, {ArchiveId(q)}, EsiRequest(q)) ELSE archive
  /\ UNCHANGED default

-----------------------------------------------------------------------------
(* collector.py: _fetch_and_store *)

\* _swap_version; the canonical version is there with its aliases.
Aliases(job) == {job.version} \cup WarmVersions

WarmKey(job, version) ==
  CacheKey(default, job.method, version, job.path, job.params, job.body)

WarmId(job) ==
  [datasource |-> default, version |-> job.version, path |-> job.path,
   hash |-> QueryHash(job.params, job.body)]

Fetch(job) ==
  [version |-> job.version, path |-> job.path, method |-> job.method,
   params |-> WithDatasource(job.params, default), body |-> job.body]

\* The response is stored under every alias, and archived under the path.
Warm(job) ==
  /\ Room
  /\ cache' = Put(cache, {WarmKey(job, v) : v \in Aliases(job)}, Fetch(job))
  /\ archive' = Put(archive, {WarmId(job)}, Fetch(job))
  /\ UNCHANGED default

\* A TTL runs out.
Expire(k) ==
  /\ cache' = Restrict(cache, DOMAIN cache \ {k})
  /\ UNCHANGED <<default, archive>>

Next ==
  \/ \E q \in Requests : Serve(q)
  \/ \E job \in Jobs : Warm(job)
  \/ \E k \in DOMAIN cache : Expire(k)

Spec == Init /\ [][Next]_vars
-----------------------------------------------------------------------------
(* What a client asks for, and what ESI takes a request to ask for: a list *)
(* of items is a set, and each side has its own default datasource.        *)

Items(body) == IF body = NoBody THEN {} ELSE Range(body)

Asks(q) ==
  [version |-> q.version, path |-> q.path, method |-> q.method, datasource |-> Datasource(q),
   params |-> Restrict(q.params, DOMAIN q.params \ ProxyParams), items |-> Items(q.body)]

Means(e) ==
  [version |-> e.version, path |-> e.path, method |-> e.method,
   datasource |-> IF "datasource" \in DOMAIN e.params THEN e.params["datasource"]
                  ELSE "tranquility",
   params |-> Restrict(e.params, DOMAIN e.params \ {"datasource"}), items |-> Items(e.body)]

\* Only what the allowlist declares is ever asked of ESI or kept: a key's
\* parameters are declared for its path, and none that is required is missing.
TypeOK ==
  /\ default \in Datasources
  /\ \A k \in DOMAIN cache \cup DOMAIN archive :
       /\ k.version \in Versions /\ k.path \in DOMAIN Endpoints /\ k.datasource \in Datasources
       /\ DOMAIN k.hash[1] \subseteq Endpoints[k.path].allowed
       /\ Endpoints[k.path].required \subseteq DOMAIN k.hash[1]

\* Whatever is in Redis, and whoever put it there, a request that finds its key
\* gets the response to what it asks for; under an alias that the collector
\* warms, possibly that of the version the collector calls.
HitsAnswerTheRequest ==
  \A q \in Requests : Accepted(q) /\ Key(q) \in DOMAIN cache =>
    LET answer == Means(cache[Key(q)]) IN
      \/ answer = Asks(q)
      \/ q.version \in WarmVersions
         /\ \E job \in Jobs : answer = [Asks(q) EXCEPT !.version = job.version]

\* The archive is keyed without the method and without aliases, and still
\* gives a request only what was the response to what it asks for.
FallbacksAnswerTheRequest ==
  \A q \in Requests : Accepted(q) /\ ArchiveId(q) \in DOMAIN archive =>
    Means(archive[ArchiveId(q)]) = Asks(q)

\* Requests that ask for the same share a key: with or without the datasource
\* that is the default, with any page, with the items of the body in any order
\* and number, through the proxy or the collector.  (A path with and without
\* its trailing slash is two paths here, as it is to the code.)
EquivalentRequestsShare ==
  \A q \in Requests, k \in DOMAIN cache :
    (Accepted(q) /\ k.version = q.version
       /\ [Means(cache[k]) EXCEPT !.version = q.version] = Asks(q))
    => Key(q) = k
=============================================================================
