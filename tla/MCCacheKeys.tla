---------------------------- MODULE MCCacheKeys -----------------------------
(* An endpoint with optional parameters, one with a required one, a POST   *)
(* batch, and one that is not archived; requests with every combination of *)
(* a few parameters, and batches of up to three items where two are let in.*)
EXTENDS CacheKeys, TLC

Get == {"GET"}
MCEndpoints ==
  [p \in {"orders", "orders/", "history/", "names/", "status/"} |->
     CASE p \in {"orders", "orders/"} -> [methods |-> Get, archived |-> TRUE,
                           allowed |-> {"order_type", "type_id"}, required |-> {}]
       [] p = "history/" -> [methods |-> Get, archived |-> TRUE,
                            allowed |-> {"type_id"}, required |-> {"type_id"}]
       [] p = "names/" -> [methods |-> {"POST"}, archived |-> TRUE,
                          allowed |-> {}, required |-> {}]
       [] p = "status/" -> [methods |-> Get, archived |-> FALSE,
                           allowed |-> {}, required |-> {}]]

Values ==
  [p \in {"datasource", "page", "order_type", "type_id", "junk"} |->
     CASE p = "datasource" -> {"tranquility", "singularity", "serenity"}
       [] p = "page" -> {"2"}
       [] p = "order_type" -> {"all"}
       [] p = "type_id" -> {"34", "35"}
       [] p = "junk" -> {"1"}]

\* Every way to give some of the parameters in names a value.
Dicts(names) ==
  UNION {{d \in [S -> UNION {Values[p] : p \in S}] : \A p \in S : d[p] \in Values[p]} :
         S \in SUBSET names}

Bodies == UNION {[1..n -> 1..2] : n \in 0..3}

RequestsFor(versions, path, method, names, bodies) ==
  [version : versions, path : {path}, method : {method}, params : Dicts(names),
   body : bodies]

MCRequests ==
  RequestsFor({"v1", "latest"}, "orders/", "GET", {"datasource", "page", "order_type"}, {NoBody})
  \cup RequestsFor({"v1"}, "orders", "GET", {"order_type"}, {NoBody})
  \cup RequestsFor({"v1", "latest", "v9"}, "history/", "GET", {"datasource", "type_id"}, {NoBody})
  \cup RequestsFor({"v1"}, "history/", "GET", {"order_type", "type_id"}, {NoBody})
  \cup RequestsFor({"v1"}, "names/", "POST", {"datasource"}, Bodies \cup {NoBody})
  \cup RequestsFor({"v1"}, "names/", "GET", {}, {NoBody})
  \cup RequestsFor({"latest"}, "status/", "GET", {"datasource", "junk"}, {NoBody})
  \cup RequestsFor({"v1"}, "killmails/", "GET", {}, {NoBody})

Job(path, params) ==
  [version |-> "v1", path |-> path, method |-> "GET", params |-> params, body |-> NoBody]

MCJobs == {Job("orders/", "order_type" :> "all"), Job("history/", "type_id" :> "34")}
=============================================================================
