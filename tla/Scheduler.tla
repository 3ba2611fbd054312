----------------------------- MODULE Scheduler ------------------------------
(***************************************************************************)
(* app/scheduler.py and the job side of app/collector.py: several          *)
(* instances of the service schedule the same jobs.  A run of a job takes  *)
(* a connection from its instance's pool, tries the job's advisory lock on *)
(* it, works while it holds both, and gives both back.  A fetch of a run   *)
(* takes a further connection of the same pool to archive.                 *)
(*                                                                         *)
(* The lock belongs to the PostgreSQL session of the connection.  A        *)
(* connection may die under a run, and an instance may crash; PostgreSQL   *)
(* notices later, and then releases the lock.                              *)
(***************************************************************************)
EXTENDS Naturals, FiniteSets

CONSTANTS
  Instances,    \* the processes
  Jobs,         \* the jobs every one of them schedules
  HistoryJobs,  \* those that fan out, collect_market_history_for_region
  MaxTypes,     \* the bound on the type ids such a job discovers
  Concurrency,  \* how many of them it fetches at once
  Capacity,     \* db_pool_size + db_max_overflow
  NoOne,        \* the holder of a free lock
  Ghost         \* a session whose client is gone, unnoticed by PostgreSQL

ASSUME SchedulerAssumption ==
  /\ HistoryJobs \subseteq Jobs
  /\ Concurrency \in Nat \ {0} /\ Capacity \in Nat \ {0}
  /\ MaxTypes \in Nat \ {0}
  /\ NoOne \notin Instances /\ Ghost \notin Instances /\ NoOne # Ghost

\* What an instance makes of a job; APScheduler's max_instances is one.
Runs == Instances \X Jobs

\* The fetches of a run, one for each type id in the order of gather().
Types == 1..MaxTypes

VARIABLES
  run,      \* where each run stands
  link,     \* the connection of its session: "none", "open" or "dead"
  lock,     \* whose session holds each job's lock, as PostgreSQL sees it
  task      \* what has become of each fetch of each run

vars == <<run, link, lock, task>>

NoTasks == [t \in Types |-> "none"]
Under == {"queued", "fetching", "connecting", "writing"}

Init ==
  /\ run = [r \in Runs |-> "idle"]
  /\ link = [r \in Runs |-> "none"]
  /\ lock = [j \in Jobs |-> NoOne]
  /\ task = [r \in Runs |-> NoTasks]

Goto(r, label) == run' = [run EXCEPT ![r] = label]
SetTask(r, t, label) == task' = [task EXCEPT ![r][t] = label]

-----------------------------------------------------------------------------
(* The pool *)

\* Sessions of runs, discoveries that read, and fetches that archive.
InUse(i) ==
  Cardinality({j \in Jobs : link[<<i, j>>] # "none"})
  + Cardinality({j \in Jobs : run[<<i, j>>] = "reading"})
  + Cardinality({x \in Jobs \X Types : task[<<i, x[1]>>][x[2]] = "writing"})

\* Proxied requests come and go and use the rest of the pool: who waits for a
\* connection may always get one of the others, and may always time out.
Free(i) == InUse(i) < Capacity

-----------------------------------------------------------------------------
(* _run_singleton_job *)

\* The interval trigger.  A job that still runs is not started again.
Fire(r) ==
  /\ run[r] = "idle"
  /\ Goto(r, "connecting")
  /\ UNCHANGED <<link, lock, task>>

\* The pool's timeout, or the statement fails: the run errors.
GiveUp(r) ==
  /\ run[r] = "connecting"
  /\ Goto(r, "idle")
  /\ UNCHANGED <<link, lock, task>>

\* The function of the job, up to its first await: most jobs are one fetch; a
\* history job reads first, or returns while the error budget is blocked.
Start(r) ==
  IF r[2] \in HistoryJobs
  THEN (\E label \in {"discovering", "working"} : Goto(r, label)) /\ UNCHANGED task
  ELSE Goto(r, "working") /\ SetTask(r, 1, "fetching")

\* A slip: What pg_try_advisory_lock returns is not looked at.
Lock_Regardless(r) ==
  /\ run[r] = "connecting" /\ Free(r[1])
  /\ link' = [link EXCEPT ![r] = "open"]
  /\ lock' = [lock EXCEPT ![r[2]] = IF @ = NoOne THEN r[1] ELSE @]
  /\ Start(r)

\* The session checks out a connection, and pg_try_advisory_lock returns true.
Lock(r) ==
  /\ run[r] = "connecting" /\ Free(r[1]) /\ lock[r[2]] = NoOne
  /\ link' = [link EXCEPT ![r] = "open"]
  /\ lock' = [lock EXCEPT ![r[2]] = r[1]]
  /\ Start(r)

\* It returns false: another session holds the lock.
Skip(r) ==
  /\ run[r] = "connecting" /\ Free(r[1]) /\ lock[r[2]] # NoOne
  /\ Goto(r, "idle")
  /\ UNCHANGED <<link, lock, task>>

\* A slip: The session is not closed.
Close_Leaves(r) == Goto(r, "idle") /\ UNCHANGED link

\* The session ends: its connection goes back to the pool, or is discarded.
Close(r) ==
  /\ link' = [link EXCEPT ![r] = "none"]
  /\ Goto(r, "idle")

\* A slip: gather() without return_exceptions.
Gathered_FirstError(r) ==
  \/ \A t \in Types : task[r][t] \notin Under
  \/ \E t \in Types : task[r][t] = "raised"

\* The job has returned or raised; gather(return_exceptions=True) has waited
\* for every fetch.
Gathered(r) == \A t \in Types : task[r][t] \notin Under

\* What the run leaves of its fetches: those that still go on.
Leftover(r) == [t \in Types |-> IF task[r][t] \in Under THEN task[r][t] ELSE "none"]

\* A slip: The lock is given back when the job succeeds, not in a finally.
Unlock_OnSuccess(r) ==
  /\ run[r] = "working" /\ Gathered(r)
  /\ lock' = IF link[r] = "open" /\ \A t \in Types : task[r][t] # "raised"
             THEN [lock EXCEPT ![r[2]] = NoOne] ELSE lock
  /\ task' = [task EXCEPT ![r] = Leftover(r)]
  /\ Close(r)

\* The finally block.  On a dead connection the unlock fails, which is logged.
Unlock(r) ==
  /\ run[r] = "working" /\ Gathered(r)
  /\ lock' = IF link[r] = "open" THEN [lock EXCEPT ![r[2]] = NoOne] ELSE lock
  /\ task' = [task EXCEPT ![r] = Leftover(r)]
  /\ Close(r)

-----------------------------------------------------------------------------
(* collect_market_history_for_region, and the fetches of any job *)

\* _discover_type_ids, in a session of its own; the pool's timeout is raised.
Read(r) ==
  /\ run[r] = "discovering"
  /\ \/ Free(r[1]) /\ Goto(r, "reading")
     \/ Goto(r, "working")
  /\ UNCHANGED <<link, lock, task>>

\* gather(): one fetch for each type that is found; none if the reading fails.
FanOut(r) ==
  /\ run[r] = "reading"
  /\ \E found \in 0..MaxTypes :
       task' = [task EXCEPT ![r] = [t \in Types |-> IF t <= found THEN "queued" ELSE "none"]]
  /\ Goto(r, "working")
  /\ UNCHANGED <<link, lock>>

\* The semaphore, first come, first served.
Acquire(r, t) ==
  /\ task[r][t] = "queued" /\ \A u \in 1..(t - 1) : task[r][u] # "queued"
  /\ Cardinality({u \in Types : task[r][u] \in Under \ {"queued"}}) < Concurrency
  /\ SetTask(r, t, "fetching")
  /\ UNCHANGED <<run, link, lock>>

\* _fetch_and_store: the response goes to Redis and is to be archived, or it
\* is no success, or Redis raises.
Fetched(r, t) ==
  /\ task[r][t] = "fetching"
  /\ \E label \in {"connecting", "none", "raised"} : SetTask(r, t, label)
  /\ UNCHANGED <<run, link, lock>>

\* A slip: The pool has no timeout.
TakeConnection_NoTimeout(r, t) ==
  /\ task[r][t] = "connecting"
  /\ Free(r[1]) /\ SetTask(r, t, "writing")
  /\ UNCHANGED <<run, link, lock>>

\* write_snapshot takes a connection; the pool's timeout is caught and logged.
TakeConnection(r, t) ==
  /\ task[r][t] = "connecting"
  /\ \/ Free(r[1]) /\ SetTask(r, t, "writing")
     \/ SetTask(r, t, "none")
  /\ UNCHANGED <<run, link, lock>>

\* Committed or rolled back.
Archived(r, t) ==
  /\ task[r][t] = "writing"
  /\ SetTask(r, t, "none")
  /\ UNCHANGED <<run, link, lock>>

-----------------------------------------------------------------------------
(* What goes wrong *)

\* The locks of the sessions K, whose clients are gone.
Forsaken(K) ==
  [j \in Jobs |-> IF lock[j] \in Instances /\ <<lock[j], j>> \in K THEN Ghost ELSE lock[j]]

LinkDies(r) ==
  /\ link[r] = "open"
  /\ link' = [link EXCEPT ![r] = "dead"]
  /\ lock' = Forsaken({r})
  /\ UNCHANGED <<run, task>>

\* PostgreSQL notices that the connection is gone.
Reap(j) ==
  /\ lock[j] = Ghost
  /\ lock' = [lock EXCEPT ![j] = NoOne]
  /\ UNCHANGED <<run, link, task>>

Crash(i) ==
  LET mine == {i} \X Jobs IN
  /\ run' = [r \in Runs |-> IF r \in mine THEN "idle" ELSE run[r]]
  /\ link' = [r \in Runs |-> IF r \in mine THEN "none" ELSE link[r]]
  /\ task' = [r \in Runs |-> IF r \in mine THEN NoTasks ELSE task[r]]
  /\ lock' = Forsaken(mine)

-----------------------------------------------------------------------------
\* The steps a run takes by itself.
Proceed(r) ==
  \/ GiveUp(r) \/ Lock(r) \/ Skip(r) \/ Unlock(r)
  \/ Read(r) \/ FanOut(r)
  \/ \E t \in Types : Acquire(r, t) \/ Fetched(r, t) \/ TakeConnection(r, t) \/ Archived(r, t)

Next ==
  \/ \E r \in Runs : Fire(r) \/ Proceed(r) \/ LinkDies(r)
  \/ \E i \in Instances : Crash(i)
  \/ \E j \in Jobs : Reap(j)

\* The event loop runs what can run.
Fairness == \A r \in Runs : WF_vars(Proceed(r))

Spec == Init /\ [][Next]_vars /\ Fairness
-----------------------------------------------------------------------------
Holding == {"discovering", "reading", "working"}
Labels == {"idle", "connecting"} \cup Holding
TaskLabels == Under \cup {"none", "raised"}

\* Every variable holds a value of its kind, and a run has a connection exactly
\* from its getting the lock to the end of its session.
TypeOK ==
  /\ run \in [Runs -> Labels]
  /\ link \in [Runs -> {"none", "open", "dead"}]
  /\ \A r \in Runs : link[r] = "none" <=> run[r] \in {"idle", "connecting"}
  /\ lock \in [Jobs -> Instances \cup {NoOne, Ghost}]
  /\ task \in [Runs -> [Types -> TaskLabels]]

\* The run is at work on its job, if only by a fetch that goes on.
AtWork(r) ==
  run[r] \in Holding \/ \E t \in Types : task[r][t] \in Under

\* No two instances are at work on a job, unless the connection of one of
\* them, and with it its lock, died under the job.
JobsAreExclusive ==
  \A r, s \in Runs :
    (r # s /\ r[2] = s[2] /\ AtWork(r) /\ AtWork(s)) => "dead" \in {link[r], link[s]}

\* A lock that is held belongs to a run that will give it back, on the
\* connection that took it: none is left behind on a pooled connection, where
\* it would have every later run of the job skipped.
LocksAreBacked ==
  \A j \in Jobs : lock[j] \in Instances =>
    run[<<lock[j], j>>] \in Holding /\ link[<<lock[j], j>>] = "open"

\* Every run ends, though runs hold connections while they wait for others.
EveryRunEnds == \A r \in Runs : []<>(run[r] = "idle")
=============================================================================
