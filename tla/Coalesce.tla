------------------------------ MODULE Coalesce ------------------------------
(***************************************************************************)
(* app/coalesce.py: identical in-flight requests share one execution.      *)
(*                                                                         *)
(* The registry `_inflight` maps a key to the future of its running        *)
(* execution.  A future is identified by the call that created it.  The    *)
(* body of every `async with _lock` block has no await, so the lock is     *)
(* never held across a suspension and never contended: registering a call  *)
(* is one step, and so is settling the future and popping the key.         *)
(***************************************************************************)
CONSTANTS
  Calls,     \* the calls of coalesce(), each made once
  Keys,      \* the cache keys
  Results,   \* what coro_fn() may return
  Errors,    \* the Exceptions coro_fn() may raise
  NoCall     \* "no future registered"

ASSUME NoCallAssumption == NoCall \notin Calls

Returned(v) == <<"returned", v>>
Raised(e) == <<"raised", e>>
Outcomes == {Returned(v) : v \in Results} \cup {Raised(e) : e \in Errors}
Pending == <<"pending">>
Unmade == <<"unmade">>

VARIABLES
  inflight,  \* _inflight: key -> the call whose future is registered
  future,    \* the state of the future each call created
  key,       \* the argument `key` of each call
  pc,        \* where each call stands
  fut,       \* the local `fut` of each call
  got        \* what the call returned or raised to its caller

vars == <<inflight, future, key, pc, fut, got>>

Init ==
  /\ inflight = [k \in Keys |-> NoCall]
  /\ future = [c \in Calls |-> Unmade]
  /\ key \in [Calls -> Keys]
  /\ pc = [c \in Calls |-> "new"]
  /\ fut = [c \in Calls |-> NoCall]
  /\ got = [c \in Calls |-> Unmade]

-----------------------------------------------------------------------------
\* A slip: The future is created but never registered.
Lead_Unregistered(c) ==
  /\ pc[c] = "new"
  /\ inflight[key[c]] = NoCall
  /\ future' = [future EXCEPT ![c] = Pending]
  /\ fut' = [fut EXCEPT ![c] = c]
  /\ pc' = [pc EXCEPT ![c] = "leading"]
  /\ UNCHANGED <<inflight, key, got>>

\* No execution in flight for the key: create and register a future, run.
Lead(c) ==
  /\ pc[c] = "new"
  /\ inflight[key[c]] = NoCall
  /\ inflight' = [inflight EXCEPT ![key[c]] = c]
  /\ future' = [future EXCEPT ![c] = Pending]
  /\ fut' = [fut EXCEPT ![c] = c]
  /\ pc' = [pc EXCEPT ![c] = "leading"]
  /\ UNCHANGED <<key, got>>

\* A slip: The registry is searched without regard to the key.
Wait_AnyKey(c) ==
  /\ pc[c] = "new"
  /\ \E k \in Keys :
       /\ inflight[k] # NoCall
       /\ fut' = [fut EXCEPT ![c] = inflight[k]]
  /\ pc' = [pc EXCEPT ![c] = "waiting"]
  /\ UNCHANGED <<inflight, future, key, got>>

\* An execution is in flight: wait for its future, behind asyncio.shield.
Wait(c) ==
  /\ pc[c] = "new"
  /\ inflight[key[c]] # NoCall
  /\ fut' = [fut EXCEPT ![c] = inflight[key[c]]]
  /\ pc' = [pc EXCEPT ![c] = "waiting"]
  /\ UNCHANGED <<inflight, future, key, got>>

\* A slip: The key is not popped.
Pop_Forgotten(c) == UNCHANGED inflight

\* The `finally` block of the leader.
Pop(c) == inflight' = [inflight EXCEPT ![key[c]] = NoCall]

\* coro_fn() returns or raises an Exception: settle the future with the
\* outcome, hand it to the caller, and release the key on the way out.
Settle(c, outcome) ==
  /\ pc[c] = "leading"
  /\ future' = [future EXCEPT ![c] = outcome]
  /\ got' = [got EXCEPT ![c] = outcome]
  /\ pc' = [pc EXCEPT ![c] = "ended"]
  /\ Pop(c)
  /\ UNCHANGED <<key, fut>>

LeaderReturns(c) == \E v \in Results : Settle(c, Returned(v))

\* A slip: The exception is raised to the leader's caller only.
LeaderRaises_Unsettled(c) ==
  /\ pc[c] = "leading"
  /\ \E e \in Errors : got' = [got EXCEPT ![c] = Raised(e)]
  /\ pc' = [pc EXCEPT ![c] = "ended"]
  /\ Pop(c)
  /\ UNCHANGED <<future, key, fut>>

LeaderRaises(c) == \E e \in Errors : Settle(c, Raised(e))

\* The leader's task is cancelled inside coro_fn().  CancelledError is not an
\* Exception: `except Exception` does not see it, and only `finally` runs.
LeaderCancelled(c) ==
  /\ pc[c] = "leading"
  /\ pc' = [pc EXCEPT ![c] = "cancelled"]
  /\ Pop(c)
  /\ UNCHANGED <<future, key, fut, got>>

\* A slip: The waiter takes the future's value without awaiting it.
Wake_Unawaited(c) ==
  /\ pc[c] = "waiting"
  /\ got' = [got EXCEPT ![c] = future[fut[c]]]
  /\ pc' = [pc EXCEPT ![c] = "ended"]
  /\ UNCHANGED <<inflight, future, key, fut>>

\* A slip: Only results wake waiters.
Wake_ResultsOnly(c) ==
  /\ pc[c] = "waiting"
  /\ future[fut[c]] \in {Returned(v) : v \in Results}
  /\ got' = [got EXCEPT ![c] = future[fut[c]]]
  /\ pc' = [pc EXCEPT ![c] = "ended"]
  /\ UNCHANGED <<inflight, future, key, fut>>

\* The event loop resumes a waiter whose future is settled.
Wake(c) ==
  /\ pc[c] = "waiting"
  /\ future[fut[c]] \in Outcomes
  /\ got' = [got EXCEPT ![c] = future[fut[c]]]
  /\ pc' = [pc EXCEPT ![c] = "ended"]
  /\ UNCHANGED <<inflight, future, key, fut>>

\* A waiter's task is cancelled; the shield keeps the future out of it.
WaiterCancelled(c) ==
  /\ pc[c] = "waiting"
  /\ pc' = [pc EXCEPT ![c] = "cancelled"]
  /\ UNCHANGED <<inflight, future, key, fut, got>>

LeaderEnds(c) == LeaderReturns(c) \/ LeaderRaises(c)

Next ==
  \E c \in Calls :
    \/ Lead(c) \/ Wait(c)
    \/ LeaderReturns(c) \/ LeaderRaises(c) \/ LeaderCancelled(c)
    \/ Wake(c) \/ WaiterCancelled(c)

\* coro_fn() ends: every HTTP request has a timeout and the retries are
\* bounded; and the event loop resumes every task that can run.
Fairness == \A c \in Calls : WF_vars(LeaderEnds(c)) /\ WF_vars(Wake(c))

Spec == Init /\ [][Next]_vars /\ Fairness

-----------------------------------------------------------------------------
PCs == {"new", "leading", "waiting", "ended", "cancelled"}

\* Every variable holds a value of its kind; a call that got past the lock holds
\* a future that was made, a leader its own and a waiter another call's; and
\* exactly the calls that ended have an outcome.
TypeOK ==
  /\ inflight \in [Keys -> Calls \cup {NoCall}]
  /\ future \in [Calls -> Outcomes \cup {Pending, Unmade}]
  /\ key \in [Calls -> Keys]
  /\ pc \in [Calls -> PCs]
  /\ fut \in [Calls -> Calls \cup {NoCall}]
  /\ got \in [Calls -> Outcomes \cup {Unmade}]
  /\ \A c \in Calls :
       /\ fut[c] = NoCall <=> pc[c] = "new"
       /\ pc[c] # "new" => future[fut[c]] # Unmade
       /\ pc[c] = "leading" => fut[c] = c
       /\ pc[c] = "waiting" => fut[c] # c
       /\ got[c] # Unmade <=> pc[c] = "ended"

\* At most one execution of coro_fn runs for a key: no cache stampede.
SingleExecution ==
  \A c, d \in Calls :
    pc[c] = "leading" /\ pc[d] = "leading" /\ key[c] = key[d] => c = d

\* A call that starts now never joins a finished or a dead execution: what
\* the registry holds is the pending future of a leader still at work.
RegistryIsLive ==
  \A k \in Keys : inflight[k] # NoCall =>
    /\ pc[inflight[k]] = "leading"
    /\ key[inflight[k]] = k
    /\ future[inflight[k]] = Pending

\* A waiter gets what the leader of its own key's execution gave its caller,
\* result or exception, although the two read it at different times and the
\* key may have been led again in between.
WaitersShareTheOutcome ==
  \A c \in Calls : pc[c] = "ended" =>
    /\ key[fut[c]] = key[c]
    /\ got[c] \in Outcomes
    /\ pc[fut[c]] = "ended"
    /\ got[fut[c]] = got[c]

\* A waiter whose future is pending has a leader at work, or a cancelled one:
\* no other way the code ends an execution leaves a waiter behind.
OnlyCancellationStrands ==
  \A c \in Calls :
    pc[c] = "waiting" /\ future[fut[c]] = Pending =>
      pc[fut[c]] \in {"leading", "cancelled"}

\* Every waiter is answered, unless the task that led it was cancelled.
WaitersAreAnswered ==
  \A c, d \in Calls :
    pc[c] = "waiting" /\ fut[c] = d ~>
      pc[c] \in {"ended", "cancelled"} \/ pc[d] = "cancelled"

-----------------------------------------------------------------------------
\* The refinement mapping: a waiter is joined while its future is pending
\* under a live leader, settled once the future is, abandoned otherwise.
AbstractStage(c) ==
  IF pc[c] = "leading" THEN "running"
  ELSE IF pc[c] # "waiting" THEN pc[c]
  ELSE IF future[fut[c]] \in Outcomes THEN "settled"
  ELSE IF pc[fut[c]] = "leading" THEN "joined" ELSE "abandoned"

AbstractOutcome(c) ==
  IF pc[c] = "ended" THEN got[c]
  ELSE IF pc[c] = "waiting" /\ future[fut[c]] \in Outcomes THEN future[fut[c]]
  ELSE Unmade

Abstract == INSTANCE SingleFlight WITH
  NoOutcome <- Unmade,
  stage <- [c \in Calls |-> AbstractStage(c)],
  outcome <- [c \in Calls |-> AbstractOutcome(c)]

\* The registry and its futures implement the abstract promise.
ImplementsSingleFlight == Abstract!Spec
=============================================================================
