---------------------------- MODULE SingleFlight ----------------------------
(***************************************************************************)
(* What request coalescing promises, with no registry and no futures:      *)
(* while an execution for a key runs, every further call for that key      *)
(* joins it; when it ends, its outcome is settled for all of them at once. *)
(* Coalesce.tla, the model of app/coalesce.py, is shown to implement it.   *)
(***************************************************************************)
CONSTANTS
  Calls,     \* the calls of coalesce(), each made once
  Keys,      \* the cache keys they are made for
  Outcomes,  \* what an execution may end with: a result or an exception
  NoOutcome  \* "nothing settled yet"

VARIABLES
  key,      \* the key each call is made for
  stage,    \* where each call stands
  outcome   \* the outcome settled for each call

vars == <<key, stage, outcome>>

Stages == {"new", "running", "joined", "settled", "ended", "abandoned", "cancelled"}

TypeOK ==
  /\ key \in [Calls -> Keys]
  /\ stage \in [Calls -> Stages]
  /\ outcome \in [Calls -> Outcomes \cup {NoOutcome}]

Init ==
  /\ key \in [Calls -> Keys]
  /\ stage = [c \in Calls |-> "new"]
  /\ outcome = [c \in Calls |-> NoOutcome]

Running(k) == {c \in Calls : stage[c] = "running" /\ key[c] = k}
Joined(k) == {c \in Calls : stage[c] = "joined" /\ key[c] = k}

\* The first call for an idle key runs the execution.
Start(c) ==
  /\ stage[c] = "new"
  /\ Running(key[c]) = {}
  /\ stage' = [stage EXCEPT ![c] = "running"]
  /\ UNCHANGED <<key, outcome>>

\* Any other call for that key shares it.
Join(c) ==
  /\ stage[c] = "new"
  /\ Running(key[c]) # {}
  /\ stage' = [stage EXCEPT ![c] = "joined"]
  /\ UNCHANGED <<key, outcome>>

\* The execution ends: the runner has its outcome and everybody who joined
\* is settled with the same one, in the same step.
Finish(c, o) ==
  /\ stage[c] = "running"
  /\ stage' = [d \in Calls |->
                 IF d = c THEN "ended"
                 ELSE IF d \in Joined(key[c]) THEN "settled" ELSE stage[d]]
  /\ outcome' = [d \in Calls |->
                   IF d \in {c} \cup Joined(key[c]) THEN o ELSE outcome[d]]
  /\ UNCHANGED key

\* The runner is cancelled: the execution is gone and so is the promise.
Abort(c) ==
  /\ stage[c] = "running"
  /\ stage' = [d \in Calls |->
                 IF d = c THEN "cancelled"
                 ELSE IF d \in Joined(key[c]) THEN "abandoned" ELSE stage[d]]
  /\ UNCHANGED <<key, outcome>>

Take(c) ==
  /\ stage[c] = "settled"
  /\ stage' = [stage EXCEPT ![c] = "ended"]
  /\ UNCHANGED <<key, outcome>>

\* A call that did not run the execution may give up at any time.
Leave(c) ==
  /\ stage[c] \in {"joined", "settled", "abandoned"}
  /\ stage' = [stage EXCEPT ![c] = "cancelled"]
  /\ outcome' = [outcome EXCEPT ![c] = NoOutcome]
  /\ UNCHANGED key

Next ==
  \E c \in Calls :
    \/ Start(c) \/ Join(c) \/ Take(c) \/ Leave(c) \/ Abort(c)
    \/ \E o \in Outcomes : Finish(c, o)

Spec == Init /\ [][Next]_vars
=============================================================================
