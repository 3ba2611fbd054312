--------------------------- MODULE CoalesceProofs ---------------------------
(***************************************************************************)
(* Coalesce.tla holds for any number of calls, keys and outcomes: its      *)
(* invariants, and that it implements SingleFlight.tla.                    *)
(***************************************************************************)
EXTENDS Coalesce, TLAPS

\* The strengthening: who owns a future, who holds it, and what that says.

\* A leader holds the future it made and its key is registered to it.
LeadersAreRegistered ==
  \A c \in Calls : pc[c] = "leading" =>
    fut[c] = c /\ inflight[key[c]] = c /\ future[c] = Pending

\* The maker of a future that is settled has ended with the same outcome;
\* the maker of a pending one is at work or was cancelled.
FuturesFollowTheirMaker ==
  \A c \in Calls : fut[c] = c =>
    \/ future[c] = Pending /\ pc[c] \in {"leading", "cancelled"}
    \/ future[c] \in Outcomes /\ pc[c] = "ended" /\ got[c] = future[c]

\* A call past the lock holds a future made for its own key.
CallsHoldAFuture ==
  \A c \in Calls : pc[c] # "new" =>
    fut[c] \in Calls /\ fut[fut[c]] = fut[c] /\ key[fut[c]] = key[c]

\* A call that has not entered holds nothing.
NewCallsHoldNothing ==
  \A c \in Calls : pc[c] = "new" => fut[c] = NoCall

\* A call that has ended did so with the outcome of the future it holds.
EndedCallsGotTheFuture ==
  \A c \in Calls : pc[c] = "ended" =>
    got[c] \in Outcomes /\ future[fut[c]] = got[c]

IInv ==
  /\ TypeOK
  /\ RegistryIsLive
  /\ LeadersAreRegistered
  /\ FuturesFollowTheirMaker
  /\ CallsHoldAFuture
  /\ NewCallsHoldNothing
  /\ EndedCallsGotTheFuture

-----------------------------------------------------------------------------
\* A pending or an unmade future is no outcome.
LEMMA OutcomesAreSettled ==
  Pending \notin Outcomes /\ Unmade \notin Outcomes /\ Pending # Unmade
BY SMT DEF Pending, Unmade, Outcomes, Returned, Raised

LEMMA InitEstablishes == Init => IInv
<1> SUFFICES ASSUME Init PROVE IInv
  OBVIOUS
<1> USE NoCallAssumption, OutcomesAreSettled DEF Init
<1>1. TypeOK
  BY DEF TypeOK, PCs
<1>2. RegistryIsLive /\ LeadersAreRegistered
  BY DEF RegistryIsLive, LeadersAreRegistered
<1>3. FuturesFollowTheirMaker /\ CallsHoldAFuture
  BY DEF FuturesFollowTheirMaker, CallsHoldAFuture
<1>4. NewCallsHoldNothing /\ EndedCallsGotTheFuture
  BY DEF NewCallsHoldNothing, EndedCallsGotTheFuture
<1> QED
  BY <1>1, <1>2, <1>3, <1>4 DEF IInv

\* One step per action; a settled future and a left call are the two ways a
\* step touches what the conjuncts relate.
LEMMA StepPreserves == IInv /\ [Next]_vars => IInv'
<1> SUFFICES ASSUME IInv, [Next]_vars PROVE IInv'
  OBVIOUS
<1> USE NoCallAssumption, OutcomesAreSettled
<1> USE DEF IInv, TypeOK, RegistryIsLive, LeadersAreRegistered,
            FuturesFollowTheirMaker, CallsHoldAFuture, NewCallsHoldNothing,
            EndedCallsGotTheFuture, PCs
<1>1. ASSUME NEW c \in Calls, Lead(c) PROVE IInv'
  BY <1>1 DEF Lead
<1>2. ASSUME NEW c \in Calls, Wait(c) PROVE IInv'
  BY <1>2 DEF Wait
<1>3. ASSUME NEW c \in Calls, NEW o \in Outcomes, Settle(c, o) PROVE IInv'
  BY <1>3 DEF Settle, Pop
<1>4. ASSUME NEW c \in Calls, LeaderReturns(c) PROVE IInv'
  BY <1>3, <1>4 DEF LeaderReturns, Outcomes
<1>5. ASSUME NEW c \in Calls, LeaderRaises(c) PROVE IInv'
  BY <1>3, <1>5 DEF LeaderRaises, Outcomes
<1>6. ASSUME NEW c \in Calls, LeaderCancelled(c) PROVE IInv'
  BY <1>6 DEF LeaderCancelled, Pop
<1>7. ASSUME NEW c \in Calls, Wake(c) PROVE IInv'
  BY <1>7 DEF Wake
<1>8. ASSUME NEW c \in Calls, WaiterCancelled(c) PROVE IInv'
  BY <1>8 DEF WaiterCancelled
<1>9. CASE UNCHANGED vars
  BY <1>9 DEF vars
<1> QED
  BY <1>1, <1>2, <1>4, <1>5, <1>6, <1>7, <1>8, <1>9 DEF Next

\* The strengthening is an invariant of every behaviour of the module.
THEOREM Invariance == Spec => []IInv
BY InitEstablishes, StepPreserves, PTL DEF Spec

\* Every variable of coalesce.py's model always holds a value of its kind, and
\* that of its call's phase.
THEOREM TypeCorrect == Spec => []TypeOK
<1>1. IInv => TypeOK
  BY DEF IInv
<1> QED
  BY <1>1, Invariance, PTL

\* The registry only ever holds pending futures of live leaders, so no call
\* of coalesce() joins an execution that is over.
THEOREM RegistryLive == Spec => []RegistryIsLive
<1>1. IInv => RegistryIsLive
  BY DEF IInv
<1> QED
  BY <1>1, Invariance, PTL

\* No two executions of coro_fn run for one key: the stampede protection.
THEOREM NoStampede == Spec => []SingleExecution
<1>1. IInv => SingleExecution
  \* Both leaders are the one registered for the key.
  BY DEF IInv, LeadersAreRegistered, SingleExecution
<1> QED
  BY <1>1, Invariance, PTL

\* A waiter returns or raises exactly what its leader returned or raised.
THEOREM OutcomeShared == Spec => []WaitersShareTheOutcome
<1>1. IInv => WaitersShareTheOutcome
  <2> SUFFICES ASSUME IInv, NEW c \in Calls, pc[c] = "ended"
               PROVE  /\ key[fut[c]] = key[c]
                      /\ got[c] \in Outcomes
                      /\ pc[fut[c]] = "ended"
                      /\ got[fut[c]] = got[c]
    BY DEF WaitersShareTheOutcome
  <2>1. fut[c] \in Calls /\ fut[fut[c]] = fut[c] /\ key[fut[c]] = key[c]
    BY DEF IInv, CallsHoldAFuture
  <2>2. got[c] \in Outcomes /\ future[fut[c]] = got[c]
    BY DEF IInv, EndedCallsGotTheFuture
  <2>3. pc[fut[c]] = "ended" /\ got[fut[c]] = future[fut[c]]
    BY <2>1, <2>2, OutcomesAreSettled DEF IInv, FuturesFollowTheirMaker
  <2> QED
    BY <2>1, <2>2, <2>3
<1> QED
  BY <1>1, Invariance, PTL

\* Only the cancellation of its leader leaves a waiter without an answer.
THEOREM StrandedByCancellationOnly == Spec => []OnlyCancellationStrands
<1>1. IInv => OnlyCancellationStrands
  BY OutcomesAreSettled
     DEF IInv, CallsHoldAFuture, FuturesFollowTheirMaker, OnlyCancellationStrands
<1> QED
  BY <1>1, Invariance, PTL

-----------------------------------------------------------------------------
\* Implementation of SingleFlight.

LEMMA InitImplements == Init => Abstract!Init
BY NoCallAssumption DEF Init, Abstract!Init, AbstractStage, AbstractOutcome

\* The abstract sets of running and joined calls, read from the registry.
LEMMA RunningIsRegistered ==
  ASSUME IInv, NEW k \in Keys
  PROVE  (Abstract!Running(k) = {}) <=> (inflight[k] = NoCall)
<1> USE NoCallAssumption DEF IInv, TypeOK, PCs
<1>1. \A c \in Calls : c \in Abstract!Running(k) <=> pc[c] = "leading" /\ key[c] = k
  BY DEF Abstract!Running, AbstractStage
<1>2. ASSUME NEW c \in Calls, pc[c] = "leading", key[c] = k PROVE inflight[k] # NoCall
  BY <1>2 DEF LeadersAreRegistered
<1>3. ASSUME inflight[k] # NoCall PROVE inflight[k] \in Abstract!Running(k)
  BY <1>1, <1>3 DEF RegistryIsLive
<1>4. Abstract!Running(k) \subseteq Calls
  BY DEF Abstract!Running
<1> QED
  BY <1>1, <1>2, <1>3, <1>4

LEMMA JoinedHoldTheLeadersFuture ==
  ASSUME IInv, NEW c \in Calls, pc[c] = "leading", NEW d \in Calls
  PROVE  d \in Abstract!Joined(key[c]) <=> pc[d] = "waiting" /\ fut[d] = c
<1> USE OutcomesAreSettled DEF IInv, TypeOK, PCs
<1>1. d \in Abstract!Joined(key[c]) <=> AbstractStage(d) = "joined" /\ key[d] = key[c]
  BY DEF Abstract!Joined
<1>2. AbstractStage(d) = "joined" <=>
        pc[d] = "waiting" /\ future[fut[d]] \notin Outcomes /\ pc[fut[d]] = "leading"
  BY DEF AbstractStage
<1>3. ASSUME pc[d] = "waiting" /\ pc[fut[d]] = "leading" /\ key[d] = key[c]
      PROVE  fut[d] = c
  BY <1>3 DEF LeadersAreRegistered, CallsHoldAFuture
<1>4. ASSUME pc[d] = "waiting" /\ fut[d] = c
      PROVE  key[d] = key[c] /\ future[c] \notin Outcomes
  BY <1>4 DEF LeadersAreRegistered, CallsHoldAFuture
<1> QED
  BY <1>1, <1>2, <1>3, <1>4

LEMMA StepImplements == IInv /\ IInv' /\ [Next]_vars => [Abstract!Next]_(Abstract!vars)
<1> SUFFICES ASSUME IInv, IInv', [Next]_vars
             PROVE  Abstract!Next \/ UNCHANGED Abstract!vars
  OBVIOUS
<1> USE OutcomesAreSettled, NoCallAssumption DEF PCs
<1>a. ASSUME NEW c \in Calls, pc[c] = "new", NEW d \in Calls, pc[d] = "waiting"
      PROVE  fut[d] \in Calls /\ fut[d] # c
  BY <1>a DEF IInv, CallsHoldAFuture, NewCallsHoldNothing
<1>1. ASSUME NEW c \in Calls, Lead(c) PROVE Abstract!Start(c)
  <2>1. Abstract!Running(key[c]) = {} /\ AbstractStage(c) = "new"
    BY <1>1, RunningIsRegistered DEF AbstractStage, Lead, IInv, TypeOK
  <2>2. \A d \in Calls : AbstractStage(d)' = IF d = c THEN "running" ELSE AbstractStage(d)
    BY <1>1, <1>a DEF AbstractStage, Lead, IInv, TypeOK
  <2>3. \A d \in Calls : AbstractOutcome(d)' = AbstractOutcome(d)
    BY <1>1, <1>a DEF AbstractOutcome, Lead, IInv, TypeOK
  <2> QED
    BY <1>1, <2>1, <2>2, <2>3 DEF Lead, Abstract!Start
<1>2. ASSUME NEW c \in Calls, Wait(c) PROVE Abstract!Join(c)
  <2>1. Abstract!Running(key[c]) # {} /\ AbstractStage(c) = "new"
    BY <1>2, RunningIsRegistered DEF AbstractStage, Wait, IInv, TypeOK
  <2>2. /\ inflight[key[c]] \in Calls \ {c}
        /\ pc[inflight[key[c]]] = "leading"
        /\ future[inflight[key[c]]] = Pending
    BY <1>2 DEF Wait, IInv, TypeOK, RegistryIsLive
  <2>3. \A d \in Calls : AbstractStage(d)' = IF d = c THEN "joined" ELSE AbstractStage(d)
    BY <1>2, <1>a, <2>2 DEF AbstractStage, Wait, IInv, TypeOK
  <2>4. \A d \in Calls : AbstractOutcome(d)' = AbstractOutcome(d)
    BY <1>2, <1>a, <2>2 DEF AbstractOutcome, Wait, IInv, TypeOK
  <2> QED
    BY <1>2, <2>1, <2>3, <2>4 DEF Wait, Abstract!Join
<1>3. ASSUME NEW c \in Calls, NEW o \in Outcomes, Settle(c, o)
      PROVE  Abstract!Finish(c, o)
  <2>1. pc[c] = "leading" /\ AbstractStage(c) = "running"
    BY <1>3 DEF AbstractStage, Settle
  <2>2. \A d \in Calls : d \in Abstract!Joined(key[c]) <=> pc[d] = "waiting" /\ fut[d] = c
    BY <2>1, JoinedHoldTheLeadersFuture
  <2>3. \A d \in Calls : AbstractStage(d)' =
          IF d = c THEN "ended"
          ELSE IF d \in Abstract!Joined(key[c]) THEN "settled" ELSE AbstractStage(d)
    BY <1>3, <2>2 DEF AbstractStage, Settle, IInv, TypeOK, CallsHoldAFuture, FuturesFollowTheirMaker
  <2>4. \A d \in Calls : AbstractOutcome(d)' =
          IF d \in {c} \cup Abstract!Joined(key[c]) THEN o ELSE AbstractOutcome(d)
    BY <1>3, <2>2 DEF AbstractOutcome, Settle, IInv, TypeOK, CallsHoldAFuture, FuturesFollowTheirMaker
  <2> QED
    BY <1>3, <2>1, <2>3, <2>4 DEF Settle, Abstract!Finish
<1>4. ASSUME NEW c \in Calls, LeaderCancelled(c) PROVE Abstract!Abort(c)
  <2>1. pc[c] = "leading" /\ future[c] = Pending /\ AbstractStage(c) = "running"
    BY <1>4 DEF AbstractStage, LeaderCancelled, IInv, LeadersAreRegistered
  <2>2. \A d \in Calls : d \in Abstract!Joined(key[c]) <=> pc[d] = "waiting" /\ fut[d] = c
    BY <2>1, JoinedHoldTheLeadersFuture
  <2>3. \A d \in Calls : AbstractStage(d)' =
          IF d = c THEN "cancelled"
          ELSE IF d \in Abstract!Joined(key[c]) THEN "abandoned" ELSE AbstractStage(d)
    BY <1>4, <2>1, <2>2 DEF AbstractStage, LeaderCancelled, IInv, TypeOK, CallsHoldAFuture
  <2>4. \A d \in Calls : AbstractOutcome(d)' = AbstractOutcome(d)
    BY <1>4, <2>1 DEF AbstractOutcome, LeaderCancelled, IInv, TypeOK, CallsHoldAFuture
  <2> QED
    BY <1>4, <2>1, <2>3, <2>4 DEF LeaderCancelled, Abstract!Abort
<1>5. ASSUME NEW c \in Calls, Wake(c) PROVE Abstract!Take(c)
  <2>1. AbstractStage(c) = "settled"
    BY <1>5 DEF AbstractStage, Wake
  <2>2. \A d \in Calls : pc[d] = "waiting" => fut[d] \in Calls
    BY DEF IInv, CallsHoldAFuture
  <2>3. \A d \in Calls : AbstractStage(d)' = IF d = c THEN "ended" ELSE AbstractStage(d)
    BY <1>5, <2>2 DEF AbstractStage, Wake, IInv, TypeOK
  <2>4. \A d \in Calls : AbstractOutcome(d)' = AbstractOutcome(d)
    BY <1>5, <2>2 DEF AbstractOutcome, Wake, IInv, TypeOK
  <2> QED
    BY <1>5, <2>1, <2>3, <2>4 DEF Wake, Abstract!Take
<1>6. ASSUME NEW c \in Calls, WaiterCancelled(c) PROVE Abstract!Leave(c)
  <2>1. AbstractStage(c) \in {"joined", "settled", "abandoned"}
    BY <1>6 DEF AbstractStage, WaiterCancelled
  <2>2. \A d \in Calls : pc[d] = "waiting" => fut[d] \in Calls
    BY DEF IInv, CallsHoldAFuture
  <2>3. \A d \in Calls : AbstractStage(d)' = IF d = c THEN "cancelled" ELSE AbstractStage(d)
    BY <1>6, <2>2 DEF AbstractStage, WaiterCancelled, IInv, TypeOK
  <2>4. \A d \in Calls : AbstractOutcome(d)' = IF d = c THEN Unmade ELSE AbstractOutcome(d)
    BY <1>6, <2>2 DEF AbstractOutcome, WaiterCancelled, IInv, TypeOK
  <2> QED
    BY <1>6, <2>1, <2>3, <2>4 DEF WaiterCancelled, Abstract!Leave
<1>7. CASE UNCHANGED vars
  BY <1>7 DEF AbstractStage, AbstractOutcome, vars, Abstract!vars
<1>8. ASSUME NEW c \in Calls, LeaderReturns(c) \/ LeaderRaises(c)
      PROVE  \E o \in Outcomes : Abstract!Finish(c, o)
  BY <1>3, <1>8 DEF LeaderReturns, LeaderRaises, Outcomes
<1> QED
  BY <1>1, <1>2, <1>4, <1>5, <1>6, <1>7, <1>8 DEF Next, Abstract!Next

\* coalesce.py's registry of futures implements the promise that every call
\* joining a running execution is settled with its outcome, in one step.
THEOREM Implementation == Spec => ImplementsSingleFlight
BY Invariance, InitImplements, StepImplements, PTL DEF Spec, Abstract!Spec, ImplementsSingleFlight
=============================================================================
